---------------------------- MODULE MigrationMC ----------------------------
(***************************************************************************)
(* A small instance of Migration: two matches, of which the first carries  *)
(* the payload that matters, and files of eight versions.                  *)
(***************************************************************************)
EXTENDS Migration, TLC

CONSTANTS a, b, c, m1, m2

TwoPairs == {<<a, b>>, <<c, b>>}
AllTeams == {{a, b, c}}

Message(minutes, knockout, pens, home, away) ==
    [minutes |-> minutes, knockout |-> knockout, extra |-> Absent,
     pens |-> pens, home |-> home, away |-> away]

Plain     == Message(-1, Absent, Absent, 0, 0)
Shootout  == Message(120, TRUE, TRUE, 4, 3)
Scoreless == Message(120, TRUE, TRUE, Absent, 3)
AllPayloads == {Plain, Shootout, Scoreless, Garbled}

Detail(columns, source) ==
    [base |-> 1, minutes |-> columns.minutes, knockout |-> columns.knockout, source |-> source]
SomeDetails ==
    {Detail(k, s) : k \in {NoColumns, [minutes |-> 120, knockout |-> TRUE]},
                    s \in {NoSource, SourceOf(Shootout)}}
OnlyBase == [d \in Details |-> d.base]

Old == Detail(NoColumns, NoSource)
Row(status, pair, detail, stamp) == [status |-> status, pair |-> pair, detail |-> detail, stamp |-> stamp]
SomeAnswers == {Row("PreMatch", <<a, b>>, Old, 1), Row("FullTime", <<a, b>>, Old, 1),
                Row("FullTime", <<c, b>>, Old, 2)}

(* The file an earlier release left behind.                                *)
LeftBehind ==
    /\ version \in {0, 7, 8, 10, 11, 12, 13, 18}
    /\ teams = IF version = 0 THEN {} ELSE Teams
    /\ games \in {[g \in Games |-> IF g = m1 THEN one ELSE other] :
          one \in {Absent, Row("PreMatch", <<a, b>>, Old, 1), Row("FullTime", <<a, b>>, Old, 1)},
          other \in {Absent, Row("FullTime", <<c, b>>, Old, 1)}}
    /\ version = 0 => Cached(games) = {}
    /\ lastRun \in {Absent} \cup
          {[at |-> 1, snapshot |-> s] : s \in {SnapshotID(games), [g \in Games |-> Absent]}}
    /\ xg \in {[g \in Games |-> IF g \in known /\ FullTime(games[g])
                  THEN [available |-> TRUE, pair |-> games[g].pair, value |-> 1,
                        split |-> Absent, first |-> 1, checked |-> 1]
                  ELSE Absent] : known \in SUBSET Games}
    /\ version = 0 => lastRun = Absent
    /\ legacy \in IF version = Latest THEN {Absent}
          ELSE {[payload |-> [g \in Games |-> IF g = m1 THEN p ELSE Plain], xgAt |-> at,
                 attempted |-> lastRun # Absent, elsewhere |-> Never, ambiguous |-> u] :
                   p \in AllPayloads, at \in {Never, 1}, u \in {FALSE, version = 12}}
    /\ resultCheck = [g \in Games |->
          IF version >= 11 /\ games[g] # Absent
          THEN [checked |-> 1, first |-> Never, changed |-> Never, due |-> Never] ELSE Absent]
    /\ xgCheck = [g \in Games |->
          IF version >= 12 /\ xg[g] # Absent
          THEN [checked |-> 1, first |-> 1, changed |-> Never, due |-> Never] ELSE Absent]
    /\ scope = [r \in Resources |-> Absent]
    /\ venue = IF version >= 8 /\ Cached(games) # {}
               THEN [fixtureReady |-> TRUE, xgReady |-> FALSE,
                     results |-> Results(games), rated |-> Rated(games, xg)]
               ELSE Absent
    /\ registered = IF version >= 9 /\ Cached(games) # {} THEN "available" ELSE Absent
    /\ opener = [p \in Procs |-> "closed"]
    /\ fresh = [p \in Procs |-> FALSE]
    /\ tx = Absent

SomeFile == LeftBehind /\ MigrationInit

MCSpec == SomeFile /\ [][MigrationNext]_allVars
=============================================================================
