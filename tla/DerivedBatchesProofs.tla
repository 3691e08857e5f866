------------------------ MODULE DerivedBatchesProofs ------------------------
(***************************************************************************)
(* Theorems about DerivedBatches for any callers, processes and snapshots, *)
(* with no bound on time, writes or troubles used.                         *)
(*                                                                         *)
(* Identity and lineage: a refresh beyond its input reads goes on with     *)
(* fixtures that are the snapshot it was given (Inputs); a row is only     *)
(* inserted while what it cites is stored and only deleted while nothing   *)
(* left cites it, and ids are never given out twice, so a citation always  *)
(* means the row it was made for (Cited). No lease, lock or clock is       *)
(* appealed to: lineage holds for any number of processes and any          *)
(* interleaving.                                                           *)
(*                                                                         *)
(* Pruning: what readers are given is the latest success, a finite keyed   *)
(* table has one (LatestExists), and a prune keeps it, so answers and the  *)
(* citations of what is kept survive any cutoff.                           *)
(*                                                                         *)
(* One process: its lock leaves one refresh at a time beyond the first     *)
(* lookup (OneCalculation), no row has a finish time of the future         *)
(* (Timely), and what that refresh looked up stays the latest until it     *)
(* publishes (Based, Undisturbed); so what it publishes is what is served  *)
(* and is never less than what was served before.                          *)
(***************************************************************************)
EXTENDS DerivedBatches, FiniteSetTheorems, WellFoundedInduction, TLAPS

Table(set, last) == IsFiniteSet(set) /\ Keyed(set) /\ \A r \in set : r.id <= last

TypeInv ==
    /\ TypeOK
    /\ Table(syncs, seq["syncs"]) /\ Table(quals, seq["quals"]) /\ Table(scens, seq["scens"])

Inputs ==
    /\ BatchFromItsSnapshot
    /\ \A c \in Callers :
          job[c] # Absent /\ job[c].at # "read" => job[c].from = job[c].snap

(* The qualification run a search works against is, as long as it is       *)
(* stored, a complete one of the search's fixtures: its id cannot come to  *)
(* mean another.                                                           *)
Cited ==
    \A c \in Callers : At(c, "search") =>
        /\ job[c].qual <= seq["quals"]
        /\ \A q \in quals : q.id = job[c].qual => q.complete /\ q.snap = job[c].snap

-----------------------------------------------------------------------------
LEMMA Facts ==
    /\ Absent \notin SyncRow /\ Absent \notin QualRow
    /\ Absent \notin ScenRow /\ Absent \notin Job
BY DerivedAssumption DEF DerivedAssumption

LEMMA Insert ==
    ASSUME NEW set, NEW row, NEW last \in Nat, \A r \in set : r.id \in Nat,
           Table(set, last), row.id = 1 + last
    PROVE  Table(set \cup {row}, 1 + last)
<1>1. IsFiniteSet(set \cup {row})
  BY FS_AddElement DEF Table
<1>2. \A r \in set \cup {row} : r.id <= 1 + last
  BY DEF Table
<1>3. ASSUME NEW a \in set \cup {row}, NEW b \in set \cup {row}, a.id = b.id
      PROVE  a = b
  BY <1>3 DEF Table, Keyed
<1> QED
  BY <1>1, <1>2, <1>3 DEF Table, Keyed

LEMMA Remove ==
    ASSUME NEW set, NEW left, left \subseteq set, NEW last, Table(set, last)
    PROVE  Table(left, last)
BY FS_Subset DEF Table, Keyed

(* The latest row of a table that has rows is there: of the sets of rows   *)
(* newer than a row, a smallest one is empty.                              *)
LEMMA LatestExists ==
    ASSUME NEW set, set # {}, \A r \in set : r.id \in Nat /\ r.at \in Nat,
           IsFiniteSet(set), Keyed(set)
    PROVE  /\ LatestOf(set) \in set
           /\ \A o \in set \ {LatestOf(set)} : Newer(LatestOf(set), o)
<1> DEFINE Above(r) == {o \in set : Newer(o, r)}
           above == {Above(r) : r \in set}
<1>1. above \subseteq FiniteSubsetsOf(set) /\ above # {}
  <2>1. \A r \in set : Above(r) \subseteq set /\ IsFiniteSet(Above(r))
    BY FS_Subset
  <2> QED
    BY <2>1 DEF FiniteSubsetsOf
<1>2. \E g \in above : \A h \in above : <<h, g>> \notin StrictSubsetOrdering(set)
  <2> HIDE DEF above
  <2> QED
    BY <1>1, FS_StrictSubsetOrderingWellFounded, WFMin
<1>3. PICK t \in set : \A o \in set : <<Above(o), Above(t)>> \notin StrictSubsetOrdering(set)
  BY <1>2
<1>4. ASSUME NEW o \in set, Newer(o, t) PROVE FALSE
  <2>1. Above(o) \subseteq Above(t)
    BY <1>4 DEF Newer
  <2>2. o \in Above(t) /\ o \notin Above(o)
    BY <1>4 DEF Newer
  <2>3. <<Above(o), Above(t)>> \notin StrictSubsetOrdering(set)
    BY <1>3
  <2> HIDE DEF Above
  <2>4. Above(t) \subseteq set
    BY DEF Above
  <2> QED
    BY <2>1, <2>2, <2>3, <2>4 DEF StrictSubsetOrdering
<1>5. ASSUME NEW o \in set \ {t} PROVE Newer(t, o)
  BY <1>4 DEF Newer, Keyed
<1>6. LatestOf(set) = CHOOSE r \in set : \A o \in set \ {r} : Newer(r, o)
  BY DEF LatestOf
<1> HIDE DEF Newer
<1> QED
  BY <1>5, <1>6

LEMMA LatestUnique ==
    ASSUME NEW set, NEW t \in set, \A o \in set : o.id \in Nat /\ o.at \in Nat,
           \A o \in set \ {t} : Newer(t, o)
    PROVE  LatestOf(set) = t
<1>1. \A r \in set : (\A o \in set \ {r} : Newer(r, o)) => r = t
  BY DEF Newer
<1>2. LatestOf(set) = CHOOSE r \in set : \A o \in set \ {r} : Newer(r, o)
  BY DEF LatestOf
<1> QED
  BY <1>1, <1>2

LEMMA Ids ==
    ASSUME TypeOK
    PROVE  /\ \A r \in syncs : r.id \in Nat /\ r.at \in Nat
           /\ \A r \in quals : r.id \in Nat /\ r.at \in Nat
           /\ \A r \in scens : r.id \in Nat /\ r.at \in Nat
BY DEF TypeOK, SyncRow, QualRow, ScenRow

LEMMA JobFields ==
    ASSUME TypeOK, NEW c \in Callers, job[c] # Absent
    PROVE  /\ job[c] \in Job
           /\ job[c].sync \in Nat /\ job[c].qual \in Nat /\ job[c].finish \in Nat
           /\ job[c].snap \in Snapshots /\ job[c].from \in Snapshots
           /\ job[c].force \in BOOLEAN /\ job[c].kind \in Kinds
BY DEF TypeOK, Job

Places == {"read", "waiting", "prove", "publish", "scenario", "baseline", "search"}

(* Jobs stay jobs when they move, take in a value or stop.                 *)
LEMMA Moves ==
    ASSUME TypeOK, NEW c \in Callers, job[c] # Absent
    PROVE  /\ \A place \in Places :
                 [job EXCEPT ![c].at = place] \in [Callers -> Job \cup {Absent}]
           /\ [job EXCEPT ![c] = Absent] \in [Callers -> Job \cup {Absent}]
<1>1. job[c] \in Job /\ job \in [Callers -> Job \cup {Absent}]
  BY JobFields DEF TypeOK
<1>2. ASSUME NEW place \in Places
      PROVE  [job[c] EXCEPT !.at = place] \in Job
  BY <1>1 DEF Job, Places
<1> QED
  BY <1>1, <1>2

LEMMA RowTypes ==
    ASSUME TypeInv, NEW c \in Callers, job[c] # Absent,
           NEW complete \in BOOLEAN, NEW full \in BOOLEAN
    PROVE  /\ QualRun(c, complete, full) \in QualRow
           /\ ScenRun(c, complete, full) \in ScenRow
<1>1. clock \in Nat /\ NextId("quals") \in Nat /\ NextId("scens") \in Nat
  BY DEF NextId, TypeInv, TypeOK
<1>2. /\ job[c].sync \in Nat /\ job[c].qual \in Nat /\ job[c].finish \in Nat
      /\ job[c].snap \in Snapshots /\ job[c].from \in Snapshots /\ job[c].kind \in Kinds
  BY JobFields DEF TypeInv
<1>3. QualRun(c, complete, full) \in QualRow
  BY <1>1, <1>2 DEF QualRun, QualRow
<1>4. ScenRun(c, complete, full) \in ScenRow
  BY <1>1, <1>2 DEF ScenRun, ScenRow
<1> QED
  BY <1>3, <1>4

-----------------------------------------------------------------------------
(* Of the number of each table, one changes at a time.                      *)
LEMMA Numbers ==
    ASSUME TypeOK, NEW table \in DOMAIN seq, Number(table)
    PROVE  /\ seq' \in [{"syncs", "quals", "scens"} -> Nat]
           /\ NextId(table) = 1 + seq[table] /\ seq[table] \in Nat
           /\ seq'[table] = 1 + seq[table]
           /\ \A other \in {"syncs", "quals", "scens"} \ {table} : seq'[other] = seq[other]
BY DEF TypeOK, Number, NextId

LEMMA TypeWrite ==
    ASSUME TypeInv, NEW s \in Snapshots, SourceWrite(s),
           job' \in [Callers -> Job \cup {Absent}], troubles' \in Nat
    PROVE  TypeInv'
<1> DEFINE row == [id |-> NextId("syncs"), at |-> clock, snap |-> s]
<1>1. /\ seq' \in [{"syncs", "quals", "scens"} -> Nat]
      /\ NextId("syncs") = 1 + seq["syncs"] /\ seq["syncs"] \in Nat
      /\ seq'["syncs"] = 1 + seq["syncs"]
      /\ seq'["quals"] = seq["quals"] /\ seq'["scens"] = seq["scens"]
  BY Numbers DEF SourceWrite, TypeInv, TypeOK
<1>2. row \in SyncRow /\ row.id = 1 + seq["syncs"]
  BY <1>1 DEF SyncRow, TypeInv, TypeOK
<1>3. /\ syncs' = syncs \cup {row} /\ fixtures' = s /\ writes' = writes + 1
      /\ UNCHANGED <<clock, quals, scens>>
  BY DEF SourceWrite
<1> HIDE DEF row
<1>4. Table(syncs', seq'["syncs"])
  BY <1>1, <1>2, <1>3, Ids, Insert DEF TypeInv
<1>5. Table(quals', seq'["quals"]) /\ Table(scens', seq'["scens"])
  BY <1>1, <1>3 DEF TypeInv
<1>6. TypeOK'
  BY <1>1, <1>2, <1>3, <1>4 DEF TypeInv, TypeOK, Table, Keyed
<1> QED
  BY <1>4, <1>5, <1>6 DEF TypeInv, Table, Keyed

(* The steps that move, start or stop refreshes and change no row.         *)
LEMMA TypeMove ==
    ASSUME TypeInv, job' \in [Callers -> Job \cup {Absent}], troubles' \in Nat,
           clock' \in Nat, UNCHANGED <<fixtures, rows, writes>>
    PROVE  TypeInv'
BY DEF TypeInv, TypeOK, rows, Table, Keyed

LEMMA TypeQual ==
    ASSUME TypeInv, job' \in [Callers -> Job \cup {Absent}], troubles' \in Nat,
           NEW c \in Callers, job[c] # Absent,
           NEW complete \in BOOLEAN, NEW full \in BOOLEAN,
           quals' = quals \cup {QualRun(c, complete, full)}, Number("quals"),
           UNCHANGED <<clock, fixtures, syncs, scens, writes>>
    PROVE  TypeInv'
<1> DEFINE row == QualRun(c, complete, full)
<1>1. /\ seq' \in [{"syncs", "quals", "scens"} -> Nat]
      /\ NextId("quals") = 1 + seq["quals"] /\ seq["quals"] \in Nat
      /\ seq'["quals"] = 1 + seq["quals"]
      /\ seq'["syncs"] = seq["syncs"] /\ seq'["scens"] = seq["scens"]
  BY Numbers DEF TypeInv, TypeOK
<1>2. row \in QualRow /\ row.id = 1 + seq["quals"]
  BY <1>1, RowTypes DEF QualRun
<1> HIDE DEF row
<1>3. quals' = quals \cup {row}
  BY DEF row
<1>4. Table(quals', seq'["quals"])
  BY <1>1, <1>2, <1>3, Ids, Insert DEF TypeInv
<1>5. Table(syncs', seq'["syncs"]) /\ Table(scens', seq'["scens"])
  BY <1>1 DEF TypeInv
<1>6. TypeOK'
  BY <1>1, <1>2, <1>3, <1>4 DEF TypeInv, TypeOK, Table, Keyed
<1> QED
  BY <1>4, <1>5, <1>6 DEF TypeInv, Table, Keyed

LEMMA TypeScen ==
    ASSUME TypeInv, job' \in [Callers -> Job \cup {Absent}], troubles' \in Nat,
           NEW c \in Callers, job[c] # Absent,
           NEW complete \in BOOLEAN, NEW full \in BOOLEAN,
           scens' = scens \cup {ScenRun(c, complete, full)}, Number("scens"),
           UNCHANGED <<clock, fixtures, syncs, quals, writes>>
    PROVE  TypeInv'
<1> DEFINE row == ScenRun(c, complete, full)
<1>1. /\ seq' \in [{"syncs", "quals", "scens"} -> Nat]
      /\ NextId("scens") = 1 + seq["scens"] /\ seq["scens"] \in Nat
      /\ seq'["scens"] = 1 + seq["scens"]
      /\ seq'["syncs"] = seq["syncs"] /\ seq'["quals"] = seq["quals"]
  BY Numbers DEF TypeInv, TypeOK
<1>2. row \in ScenRow /\ row.id = 1 + seq["scens"]
  BY <1>1, RowTypes DEF ScenRun
<1> HIDE DEF row
<1>3. scens' = scens \cup {row}
  BY DEF row
<1>4. Table(scens', seq'["scens"])
  BY <1>1, <1>2, <1>3, Ids, Insert DEF TypeInv
<1>5. Table(syncs', seq'["syncs"]) /\ Table(quals', seq'["quals"])
  BY <1>1 DEF TypeInv
<1>6. TypeOK'
  BY <1>1, <1>2, <1>3, <1>4 DEF TypeInv, TypeOK, Table, Keyed
<1> QED
  BY <1>4, <1>5, <1>6 DEF TypeInv, Table, Keyed

LEMMA TypePrune ==
    ASSUME TypeInv, NEW before, Prune(before)
    PROVE  TypeInv'
<1>1. /\ syncs' \subseteq syncs /\ quals' \subseteq quals /\ scens' \subseteq scens
      /\ UNCHANGED <<clock, fixtures, seq, job, writes, troubles>>
  BY DEF Prune
<1>2. /\ Table(syncs', seq'["syncs"]) /\ Table(quals', seq'["quals"])
      /\ Table(scens', seq'["scens"])
  BY <1>1, Remove DEF TypeInv
<1>3. TypeOK'
  BY <1>1, <1>2 DEF TypeInv, TypeOK, Table, Keyed
<1> QED
  BY <1>2, <1>3 DEF TypeInv, Table, Keyed

(* What a refresh becomes when it begins, reads or finds something.        *)
LEMMA NewJobs ==
    ASSUME TypeInv, NEW c \in Callers
    PROVE  /\ \A place \in Places, sync \in Nat, s \in Snapshots, force \in BOOLEAN :
                 [job EXCEPT ![c] = Refresh(place, sync, s, s, force)]
                    \in [Callers -> Job \cup {Absent}]
           /\ job[c] # Absent =>
                 /\ [job EXCEPT ![c].at = "waiting", ![c].from = fixtures]
                       \in [Callers -> Job \cup {Absent}]
                 /\ [job EXCEPT ![c].at = "publish", ![c].finish = clock]
                       \in [Callers -> Job \cup {Absent}]
                 /\ [job EXCEPT ![c].at = "scenario", ![c].kind = "season"]
                       \in [Callers -> Job \cup {Absent}]
                 /\ \A id \in Nat : [job EXCEPT ![c].at = "search", ![c].qual = id]
                       \in [Callers -> Job \cup {Absent}]
<1>1. /\ job \in [Callers -> Job \cup {Absent}]
      /\ clock \in Nat /\ fixtures \in Snapshots
  BY DEF TypeInv, TypeOK
<1>2. ASSUME NEW place \in Places, NEW sync \in Nat, NEW s \in Snapshots, NEW force \in BOOLEAN
      PROVE  Refresh(place, sync, s, s, force) \in Job
  BY DEF Refresh, Job, Places, Kinds
<1>3. job[c] # Absent => job[c] \in Job
  BY <1>1
<1>4. ASSUME job[c] # Absent
      PROVE  [job[c] EXCEPT !.at = "waiting", !.from = fixtures] \in Job
  BY <1>1, <1>3, <1>4 DEF Job
<1>5. ASSUME job[c] # Absent
      PROVE  [job[c] EXCEPT !.at = "publish", !.finish = clock] \in Job
  BY <1>1, <1>3, <1>5 DEF Job
<1>6. ASSUME job[c] # Absent
      PROVE  [job[c] EXCEPT !.at = "scenario", !.kind = "season"] \in Job
  BY <1>3, <1>6 DEF Job, Kinds
<1>7. ASSUME job[c] # Absent, NEW id \in Nat
      PROVE  [job[c] EXCEPT !.at = "search", !.qual = id] \in Job
  BY <1>3, <1>7 DEF Job
<1> QED
  BY <1>1, <1>2, <1>4, <1>5, <1>6, <1>7

LEMMA NextKindType ==
    ASSUME TypeInv, NEW c \in Callers, job[c] # Absent, NextKind(c)
    PROVE  job' \in [Callers -> Job \cup {Absent}]
<1>1. /\ [job EXCEPT ![c].at = "scenario", ![c].kind = "season"]
            \in [Callers -> Job \cup {Absent}]
      /\ [job EXCEPT ![c] = Absent] \in [Callers -> Job \cup {Absent}]
  BY NewJobs, Moves DEF TypeInv
<1>2. \/ job' = [job EXCEPT ![c].at = "scenario", ![c].kind = "season"]
      \/ job' = [job EXCEPT ![c] = Absent]
  BY DEF NextKind, Stop
<1> QED
  BY <1>1, <1>2

LEMMA Bounds ==
    ASSUME TypeInv
    PROVE  /\ troubles \in Nat /\ clock \in Nat
           /\ Trouble => troubles' \in Nat
           /\ NoTrouble => troubles' \in Nat
           /\ \A force \in BOOLEAN : ForceBounded(force) => troubles' \in Nat
           /\ \A full \in BOOLEAN : Limited(full) => troubles' \in Nat
BY DEF TypeInv, TypeOK, Trouble, NoTrouble, ForceBounded, Limited

(* The rows readers are given are rows of the tables.                      *)
LEMMA LatestIn ==
    ASSUME NEW table, NEW last, Table(table, last),
           \A r \in table : r.id \in Nat /\ r.at \in Nat,
           NEW set \in SUBSET table, set # {}
    PROVE  LatestOf(set) \in set /\ \A o \in set \ {LatestOf(set)} : Newer(LatestOf(set), o)
<1>1. IsFiniteSet(set) /\ Keyed(set)
  BY Remove DEF Table
<1> QED
  BY <1>1, LatestExists

LEMMA Latest ==
    ASSUME TypeInv
    PROVE  /\ LastSuccess # Absent => LastSuccess \in syncs
           /\ \A s : QualificationFor(s) # Absent =>
                 QualificationFor(s) \in {q \in quals : q.snap = s /\ q.complete}
<1>1. LastSuccess # Absent => LastSuccess \in syncs
  BY Ids, LatestIn DEF TypeInv, LastSuccess, LatestOf
<1>2. ASSUME NEW s, QualificationFor(s) # Absent
      PROVE  QualificationFor(s) \in {q \in quals : q.snap = s /\ q.complete}
  <2> DEFINE set == {q \in quals : q.snap = s /\ q.complete}
  <2>1. set # {} /\ set \in SUBSET quals /\ QualificationFor(s) = LatestOf(set)
    BY <1>2 DEF QualificationFor, LatestOf
  <2> HIDE DEF set
  <2>2. LatestOf(set) \in set
    BY <2>1, Ids, LatestIn DEF TypeInv
  <2> QED
    BY <2>1, <2>2 DEF set
<1> QED
  BY <1>1, <1>2

LEMMA LatestFields ==
    ASSUME TypeInv
    PROVE  /\ LastSuccess # Absent => LastSuccess.id \in Nat /\ LastSuccess.snap \in Snapshots
           /\ \A s : QualificationFor(s) # Absent => QualificationFor(s).id \in Nat
BY Latest DEF TypeInv, TypeOK, SyncRow, QualRow

-----------------------------------------------------------------------------
LEMMA TypeCaller ==
    ASSUME TypeInv, NEW c \in Callers, Step(c)
    PROVE  TypeInv'
<1> DEFINE Jobs == [Callers -> Job \cup {Absent}]
<1> USE DEF At
<1>1. ASSUME NEW s \in Snapshots, NEW force \in BOOLEAN, Run(c, s, force) PROVE TypeInv'
  <2>1. NextId("syncs") \in Nat
    BY DEF NextId, TypeInv, TypeOK
  <2>2. job' \in Jobs
    BY <1>1, <2>1, NewJobs DEF Run, Places
  <2> QED
    BY <1>1, <2>2, Bounds, TypeWrite DEF Run
<1>2. ASSUME NEW force \in BOOLEAN, Recalculate(c, force) PROVE TypeInv'
  <2>1. job' \in Jobs
    BY <1>2, LatestFields, NewJobs DEF Recalculate, Places
  <2> QED
    BY <1>2, <2>1, Bounds, TypeMove DEF Recalculate
<1>3. ASSUME ReadGames(c) PROVE TypeInv'
  <2>1. job' \in Jobs
    <3>1. /\ [job EXCEPT ![c].at = "waiting", ![c].from = fixtures] \in Jobs
          /\ [job EXCEPT ![c] = Absent] \in Jobs
      BY <1>3, NewJobs, Moves DEF ReadGames, TypeInv
    <3> HIDE DEF Jobs
    <3> QED
      BY <1>3, <3>1 DEF ReadGames, Stop
  <2> QED
    BY <1>3, <2>1, Bounds, TypeMove DEF ReadGames
<1>4. ASSUME LockAndQualify(c) PROVE TypeInv'
  <2>1. job' \in Jobs
    BY <1>4, Moves DEF LockAndQualify, Qualify, Go, Places, TypeInv
  <2> QED
    BY <1>4, <2>1, Bounds, TypeMove DEF LockAndQualify, Qualify
<1>5. ASSUME Prove(c) PROVE TypeInv'
  <2>1. job' \in Jobs
    BY <1>5, NewJobs DEF Prove
  <2> QED
    BY <1>5, <2>1, Bounds, TypeMove DEF Prove
<1>6. ASSUME ProveFails(c) PROVE TypeInv'
  <2>1. job' \in Jobs /\ job[c] # Absent
    BY <1>6, Moves DEF ProveFails, Stop, TypeInv
  <2> QED
    <3>1. troubles' \in Nat /\ UNCHANGED <<clock, fixtures, syncs, scens, writes>>
      BY <1>6, Bounds DEF ProveFails
    <3>2. \/ quals' = quals \cup {QualRun(c, FALSE, FALSE)} /\ Number("quals")
          \/ UNCHANGED <<quals, seq>>
      BY <1>6 DEF ProveFails
    <3>3. CASE UNCHANGED <<quals, seq>>
      <4>1. clock' \in Nat /\ UNCHANGED <<fixtures, rows, writes>>
        BY <3>1, <3>3, Bounds DEF rows
      <4> QED
        BY <2>1, <3>1, <4>1, TypeMove
    <3>4. CASE quals' = quals \cup {QualRun(c, FALSE, FALSE)} /\ Number("quals")
      BY <2>1, <3>1, <3>4, TypeQual
    <3> QED
      BY <3>2, <3>3, <3>4
<1>7. ASSUME NEW full \in BOOLEAN, Publish(c, full) PROVE TypeInv'
  <2>1. job' \in Jobs /\ job[c] # Absent
    <3>1. job[c] # Absent /\ (Go(c, "scenario") \/ Stop(c))
      BY <1>7 DEF Publish, At
    <3>2. /\ [job EXCEPT ![c].at = "scenario"] \in Jobs
          /\ [job EXCEPT ![c] = Absent] \in Jobs
      BY <3>1, Moves DEF Places, TypeInv
    <3> HIDE DEF Jobs
    <3> QED
      BY <3>1, <3>2 DEF Go, Stop
  <2> QED
    <3>1. troubles' \in Nat /\ UNCHANGED <<clock, fixtures, syncs, scens, writes>>
      BY <1>7, Bounds DEF Publish
    <3>2. \/ quals' = quals \cup {QualRun(c, TRUE, full)} /\ Number("quals")
          \/ UNCHANGED <<quals, seq>>
      BY <1>7 DEF Publish
    <3>3. CASE UNCHANGED <<quals, seq>>
      <4>1. clock' \in Nat /\ UNCHANGED <<fixtures, rows, writes>>
        BY <3>1, <3>3, Bounds DEF rows
      <4> QED
        BY <2>1, <3>1, <4>1, TypeMove
    <3>4. CASE quals' = quals \cup {QualRun(c, TRUE, full)} /\ Number("quals")
      BY <2>1, <3>1, <3>4, TypeQual
    <3> QED
      BY <3>2, <3>3, <3>4
<1>8. ASSUME LookupScenario(c) PROVE TypeInv'
  <2>1. job' \in Jobs
    <3>1. job[c] # Absent
      BY <1>8 DEF LookupScenario
    <3>2. NextKind(c) => job' \in Jobs
      BY <3>1, NextKindType DEF TypeInv
    <3>3. Go(c, "baseline") => job' \in Jobs
      <4>1. [job EXCEPT ![c].at = "baseline"] \in Jobs
        BY <3>1, Moves DEF Places, TypeInv
      <4> HIDE DEF Jobs
      <4> QED
        BY <4>1 DEF Go
    <3> QED
      BY <1>8, <3>1, <3>2, <3>3 DEF LookupScenario
  <2> QED
    BY <1>8, <2>1, Bounds, TypeMove DEF LookupScenario
<1>9. ASSUME ReadBaseline(c) PROVE TypeInv'
  <2>1. job' \in Jobs
    <3>1. [job EXCEPT ![c] = Absent] \in Jobs
      BY <1>9, Moves DEF ReadBaseline, TypeInv
    <3>2. ASSUME QualificationFor(job[c].snap) # Absent
          PROVE  [job EXCEPT ![c].at = "search",
                             ![c].qual = QualificationFor(job[c].snap).id] \in Jobs
      BY <1>9, <3>2, NewJobs, LatestFields DEF ReadBaseline
    <3> HIDE DEF Jobs
    <3> QED
      BY <1>9, <3>1, <3>2 DEF ReadBaseline, Stop
  <2> QED
    BY <1>9, <2>1, Bounds, TypeMove DEF ReadBaseline
<1>10. ASSUME SearchFails(c) PROVE TypeInv'
  <2>1. job' \in Jobs /\ job[c] # Absent
    BY <1>10, Moves DEF SearchFails, Stop, TypeInv
  <2> QED
    <3>1. troubles' \in Nat /\ UNCHANGED <<clock, fixtures, syncs, quals, writes>>
      BY <1>10, Bounds DEF SearchFails
    <3>2. \/ scens' = scens \cup {ScenRun(c, FALSE, FALSE)} /\ Number("scens")
          \/ UNCHANGED <<scens, seq>>
      BY <1>10 DEF SearchFails
    <3>3. CASE UNCHANGED <<scens, seq>>
      <4>1. clock' \in Nat /\ UNCHANGED <<fixtures, rows, writes>>
        BY <3>1, <3>3, Bounds DEF rows
      <4> QED
        BY <2>1, <3>1, <4>1, TypeMove
    <3>4. CASE scens' = scens \cup {ScenRun(c, FALSE, FALSE)} /\ Number("scens")
      BY <2>1, <3>1, <3>4, TypeScen
    <3> QED
      BY <3>2, <3>3, <3>4
<1>11. ASSUME NEW full \in BOOLEAN, PublishScenario(c, full) PROVE TypeInv'
  <2>1. job' \in Jobs /\ job[c] # Absent
    <3>1. job[c] # Absent
      BY <1>11 DEF PublishScenario
    <3>2. (NextKind(c) => job' \in Jobs) /\ (Stop(c) => job' \in Jobs)
      BY <3>1, NextKindType, Moves DEF Stop, TypeInv
    <3> QED
      BY <1>11, <3>1, <3>2 DEF PublishScenario
  <2> QED
    <3>1. troubles' \in Nat /\ UNCHANGED <<clock, fixtures, syncs, quals, writes>>
      BY <1>11, Bounds DEF PublishScenario
    <3>2. \/ scens' = scens \cup {ScenRun(c, TRUE, full)} /\ Number("scens")
          \/ UNCHANGED <<scens, seq>>
      BY <1>11 DEF PublishScenario
    <3>3. CASE UNCHANGED <<scens, seq>>
      <4>1. clock' \in Nat /\ UNCHANGED <<fixtures, rows, writes>>
        BY <3>1, <3>3, Bounds DEF rows
      <4> QED
        BY <2>1, <3>1, <4>1, TypeMove
    <3>4. CASE scens' = scens \cup {ScenRun(c, TRUE, full)} /\ Number("scens")
      BY <2>1, <3>1, <3>4, TypeScen
    <3> QED
      BY <3>2, <3>3, <3>4
<1>12. ASSUME Abandon(c) PROVE TypeInv'
  <2>1. job' \in Jobs
    BY <1>12, Moves DEF Abandon, Stop, TypeInv
  <2> QED
    BY <1>12, <2>1, Bounds, TypeMove DEF Abandon
<1> QED
  BY <1>1, <1>2, <1>3, <1>4, <1>5, <1>6, <1>7, <1>8, <1>9, <1>10, <1>11, <1>12
  DEF Step, Advance

LEMMA TypeInit == Init => TypeInv
<1> SUFFICES ASSUME Init PROVE TypeInv
  OBVIOUS
<1>1. TypeOK
  BY DEF Init, TypeOK, Keyed
<1>2. \A last : Table({}, last)
  BY FS_EmptySet DEF Table, Keyed
<1> QED
  BY <1>1, <1>2 DEF Init, TypeInv

LEMMA TypeStep == TypeInv /\ [Next]_vars => TypeInv'
<1> SUFFICES ASSUME TypeInv, [Next]_vars PROVE TypeInv'
  OBVIOUS
<1>1. ASSUME NEW c \in Callers, Step(c) PROVE TypeInv'
  BY <1>1, TypeCaller
<1>2. ASSUME NEW s \in Snapshots, SourceJob(s) PROVE TypeInv'
  <2>1. job' \in [Callers -> Job \cup {Absent}] /\ troubles' \in Nat
    BY <1>2 DEF SourceJob, TypeInv, TypeOK
  <2> QED
    BY <1>2, <2>1, TypeWrite DEF SourceJob
<1>3. ASSUME NEW before, Prune(before) PROVE TypeInv'
  BY <1>3, TypePrune
<1>4. ASSUME Tick PROVE TypeInv'
  <2>1. job' \in [Callers -> Job \cup {Absent}] /\ troubles' \in Nat /\ clock' \in Nat
    BY <1>4 DEF Tick, TypeInv, TypeOK
  <2> QED
    BY <1>4, <2>1, TypeMove DEF Tick
<1>5. CASE UNCHANGED vars
  BY <1>5 DEF vars, rows, TypeInv, TypeOK, Table, Keyed
<1> QED
  BY <1>1, <1>2, <1>3, <1>4, <1>5 DEF Next

(* TypeOK: rows and refreshes are well formed and ids are keys, whatever   *)
(* is pruned and inserted and however many processes insert: the next id   *)
(* exceeds every id of the table, which never holds ids without bound.     *)
THEOREM BatchesTypeCorrect == Spec => []TypeOK
<1>1. TypeInv => TypeOK
  BY DEF TypeInv
<1> QED
  BY <1>1, TypeInit, TypeStep, PTL DEF Spec

-----------------------------------------------------------------------------
(* What a caller's step does to the tables.                                *)
LEMMA RowSteps ==
    ASSUME TypeInv, NEW c \in Callers, Step(c)
    PROVE  /\ syncs \subseteq syncs'
           /\ \/ UNCHANGED <<quals, seq["quals"]>>
              \/ /\ job[c] # Absent /\ job[c].at \in {"prove", "publish"}
                 /\ Exists(syncs, job[c].sync) /\ Number("quals")
                 /\ \E complete, full \in BOOLEAN :
                       quals' = quals \cup {QualRun(c, complete, full)}
           /\ \/ UNCHANGED scens
              \/ /\ At(c, "search") /\ Exists(syncs, job[c].sync) /\ Exists(quals, job[c].qual)
                 /\ \E complete, full \in BOOLEAN :
                       scens' = scens \cup {ScenRun(c, complete, full)}
<1> DEFINE Quals == \/ UNCHANGED <<quals, seq["quals"]>>
                    \/ /\ job[c] # Absent /\ job[c].at \in {"prove", "publish"}
                       /\ Exists(syncs, job[c].sync) /\ Number("quals")
                       /\ \E complete, full \in BOOLEAN :
                             quals' = quals \cup {QualRun(c, complete, full)}
           Scens == \/ UNCHANGED scens
                    \/ /\ At(c, "search") /\ Exists(syncs, job[c].sync)
                       /\ Exists(quals, job[c].qual)
                       /\ \E complete, full \in BOOLEAN :
                             scens' = scens \cup {ScenRun(c, complete, full)}
           Goal == syncs \subseteq syncs' /\ Quals /\ Scens
<1>0. DOMAIN seq = {"syncs", "quals", "scens"}
  BY DEF TypeInv, TypeOK
<1>1. ASSUME NEW s \in Snapshots, NEW force \in BOOLEAN, Run(c, s, force) PROVE Goal
  BY <1>0, <1>1 DEF Run, SourceWrite, Number
<1>2. ASSUME NEW force \in BOOLEAN, Recalculate(c, force) PROVE Goal
  BY <1>2 DEF Recalculate, rows
<1>3. CASE UNCHANGED rows
  BY <1>3 DEF rows
<1>4. ASSUME ProveFails(c) PROVE Goal
  BY <1>4 DEF ProveFails, At
<1>5. ASSUME NEW full \in BOOLEAN, Publish(c, full) PROVE Goal
  BY <1>5 DEF Publish, At
<1>6. ASSUME SearchFails(c) PROVE Goal
  BY <1>0, <1>6 DEF SearchFails, Number
<1>7. ASSUME NEW full \in BOOLEAN, PublishScenario(c, full) PROVE Goal
  BY <1>0, <1>7 DEF PublishScenario, Number, Exists
<1>8. ASSUME Advance(c) PROVE Goal
  BY <1>3, <1>5, <1>7, <1>8
  DEF Advance, ReadGames, LockAndQualify, Qualify, Prove, LookupScenario, ReadBaseline
<1>9. ASSUME Abandon(c) PROVE Goal
  BY <1>3, <1>9 DEF Abandon
<1>10. Goal
  <2> HIDE DEF Goal
  <2> QED
    BY <1>1, <1>2, <1>4, <1>5, <1>6, <1>7, <1>8, <1>9 DEF Step
<1> QED
  BY <1>10

(* What a caller's step does to the refreshes.                             *)
Begins(c) == job'[c].at # "search" /\ (job'[c].at = "read" \/ job'[c].from = job'[c].snap)

Finds(c) ==
    /\ QualificationFor(job[c].snap) # Absent
    /\ job'[c].qual = QualificationFor(job[c].snap).id

GoesOn(c) ==
    /\ job[c] # Absent /\ job[c].at # "read"
    /\ job'[c].snap = job[c].snap /\ job'[c].from = job[c].from
    /\ job'[c].at # "read"
    /\ job'[c].at = "search" => Finds(c)

LEMMA JobSteps ==
    ASSUME TypeInv, NEW c \in Callers, Step(c)
    PROVE  /\ \A d \in Callers \ {c} : job'[d] = job[d]
           /\ job'[c] = Absent \/ Begins(c) \/ GoesOn(c)
<1> DEFINE Others == \A d \in Callers \ {c} : job'[d] = job[d]
           Own == job'[c] = Absent \/ Begins(c) \/ GoesOn(c)
           Goal == Others /\ Own
<1> USE DEF At
<1>1. job \in [Callers -> Job \cup {Absent}] /\ (job[c] # Absent => job[c] \in Job)
  BY DEF TypeInv, TypeOK
<1>2. Stop(c) => Goal
  BY <1>1 DEF Stop
<1>3. ASSUME NEW place \in {"waiting", "prove", "publish", "scenario", "baseline"},
             Go(c, place), job[c] # Absent, job[c].at # "read"
      PROVE  Goal
  BY <1>1, <1>3 DEF Go, GoesOn, Job
<1>4. ASSUME NextKind(c), job[c] # Absent, job[c].at # "read" PROVE Goal
  <2>1. CASE Stop(c)
    BY <2>1, <1>2
  <2>2. CASE job' = [job EXCEPT ![c].at = "scenario", ![c].kind = "season"]
    BY <1>1, <1>4, <2>2 DEF GoesOn, Job
  <2> QED
    BY <1>4, <2>1, <2>2 DEF NextKind
<1>5. ASSUME NEW s \in Snapshots, NEW force \in BOOLEAN, Run(c, s, force) PROVE Goal
  BY <1>1, <1>5 DEF Run, Refresh, Begins
<1>6. ASSUME NEW force \in BOOLEAN, Recalculate(c, force) PROVE Goal
  BY <1>1, <1>6 DEF Recalculate, Refresh, Begins
<1>7. ASSUME ReadGames(c) PROVE Goal
  <2>1. CASE fixtures = job[c].snap
    BY <1>1, <1>7, <2>1 DEF ReadGames, Begins, Job
  <2>2. CASE fixtures # job[c].snap
    BY <1>2, <1>7, <2>2 DEF ReadGames
  <2> QED
    BY <2>1, <2>2
<1>8. ASSUME LockAndQualify(c) PROVE Goal
  <2>1. job[c] # Absent /\ job[c].at # "read" /\ (Go(c, "scenario") \/ Go(c, "prove"))
    BY <1>8 DEF LockAndQualify, Qualify
  <2> QED
    BY <2>1, <1>3
<1>9. ASSUME Prove(c) PROVE Goal
  BY <1>1, <1>9 DEF Prove, GoesOn, Job
<1>10. ASSUME ProveFails(c) PROVE Goal
  BY <1>2, <1>10 DEF ProveFails
<1>11. ASSUME NEW full \in BOOLEAN, Publish(c, full) PROVE Goal
  <2>1. job[c] # Absent /\ job[c].at # "read" /\ (Go(c, "scenario") \/ Stop(c))
    BY <1>11 DEF Publish
  <2> QED
    BY <2>1, <1>2, <1>3
<1>12. ASSUME LookupScenario(c) PROVE Goal
  <2>1. job[c] # Absent /\ job[c].at # "read" /\ (NextKind(c) \/ Go(c, "baseline"))
    BY <1>12 DEF LookupScenario
  <2> QED
    BY <2>1, <1>3, <1>4
<1>13. ASSUME ReadBaseline(c) PROVE Goal
  <2>1. CASE QualificationFor(job[c].snap) = Absent
    BY <1>2, <1>13, <2>1 DEF ReadBaseline
  <2>2. CASE QualificationFor(job[c].snap) # Absent
    <3> DEFINE id == QualificationFor(job[c].snap).id
    <3>1. job[c] # Absent /\ job[c].at = "baseline" /\ job' = [job EXCEPT ![c].at = "search", ![c].qual = id]
      BY <1>13, <2>2 DEF ReadBaseline
    <3>2. job'[c].qual = id => Finds(c)
      BY <2>2 DEF Finds
    <3> HIDE DEF id
    <3> QED
      BY <1>1, <3>1, <3>2 DEF GoesOn, Job
  <2> QED
    BY <2>1, <2>2
<1>14. ASSUME SearchFails(c) PROVE Goal
  BY <1>2, <1>14 DEF SearchFails
<1>15. ASSUME NEW full \in BOOLEAN, PublishScenario(c, full) PROVE Goal
  <2>1. job[c] # Absent /\ job[c].at # "read" /\ (NextKind(c) \/ Stop(c))
    BY <1>15 DEF PublishScenario
  <2> QED
    BY <2>1, <1>2, <1>4
<1>16. ASSUME Abandon(c) PROVE Goal
  BY <1>2, <1>16 DEF Abandon
<1>17. Goal
  <2> HIDE DEF Goal
  <2> QED
    BY <1>5, <1>6, <1>7, <1>8, <1>9, <1>10, <1>11, <1>12, <1>13, <1>14, <1>15, <1>16
    DEF Step, Advance
<1> QED
  BY <1>17

(* The steps of no caller leave refreshes alone and insert no derived row. *)
LEMMA OtherSteps ==
    ASSUME TypeInv, [Next]_vars, ~(\E c \in Callers : Step(c))
    PROVE  /\ UNCHANGED <<job, seq["quals"]>>
           /\ quals' \subseteq quals /\ scens' \subseteq scens
           /\ \/ syncs \subseteq syncs' /\ UNCHANGED <<quals, scens>>
              \/ \E before \in 2 .. clock + 1 : Prune(before)
<1>1. DOMAIN seq = {"syncs", "quals", "scens"}
  BY DEF TypeInv, TypeOK
<1>2. CASE \E s \in Snapshots : SourceJob(s)
  BY <1>1, <1>2 DEF SourceJob, SourceWrite, Number
<1>3. CASE \E before \in 2 .. clock + 1 : Prune(before)
  BY <1>3 DEF Prune
<1>4. CASE Tick \/ UNCHANGED vars
  BY <1>4 DEF Tick, vars, rows
<1> QED
  BY <1>2, <1>3, <1>4 DEF Next

-----------------------------------------------------------------------------
LEMMA InputsStep == TypeInv /\ Inputs /\ [Next]_vars => Inputs'
<1> SUFFICES ASSUME TypeInv, Inputs, [Next]_vars PROVE Inputs'
  OBVIOUS
<1>1. ASSUME NEW c \in Callers, Step(c) PROVE Inputs'
  <2>1. \A complete, full \in BOOLEAN :
           /\ QualRun(c, complete, full).from = job[c].from
           /\ QualRun(c, complete, full).snap = job[c].snap
           /\ ScenRun(c, complete, full).from = job[c].from
           /\ ScenRun(c, complete, full).snap = job[c].snap
    BY DEF QualRun, ScenRun
  <2>2. \A q \in quals' : q.from = q.snap
    BY <1>1, <2>1, RowSteps DEF Inputs, BatchFromItsSnapshot
  <2>3. \A x \in scens' : x.from = x.snap
    BY <1>1, <2>1, RowSteps DEF At, Inputs, BatchFromItsSnapshot
  <2>4. ASSUME NEW d \in Callers, job'[d] # Absent, job'[d].at # "read"
        PROVE  job'[d].from = job'[d].snap
    BY <1>1, <2>4, JobSteps DEF Inputs, Begins, GoesOn
  <2> QED
    BY <2>2, <2>3, <2>4 DEF Inputs, BatchFromItsSnapshot
<1>2. CASE ~(\E c \in Callers : Step(c))
  BY <1>2, OtherSteps DEF Inputs, BatchFromItsSnapshot
<1> QED
  BY <1>1, <1>2

LEMMA CitedStep == TypeInv /\ Cited /\ [Next]_vars => Cited'
<1> SUFFICES ASSUME TypeInv, Cited, [Next]_vars PROVE Cited'
  OBVIOUS
<1>1. ASSUME NEW c \in Callers, Step(c) PROVE Cited'
  <2> DEFINE Later == /\ seq["quals"] \in Nat /\ seq'["quals"] \in Nat
                      /\ seq["quals"] <= seq'["quals"]
                      /\ \A q \in quals' \ quals : q.id = 1 + seq["quals"]
  <2>1. Later
    <3>1. seq["quals"] \in Nat
      BY DEF TypeInv, TypeOK
    <3>2. CASE UNCHANGED <<quals, seq["quals"]>>
      BY <3>1, <3>2
    <3>3. ASSUME Number("quals"), NEW complete \in BOOLEAN, NEW full \in BOOLEAN,
                 quals' = quals \cup {QualRun(c, complete, full)}
          PROVE  Later
      <4>1. "quals" \in DOMAIN seq
        BY DEF TypeInv, TypeOK
      <4>2. seq'["quals"] = 1 + seq["quals"]
        BY <3>3, <4>1, Numbers DEF TypeInv
      <4>3. QualRun(c, complete, full).id = 1 + seq["quals"]
        BY DEF QualRun, NextId
      <4> QED
        BY <3>1, <3>3, <4>2, <4>3
    <3> QED
      BY <1>1, <3>2, <3>3, RowSteps
  <2>2. ASSUME NEW d \in Callers, d # c, At(d, "search")'
        PROVE  /\ job'[d].qual <= seq'["quals"]
               /\ \A q \in quals' : q.id = job'[d].qual => q.complete /\ q.snap = job'[d].snap
    <3>1. job'[d] = job[d] /\ At(d, "search")
      BY <1>1, <2>2, JobSteps DEF At
    <3>2. job[d].qual \in Nat
      BY <3>1, JobFields DEF At, TypeInv
    <3> QED
      BY <2>1, <3>1, <3>2 DEF Cited
  <2>3. ASSUME At(c, "search")'
        PROVE  /\ job'[c].qual <= seq'["quals"]
               /\ \A q \in quals' : q.id = job'[c].qual => q.complete /\ q.snap = job'[c].snap
    <3> DEFINE found == QualificationFor(job[c].snap)
    <3>1. found # Absent /\ job'[c].qual = found.id /\ job'[c].snap = job[c].snap
      BY <1>1, <2>3, JobSteps DEF At, Begins, GoesOn, Finds
    <3>2. found \in {q \in quals : q.snap = job[c].snap /\ q.complete}
      BY <3>1, Latest
    <3> HIDE DEF found
    <3>3. found.id \in Nat /\ found.id <= seq["quals"]
      BY <3>2, Ids DEF TypeInv, Table
    <3>4. \A q \in quals : q.id = found.id => q = found
      BY <3>2 DEF TypeInv, TypeOK, Keyed
    <3> QED
      BY <2>1, <3>1, <3>2, <3>3, <3>4
  <2> QED
    BY <2>2, <2>3 DEF Cited, At
<1>2. CASE ~(\E c \in Callers : Step(c))
  BY <1>2, OtherSteps DEF Cited, At
<1> QED
  BY <1>1, <1>2

LEMMA LineageStep == TypeInv /\ Cited /\ LineageIntact /\ [Next]_vars => LineageIntact'
<1> SUFFICES ASSUME TypeInv, Cited, LineageIntact, [Next]_vars PROVE LineageIntact'
  OBVIOUS
<1>1. ASSUME NEW c \in Callers, Step(c) PROVE LineageIntact'
  <2>1. \A complete, full \in BOOLEAN :
           /\ QualRun(c, complete, full).sync = job[c].sync
           /\ ScenRun(c, complete, full).sync = job[c].sync
           /\ ScenRun(c, complete, full).snap = job[c].snap
           /\ ScenRun(c, complete, full).qual = job[c].qual
    BY DEF QualRun, ScenRun
  <2>2. syncs \subseteq syncs' /\ quals \subseteq quals'
    BY <1>1, RowSteps
  <2>3. ASSUME NEW q \in quals' PROVE Exists(syncs', q.sync)
    BY <1>1, <2>1, <2>2, RowSteps DEF LineageIntact, Exists
  <2>4. ASSUME NEW x \in scens'
        PROVE  /\ Exists(syncs', x.sync)
               /\ \E q \in quals' : q.id = x.qual /\ q.complete /\ q.snap = x.snap
    <3>1. CASE x \in scens
      BY <2>2, <3>1 DEF LineageIntact, Exists
    <3>2. CASE x \notin scens
      <4>1. /\ At(c, "search") /\ Exists(syncs, job[c].sync) /\ Exists(quals, job[c].qual)
            /\ x.sync = job[c].sync /\ x.snap = job[c].snap /\ x.qual = job[c].qual
        BY <1>1, <2>1, <3>2, RowSteps
      <4>2. PICK q \in quals : q.id = job[c].qual
        BY <4>1 DEF Exists
      <4>3. q.complete /\ q.snap = job[c].snap
        BY <4>1, <4>2 DEF Cited
      <4> QED
        BY <2>2, <4>1, <4>2, <4>3 DEF Exists
    <3> QED
      BY <3>1, <3>2
  <2> QED
    BY <2>3, <2>4 DEF LineageIntact, Exists
<1>2. ASSUME NEW before, Prune(before) PROVE LineageIntact'
  <2>1. \A x \in scens' : \A q \in quals : q.id = x.qual => q \in quals'
    BY <1>2 DEF Prune
  <2>2. \A d \in quals' \cup scens' : \A r \in syncs : r.id = d.sync => r \in syncs'
    BY <1>2 DEF Prune
  <2>3. quals' \subseteq quals /\ scens' \subseteq scens
    BY <1>2 DEF Prune
  <2> QED
    BY <2>1, <2>2, <2>3 DEF LineageIntact, Exists
<1>3. ASSUME syncs \subseteq syncs', UNCHANGED <<quals, scens>> PROVE LineageIntact'
  BY <1>3 DEF LineageIntact, Exists
<1> QED
  BY <1>1, <1>2, <1>3, OtherSteps

(* Every batch was calculated from the fixtures its identity names, however *)
(* source operations and the reads of refreshes interleave.                *)
THEOREM InputsCorrect == Spec => []BatchFromItsSnapshot
<1>1. Init => Inputs
  BY DEF Init, Inputs, BatchFromItsSnapshot
<1>2. Inputs => BatchFromItsSnapshot
  BY DEF Inputs
<1> QED
  BY <1>1, <1>2, TypeInit, TypeStep, InputsStep, PTL DEF Spec

(* Lineage is never cut: not by pruning, and not by a batch inserted while *)
(* another process pruned or refreshed.                                    *)
THEOREM LineageCorrect == Spec => []LineageIntact
<1>1. Init => Cited /\ LineageIntact
  BY DEF Init, Cited, At, LineageIntact
<1> QED
  BY <1>1, TypeInit, TypeStep, CitedStep, LineageStep, PTL DEF Spec

-----------------------------------------------------------------------------
(* A latest row that stays remains the latest.                             *)
LEMMA LatestKept ==
    ASSUME NEW set, NEW left, left \subseteq set, LatestOf(set) \in left,
           \A r \in set : r.id \in Nat /\ r.at \in Nat,
           \A o \in set \ {LatestOf(set)} : Newer(LatestOf(set), o)
    PROVE  LatestOf(left) = LatestOf(set)
<1> DEFINE t == LatestOf(set)
<1>1. t \in left /\ \A o \in left \ {t} : Newer(t, o)
  OBVIOUS
<1>2. \A o \in left : o.id \in Nat /\ o.at \in Nat
  OBVIOUS
<1> HIDE DEF t
<1>3. LatestOf(left) = t
  BY <1>1, <1>2, LatestUnique
<1> QED
  BY <1>3 DEF t

LEMMA PruneSyncs ==
    ASSUME TypeInv, NEW before, Prune(before)
    PROVE  LastSuccess' = LastSuccess
<1>1. syncs' \subseteq syncs
  BY DEF Prune
<1>2. CASE syncs = {}
  BY <1>1, <1>2 DEF LastSuccess, LatestOf
<1>3. CASE syncs # {}
  <2>1. /\ LatestOf(syncs) \in syncs
        /\ \A o \in syncs \ {LatestOf(syncs)} : Newer(LatestOf(syncs), o)
    BY <1>3, Ids, LatestIn DEF TypeInv
  <2>2. LatestOf(syncs) \in syncs'
    BY <2>1 DEF Prune, LastSuccess
  <2>3. LatestOf(syncs') = LatestOf(syncs)
    BY <1>1, <2>1, <2>2, Ids, LatestKept DEF TypeInv
  <2> QED
    BY <2>3 DEF LastSuccess
<1> QED
  BY <1>2, <1>3

LEMMA PruneQuals ==
    ASSUME TypeInv, NEW before, Prune(before), NEW s
    PROVE  QualificationFor(s)' = QualificationFor(s)
<1> DEFINE set  == {q \in quals : q.snap = s /\ q.complete}
           left == {q \in quals' : q.snap = s /\ q.complete}
<1>1. left \subseteq set
  BY DEF Prune
<1>2. QualificationFor(s) = LatestOf(set) /\ QualificationFor(s)' = LatestOf(left)
  BY DEF QualificationFor, LatestOf
<1>3. CASE set = {}
  <2>1. left = set
    BY <1>1, <1>3
  <2> QED
    BY <1>2, <2>1
<1>4. CASE set # {}
  <2> DEFINE t == LatestOf(set)
  <2>1. t \in set /\ \A o \in set \ {t} : Newer(t, o)
    <3>1. set \in SUBSET quals
      OBVIOUS
    <3> HIDE DEF set
    <3> QED
      BY <1>4, <3>1, Ids, LatestIn DEF TypeInv
  <2>2. \A r \in set : r.id \in Nat /\ r.at \in Nat
    BY Ids DEF TypeInv
  <2> HIDE DEF t
  <2>3. t \notin Obsolete(quals, before, QualificationKey)
    <3>1. ASSUME NEW n \in quals, n.snap = t.snap, n.complete, Newer(n, t) PROVE FALSE
      <4>1. n \in set
        BY <2>1, <3>1
      <4>2. n # t
        BY <2>2, <3>1, <4>1 DEF Newer
      <4>3. Newer(t, n)
        BY <2>1, <4>1, <4>2
      <4> QED
        BY <2>1, <2>2, <3>1, <4>1, <4>3 DEF Newer
    <3> QED
      BY <2>1, <3>1 DEF Obsolete, QualificationKey
  <2>4. t \in left
    BY <2>1, <2>3 DEF Prune
  <2> HIDE DEF set, left
  <2>5. LatestOf(left) = t
    BY <1>1, <2>1, <2>2, <2>4, LatestKept DEF t
  <2> QED
    BY <1>2, <2>5 DEF t
<1> QED
  BY <1>3, <1>4

(* Pruning, at any time and for any cutoff, changes neither the last       *)
(* success nor the qualification readers of any snapshot are given.        *)
THEOREM AnswersKept == Spec => PruneKeepsAnswers
<1> DEFINE Kept == (\E before \in 2 .. clock + 1 : Prune(before)) =>
                      /\ LastSuccess' = LastSuccess
                      /\ \A s \in Snapshots : QualificationFor(s)' = QualificationFor(s)
<1>1. TypeInv /\ [Next]_vars => [Kept]_vars
  BY PruneSyncs, PruneQuals
<1>2. Spec => [][Kept]_vars
  <2> HIDE DEF Kept
  <2> QED
    BY <1>1, TypeInit, TypeStep, PTL DEF Spec
<1> QED
  BY <1>2 DEF PruneKeepsAnswers

-----------------------------------------------------------------------------
(* What readers of a snapshot choose from, and how a refresh that holds    *)
(* the calculation lock goes on.                                           *)
QualIn(set, s) == {q \in set : q.snap = s /\ q.complete}

Free(c) == \A d \in Callers : Host[d] = Host[c] => ~Inside(d)

Same(c) ==
    /\ job[c] # Absent /\ job'[c] # Absent
    /\ job'[c].snap = job[c].snap /\ job'[c].force = job[c].force

Enters(c) ==
    /\ Same(c) /\ At(c, "waiting") /\ Free(c) /\ UNCHANGED <<quals, scens>>
    /\ \/ job'[c].at = "scenario" /\ QualificationFor(job[c].snap) # Absent
       \/ /\ job'[c].at = "prove"
          /\ ~job[c].force => ~Full(QualificationFor(job[c].snap))

Proves(c) ==
    /\ Same(c) /\ At(c, "prove") /\ UNCHANGED <<quals, scens>>
    /\ job'[c].at = "publish" /\ job'[c].finish = clock

Publishes(c) ==
    /\ Same(c) /\ At(c, "publish") /\ job'[c].at = "scenario" /\ UNCHANGED scens
    /\ \E full \in BOOLEAN : quals' = quals \cup {QualRun(c, TRUE, full)}

Passes == {"scenario", "baseline", "search"}

Explains(c) ==
    /\ Same(c) /\ job[c].at \in Passes /\ UNCHANGED quals
    /\ job'[c].at \in Passes
    /\ job'[c].at = "search" => Finds(c)

Leaves(c) ==
    /\ job'[c] = Absent \/ job'[c].at \in {"read", "waiting"}
    /\ \A s : QualIn(quals', s) = QualIn(quals, s)

LEMMA QualificationIs ==
    /\ \A s : QualificationFor(s) = LatestOf(QualIn(quals, s))
    /\ \A s : QualificationFor(s)' = LatestOf(QualIn(quals', s))
    /\ \A s : QualIn(quals', s) = QualIn(quals, s) => QualificationFor(s)' = QualificationFor(s)
<1>1. \A s : QualificationFor(s) = LatestOf(QualIn(quals, s))
  BY DEF QualificationFor, QualIn
<1>2. \A s : QualificationFor(s)' = LatestOf(QualIn(quals', s))
  BY DEF QualificationFor, QualIn, LatestOf
<1> QED
  BY <1>1, <1>2

LEMMA PassSteps ==
    ASSUME TypeInv, NEW c \in Callers, Step(c)
    PROVE  /\ Leaves(c) \/ Enters(c) \/ Proves(c) \/ Publishes(c) \/ Explains(c)
           /\ clock' = clock
<1> DEFINE Goal == /\ Leaves(c) \/ Enters(c) \/ Proves(c) \/ Publishes(c) \/ Explains(c)
                   /\ clock' = clock
<1> USE DEF At
<1>1. job \in [Callers -> Job \cup {Absent}] /\ (job[c] # Absent => job[c] \in Job)
  BY DEF TypeInv, TypeOK
<1>2. UNCHANGED quals => \A s : QualIn(quals', s) = QualIn(quals, s)
  BY DEF QualIn
<1>3. ASSUME Stop(c), UNCHANGED <<quals, clock>> PROVE Goal
  BY <1>1, <1>2, <1>3 DEF Stop, Leaves
<1>4. ASSUME NextKind(c), job[c] # Absent, job[c].at \in Passes, UNCHANGED <<quals, clock>>
      PROVE  Goal
  <2>1. CASE Stop(c)
    BY <2>1, <1>3, <1>4
  <2>2. CASE job' = [job EXCEPT ![c].at = "scenario", ![c].kind = "season"]
    <3>1. Same(c) /\ job'[c].at = "scenario"
      <4>1. job'[c] = [job[c] EXCEPT !.at = "scenario", !.kind = "season"] /\ job[c] \in Job
        BY <1>1, <1>4, <2>2
      <4>2. job'[c] \in Job /\ job'[c].at = "scenario"
            /\ job'[c].snap = job[c].snap /\ job'[c].force = job[c].force
        BY <4>1 DEF Job, Kinds
      <4> QED
        BY <1>4, <4>2, Facts DEF Same
    <3> QED
      BY <3>1, <1>4 DEF Explains, Passes
  <2> QED
    BY <1>4, <2>1, <2>2 DEF NextKind
<1>5. ASSUME NEW s \in Snapshots, NEW force \in BOOLEAN, Run(c, s, force) PROVE Goal
  BY <1>1, <1>2, <1>5 DEF Run, SourceWrite, Refresh, Leaves
<1>6. ASSUME NEW force \in BOOLEAN, Recalculate(c, force) PROVE Goal
  BY <1>1, <1>2, <1>6 DEF Recalculate, Refresh, Leaves, rows
<1>7. ASSUME ReadGames(c) PROVE Goal
  <2>1. UNCHANGED <<quals, clock>>
    BY <1>7 DEF ReadGames, rows
  <2>2. CASE fixtures = job[c].snap
    BY <1>1, <1>2, <1>7, <2>1, <2>2 DEF ReadGames, Leaves, Job
  <2>3. CASE fixtures # job[c].snap
    BY <1>3, <1>7, <2>1, <2>3 DEF ReadGames
  <2> QED
    BY <2>2, <2>3
<1>8. ASSUME LockAndQualify(c) PROVE Goal
  <2>1. /\ At(c, "waiting") /\ Free(c) /\ UNCHANGED <<quals, scens, clock>>
        /\ Go(c, IF Current(QualificationFor(job[c].snap), job[c].force)
                 THEN "scenario" ELSE "prove")
    BY <1>8 DEF LockAndQualify, Qualify, Free, rows
  <2>2. CASE Current(QualificationFor(job[c].snap), job[c].force)
    <3>1. job'[c].at = "scenario" /\ Same(c)
      BY <1>1, <2>1, <2>2, Facts DEF Go, Same, Job
    <3> QED
      BY <2>1, <2>2, <3>1 DEF Enters, Current, Full
  <2>3. CASE ~Current(QualificationFor(job[c].snap), job[c].force)
    <3>1. job'[c].at = "prove" /\ Same(c)
      BY <1>1, <2>1, <2>3, Facts DEF Go, Same, Job
    <3> QED
      BY <2>1, <2>3, <3>1 DEF Enters, Current
  <2> QED
    BY <2>2, <2>3
<1>9. ASSUME Prove(c) PROVE Goal
  <2>1. job'[c].at = "publish" /\ job'[c].finish = clock /\ Same(c)
    <3>1. /\ job'[c] = [job[c] EXCEPT !.at = "publish", !.finish = clock]
          /\ job[c] # Absent /\ job[c] \in Job /\ clock \in Nat
      BY <1>1, <1>9 DEF Prove, TypeInv, TypeOK
    <3>2. /\ job'[c] \in Job /\ job'[c].at = "publish" /\ job'[c].finish = clock
          /\ job'[c].snap = job[c].snap /\ job'[c].force = job[c].force
      BY <3>1 DEF Job
    <3> QED
      BY <3>1, <3>2, Facts DEF Same
  <2> QED
    BY <1>9, <2>1 DEF Prove, Proves, rows
<1>10. ASSUME ProveFails(c) PROVE Goal
  <2>1. \A s : QualIn(quals', s) = QualIn(quals, s)
    <3>1. ~QualRun(c, FALSE, FALSE).complete
      BY DEF QualRun
    <3> QED
      BY <1>10, <3>1 DEF ProveFails, QualIn
  <2> QED
    BY <1>1, <1>10, <2>1 DEF ProveFails, Stop, Leaves
<1>11. ASSUME NEW full \in BOOLEAN, Publish(c, full) PROVE Goal
  <2>1. CASE Exists(syncs, job[c].sync)
    <3>1. job'[c].at = "scenario" /\ Same(c)
      BY <1>1, <1>11, <2>1, Facts DEF Publish, Go, Same, Job
    <3> QED
      BY <1>11, <2>1, <3>1 DEF Publish, Publishes
  <2>2. CASE ~Exists(syncs, job[c].sync)
    BY <1>3, <1>11, <2>2 DEF Publish
  <2> QED
    BY <2>1, <2>2
<1>12. ASSUME LookupScenario(c) PROVE Goal
  <2>1. CASE NextKind(c)
    BY <1>4, <1>12, <2>1 DEF LookupScenario, Passes, rows
  <2>2. CASE Go(c, "baseline")
    <3>1. job'[c].at = "baseline" /\ Same(c)
      BY <1>1, <1>12, <2>2, Facts DEF LookupScenario, Go, Same, Job
    <3> QED
      BY <1>12, <3>1 DEF LookupScenario, Explains, Passes, rows
  <2> QED
    BY <1>12, <2>1, <2>2 DEF LookupScenario
<1>13. ASSUME ReadBaseline(c) PROVE Goal
  <2>1. CASE QualificationFor(job[c].snap) = Absent
    BY <1>3, <1>13, <2>1 DEF ReadBaseline, rows
  <2>2. CASE QualificationFor(job[c].snap) # Absent
    <3> DEFINE id == QualificationFor(job[c].snap).id
    <3>1. job[c] # Absent /\ job' = [job EXCEPT ![c].at = "search", ![c].qual = id]
          /\ job[c].at = "baseline" /\ UNCHANGED <<quals, clock>>
      BY <1>13, <2>2 DEF ReadBaseline, rows
    <3>2. job'[c].qual = id => Finds(c)
      BY <2>2 DEF Finds
    <3>0. id \in Nat
      BY <2>2, LatestFields
    <3> HIDE DEF id
    <3>3. job'[c].at = "search" /\ Same(c) /\ job'[c].qual = id
      BY <1>1, <3>0, <3>1, Facts DEF Same, Job
    <3> QED
      BY <3>1, <3>2, <3>3 DEF Explains, Passes
  <2> QED
    BY <2>1, <2>2
<1>14. ASSUME SearchFails(c) PROVE Goal
  BY <1>3, <1>14 DEF SearchFails
<1>15. ASSUME NEW full \in BOOLEAN, PublishScenario(c, full) PROVE Goal
  <2>1. job[c] # Absent /\ job[c].at \in Passes /\ UNCHANGED <<quals, clock>>
        /\ (NextKind(c) \/ Stop(c))
    BY <1>15 DEF PublishScenario, Passes
  <2> QED
    BY <1>3, <1>4, <2>1
<1>16. ASSUME Abandon(c) PROVE Goal
  BY <1>3, <1>16 DEF Abandon, rows
<1>17. Goal
  <2> HIDE DEF Goal
  <2> QED
    BY <1>5, <1>6, <1>7, <1>8, <1>9, <1>10, <1>11, <1>12, <1>13, <1>14, <1>15, <1>16
    DEF Step, Advance
<1> QED
  BY <1>17

(* One refresh a process is past the lock; rows and finish times are not   *)
(* of the future; who looks for scenarios has a qualification.             *)
OneCalculation ==
    \A c, d \in Callers : Host[c] = Host[d] /\ Inside(c) /\ Inside(d) => c = d

Timely ==
    /\ \A b \in quals \cup scens : b.at <= clock
    /\ \A c \in Callers : At(c, "publish") => job[c].finish <= clock

Based ==
    \A c \in Callers :
       job[c] # Absent /\ job[c].at \in Passes => QualificationFor(job[c].snap) # Absent

(* Within one process what a refresh found stays as it found it.           *)
Undisturbed(c) ==
    /\ At(c, "publish") => \A q \in QualIn(quals, job[c].snap) : q.at <= job[c].finish
    /\ (At(c, "prove") \/ At(c, "publish")) /\ ~job[c].force =>
          ~Full(QualificationFor(job[c].snap))
    /\ At(c, "search") => job[c].qual = QualificationFor(job[c].snap).id

Alone == OneProcess => \A c \in Callers : Undisturbed(c)

LEMMA OtherAnswers ==
    ASSUME TypeInv, [Next]_vars, ~(\E c \in Callers : Step(c))
    PROVE  /\ UNCHANGED job /\ clock' \in Nat /\ clock <= clock'
           /\ quals' \subseteq quals /\ scens' \subseteq scens
           /\ \A s : QualificationFor(s)' = QualificationFor(s)
<1>1. clock' \in Nat /\ clock <= clock'
  <2>1. clock \in Nat
    BY DEF TypeInv, TypeOK
  <2>2. clock' = clock \/ clock' = clock + 1
    BY DEF Next, SourceJob, SourceWrite, Prune, Tick, vars
  <2> QED
    BY <2>1, <2>2
<1>2. ASSUME NEW s PROVE QualificationFor(s)' = QualificationFor(s)
  <2>1. CASE UNCHANGED quals
    BY <2>1, QualificationIs DEF QualIn
  <2>2. ASSUME NEW before, Prune(before) PROVE QualificationFor(s)' = QualificationFor(s)
    BY <2>2, PruneQuals
  <2> QED
    BY <2>1, <2>2, OtherSteps
<1> QED
  BY <1>1, <1>2, OtherSteps

LEMMA OneCalculationStep == TypeInv /\ OneCalculation /\ [Next]_vars => OneCalculation'
<1> SUFFICES ASSUME TypeInv, OneCalculation, [Next]_vars PROVE OneCalculation'
  OBVIOUS
<1>1. ASSUME NEW c \in Callers, Step(c) PROVE OneCalculation'
  <2>1. \A d \in Callers \ {c} : Inside(d)' = Inside(d)
    BY <1>1, JobSteps DEF Inside
  <2>2. Inside(c)' => Inside(c) \/ Free(c)
    <3>1. CASE Leaves(c)
      BY <3>1 DEF Leaves, Inside
    <3>2. CASE Enters(c)
      BY <3>2 DEF Enters
    <3>3. CASE Proves(c) \/ Publishes(c) \/ Explains(c)
      BY <3>3 DEF Proves, Publishes, Explains, Passes, Same, Inside, At
    <3> QED
      BY <1>1, <3>1, <3>2, <3>3, PassSteps
  <2> QED
    BY <2>1, <2>2 DEF OneCalculation, Free
<1>2. CASE ~(\E c \in Callers : Step(c))
  BY <1>2, OtherSteps DEF OneCalculation, Inside
<1> QED
  BY <1>1, <1>2

LEMMA TimelyStep == TypeInv /\ Timely /\ [Next]_vars => Timely'
<1> SUFFICES ASSUME TypeInv, Timely, [Next]_vars PROVE Timely'
  OBVIOUS
<1>0. clock \in Nat /\ clock <= clock
  BY DEF TypeInv, TypeOK
<1>1. ASSUME NEW c \in Callers, Step(c) PROVE Timely'
  <2>1. clock' = clock
    BY <1>1, PassSteps
  <2>2. ASSUME NEW complete \in BOOLEAN, NEW full \in BOOLEAN, job[c] # Absent,
               complete => At(c, "publish")
        PROVE  QualRun(c, complete, full).at <= clock
    BY <1>0, <2>2 DEF QualRun, Timely
  <2>3. \A q \in quals' : q.at <= clock
    <3>1. CASE UNCHANGED quals
      BY <3>1 DEF Timely
    <3>2. ASSUME NEW complete \in BOOLEAN, NEW full \in BOOLEAN, job[c] # Absent,
                 quals' = quals \cup {QualRun(c, complete, full)}
          PROVE  \A q \in quals' : q.at <= clock
      <4>1. CASE complete => At(c, "publish")
        BY <2>2, <3>2, <4>1 DEF Timely
      <4>2. CASE complete /\ ~At(c, "publish")
        <5>1. ~Publishes(c)
          BY <4>2 DEF Publishes
        <5>2. \A s : QualIn(quals', s) = QualIn(quals, s)
          BY <1>1, <5>1, PassSteps DEF Leaves, Enters, Proves, Explains, QualIn
        <5>3. QualRun(c, complete, full) \in QualIn(quals', job[c].snap)
          BY <3>2, <4>2 DEF QualIn, QualRun
        <5>4. QualRun(c, complete, full) \in quals
          BY <5>2, <5>3 DEF QualIn
        <5> QED
          BY <3>2, <5>4 DEF Timely
      <4> QED
        BY <4>1, <4>2
    <3> QED
      BY <1>1, <3>1, <3>2, RowSteps
  <2>4. \A x \in scens' : x.at <= clock
    <3>1. \A complete, full \in BOOLEAN : ScenRun(c, complete, full).at = clock
      BY DEF ScenRun
    <3> QED
      BY <1>0, <1>1, <3>1, RowSteps DEF Timely
  <2>5. ASSUME NEW d \in Callers, At(d, "publish")' PROVE job'[d].finish <= clock
    <3>1. CASE d # c
      BY <1>1, <2>5, <3>1, JobSteps DEF Timely, At
    <3>2. CASE d = c
      <4>1. Proves(c)
        BY <1>1, <2>5, <3>2, PassSteps DEF Leaves, Enters, Publishes, Explains, Passes, At
      <4> QED
        BY <1>0, <3>2, <4>1 DEF Proves
    <3> QED
      BY <3>1, <3>2
  <2> QED
    BY <2>1, <2>3, <2>4, <2>5 DEF Timely, At
<1>2. CASE ~(\E c \in Callers : Step(c))
  <2>1. clock' \in Nat /\ clock <= clock' /\ UNCHANGED job
        /\ quals' \subseteq quals /\ scens' \subseteq scens
    BY <1>2, OtherAnswers
  <2>2. /\ \A b \in quals \cup scens : b.at \in Nat
        /\ \A c \in Callers : At(c, "publish") => job[c].finish \in Nat
    BY Ids, JobFields DEF TypeInv, At
  <2> QED
    BY <1>0, <2>1, <2>2 DEF Timely, At
<1> QED
  BY <1>1, <1>2

LEMMA BasedStep == TypeInv /\ TypeInv' /\ Based /\ [Next]_vars => Based'
<1> SUFFICES ASSUME TypeInv, TypeInv', Based, [Next]_vars PROVE Based'
  OBVIOUS
<1>1. ASSUME NEW c \in Callers, Step(c) PROVE Based'
  <2>1. ASSUME NEW s, QualificationFor(s) # Absent \/ QualIn(quals', s) # {}
        PROVE  QualificationFor(s)' # Absent
    <3>1. QualIn(quals, s) # {} => QualIn(quals', s) # {}
      BY <1>1, RowSteps DEF QualIn
    <3>2. QualIn(quals', s) # {}
      BY <2>1, <3>1, QualificationIs DEF LatestOf
    <3>3. QualIn(quals', s) \in SUBSET quals' /\ \A r \in quals' : r.id \in Nat /\ r.at \in Nat
      BY DEF QualIn, TypeInv, TypeOK, QualRow
    <3>4. LatestOf(QualIn(quals', s)) \in QualIn(quals', s)
      BY <3>2, <3>3, LatestIn DEF TypeInv
    <3>5. QualIn(quals', s) \subseteq QualRow
      BY <3>3 DEF TypeInv, TypeOK
    <3> QED
      BY <3>4, <3>5, Facts, QualificationIs
  <2>2. ASSUME NEW d \in Callers, d # c, job'[d] # Absent, job'[d].at \in Passes
        PROVE  (QualificationFor(job[d].snap) # Absent)'
    <3>1. job'[d] = job[d]
      BY <1>1, <2>2, JobSteps
    <3> QED
      BY <2>1, <2>2, <3>1 DEF Based
  <2>3. ASSUME job'[c] # Absent, job'[c].at \in Passes
        PROVE  (QualificationFor(job[c].snap) # Absent)'
    <3>1. CASE Enters(c) \/ Explains(c)
      BY <2>1, <2>3, <3>1 DEF Based, Enters, Explains, Same, Passes
    <3>2. CASE Publishes(c)
      <4>1. PICK full \in BOOLEAN : quals' = quals \cup {QualRun(c, TRUE, full)}
        BY <3>2 DEF Publishes
      <4>2. QualRun(c, TRUE, full) \in QualIn(quals', job[c].snap)
        BY <4>1 DEF QualIn, QualRun
      <4> QED
        BY <2>1, <3>2, <4>2 DEF Publishes, Same
    <3> QED
      BY <1>1, <2>3, <3>1, <3>2, PassSteps DEF Leaves, Proves, Passes
  <2> QED
    BY <2>2, <2>3 DEF Based
<1>2. CASE ~(\E c \in Callers : Step(c))
  BY <1>2, OtherAnswers DEF Based
<1> QED
  BY <1>1, <1>2

(* Past the lock of the one process, the steps of others change no answer. *)
LEMMA NotDisturbed ==
    ASSUME TypeInv, OneCalculation, OneProcess, NEW c \in Callers, Step(c),
           NEW d \in Callers, d # c, Inside(d)
    PROVE  Leaves(c) /\ job'[d] = job[d]
<1>1. ~Inside(c) /\ ~Free(c)
  BY DEF OneCalculation, OneProcess, Free
<1>2. ~Enters(c) /\ ~Proves(c) /\ ~Publishes(c) /\ ~Explains(c)
  BY <1>1 DEF Enters, Proves, Publishes, Explains, Same, Inside, At, Passes
<1> QED
  BY <1>2, PassSteps, JobSteps

LEMMA AloneStep ==
    TypeInv /\ OneCalculation /\ Timely /\ Alone /\ [Next]_vars => Alone'
<1> SUFFICES ASSUME TypeInv, OneCalculation, Timely, Alone, [Next]_vars, OneProcess,
                    NEW d \in Callers
             PROVE  Undisturbed(d)'
  BY DEF Alone, OneProcess
<1>1. ASSUME NEW c \in Callers, Step(c), c # d PROVE Undisturbed(d)'
  <2>1. job'[d] = job[d]
    BY <1>1, JobSteps
  <2>2. CASE Inside(d)
    <3>1. \A s : QualIn(quals', s) = QualIn(quals, s)
      BY <1>1, <2>2, NotDisturbed DEF Leaves
    <3>2. \A s : QualificationFor(s)' = QualificationFor(s)
      BY <3>1, QualificationIs
    <3> QED
      BY <2>1, <3>1, <3>2 DEF Alone, Undisturbed, At, Full
  <2>3. CASE ~Inside(d)
    BY <2>1, <2>3 DEF Undisturbed, Inside, At
  <2> QED
    BY <2>2, <2>3
<1>2. ASSUME Step(d) PROVE Undisturbed(d)'
  <2>1. CASE Leaves(d)
    BY <2>1 DEF Leaves, Undisturbed, At
  <2>2. CASE Enters(d)
    <3>1. \A s : QualificationFor(s)' = QualificationFor(s)
      BY <2>2, QualificationIs DEF Enters
    <3> QED
      BY <2>2, <3>1 DEF Enters, Same, Undisturbed, At, Full
  <2>3. CASE Proves(d)
    <3>1. \A s : QualificationFor(s)' = QualificationFor(s)
      BY <2>3, QualificationIs DEF Proves
    <3>2. \A q \in QualIn(quals', job'[d].snap) : q.at <= job'[d].finish
      BY <2>3 DEF Proves, Timely, QualIn
    <3> QED
      BY <2>3, <3>1, <3>2 DEF Proves, Same, Alone, Undisturbed, At, Full
  <2>4. CASE Publishes(d)
    BY <2>4 DEF Publishes, Undisturbed, At
  <2>5. CASE Explains(d)
    <3>1. \A s : QualificationFor(s)' = QualificationFor(s)
      BY <2>5, QualificationIs DEF Explains
    <3>2. job'[d].at = "search" => job'[d].qual = QualificationFor(job[d].snap).id
      BY <2>5 DEF Explains, Finds
    <3> QED
      BY <2>5, <3>1, <3>2 DEF Explains, Same, Passes, Undisturbed, At
  <2> QED
    BY <1>2, <2>1, <2>2, <2>3, <2>4, <2>5, PassSteps
<1>3. CASE ~(\E c \in Callers : Step(c))
  <2>1. UNCHANGED job /\ quals' \subseteq quals /\ \A s : QualificationFor(s)' = QualificationFor(s)
    BY <1>3, OtherAnswers
  <2> QED
    BY <2>1 DEF Alone, Undisturbed, At, Full, QualIn
<1> QED
  BY <1>1, <1>2, <1>3

(* A row with the largest id, and no earlier than any, is the latest.      *)
LEMMA NewestIsLatest ==
    ASSUME NEW set, NEW row \in set, \A r \in set : r.id \in Nat /\ r.at \in Nat,
           \A r \in set \ {row} : r.id < row.id /\ r.at <= row.at
    PROVE  LatestOf(set) = row
<1>1. \A r \in set \ {row} : Newer(row, r)
  BY DEF Newer
<1> QED
  BY <1>1, LatestUnique

LEMMA QualificationServed ==
    ASSUME TypeInv, TypeInv', OneCalculation, Alone, OneProcess,
           NEW c \in Callers, Publishes(c), NEW q \in quals' \ quals, q.complete
    PROVE  QualificationFor(q.snap)' = q
<1>1. PICK full \in BOOLEAN : quals' = quals \cup {QualRun(c, TRUE, full)}
  BY DEF Publishes
<1>2. /\ q = QualRun(c, TRUE, full) /\ q.id = 1 + seq["quals"] /\ q.at = job[c].finish
      /\ q.snap = job[c].snap
  BY <1>1 DEF QualRun, NextId
<1> DEFINE set == QualIn(quals', q.snap)
<1>3. q \in set /\ \A r \in set : r \in quals' /\ r.id \in Nat /\ r.at \in Nat
  BY Ids DEF QualIn, TypeInv, TypeOK, QualRow
<1>4. \A r \in set \ {q} : r \in QualIn(quals, job[c].snap)
  BY <1>1, <1>2 DEF QualIn
<1>5. seq["quals"] \in Nat /\ \A r \in quals : r.id <= seq["quals"]
  BY DEF TypeInv, TypeOK, Table
<1>6. \A r \in set \ {q} : r.id < q.id /\ r.at <= q.at
  <2>1. \A r \in QualIn(quals, job[c].snap) : r.at <= job[c].finish /\ r \in quals
    BY DEF Alone, Undisturbed, Publishes, QualIn
  <2> DEFINE last == seq["quals"]
  <2> HIDE DEF set, last
  <2>2. ASSUME NEW r \in set \ {q} PROVE r.id < q.id /\ r.at <= q.at
    <3>1. r \in quals /\ r.at <= job[c].finish /\ r.id \in Nat
      BY <1>3, <1>4, <2>1, <2>2
    <3>2. last \in Nat /\ r.id <= last /\ q.id = 1 + last /\ q.at = job[c].finish
      BY <1>2, <1>5, <3>1 DEF last
    <3> QED
      BY <3>1, <3>2
  <2> QED
    BY <2>2
<1> HIDE DEF set
<1>7. LatestOf(set) = q
  BY <1>3, <1>6, NewestIsLatest
<1> QED
  BY <1>7, QualificationIs DEF set

LEMMA ScenarioServed ==
    ASSUME TypeInv, TypeInv', OneCalculation, Timely, Based, Alone, OneProcess,
           NEW c \in Callers, Step(c), NEW x \in scens' \ scens, x.complete
    PROVE  ScenarioFor(x.snap, x.kind)' = x
<1>1. PICK complete \in BOOLEAN, full \in BOOLEAN :
         At(c, "search") /\ scens' = scens \cup {ScenRun(c, complete, full)}
  BY RowSteps
<1>2. /\ x = ScenRun(c, complete, full) /\ x.id = 1 + seq["scens"] /\ x.at = clock
      /\ x.snap = job[c].snap /\ x.qual = job[c].qual
  BY <1>1 DEF ScenRun, NextId
<1>3. \A s : QualIn(quals', s) = QualIn(quals, s)
  <2>1. ~Publishes(c)
    BY <1>1 DEF Publishes, At
  <2> QED
    BY <2>1, PassSteps DEF Leaves, Enters, Proves, Explains
<1>4. /\ QualificationFor(x.snap)' = QualificationFor(x.snap)
      /\ QualificationFor(x.snap) # Absent /\ QualificationFor(x.snap).id = x.qual
  BY <1>1, <1>2, <1>3, QualificationIs DEF Based, Alone, Undisturbed, At, Passes
<1> DEFINE set == {y \in scens' : /\ y.snap = x.snap /\ y.kind = x.kind /\ y.complete
                                  /\ QualificationFor(x.snap)' # Absent
                                  /\ y.qual = QualificationFor(x.snap)'.id}
<1>5. x \in set /\ \A r \in set : r \in scens' /\ r.id \in Nat /\ r.at \in Nat
  BY <1>4 DEF TypeInv, TypeOK, ScenRow
<1>6. seq["scens"] \in Nat /\ \A r \in scens : r.id <= seq["scens"] /\ r.at <= clock
  BY DEF TypeInv, TypeOK, Table, Timely
<1>7. \A r \in scens' \ {x} : r \in scens
  BY <1>1, <1>2
<1>8. ScenarioFor(x.snap, x.kind)' = LatestOf(set)
  BY DEF ScenarioFor, LatestOf
<1> HIDE DEF set
<1>9. LatestOf(set) = x
  BY <1>2, <1>5, <1>6, <1>7, NewestIsLatest
<1> QED
  BY <1>8, <1>9

LEMMA ServedStep ==
    TypeInv /\ TypeInv' /\ OneCalculation /\ Timely /\ Based /\ Alone /\ [Next]_vars =>
       [OneProcess =>
          /\ \A q \in quals' \ quals : q.complete => QualificationFor(q.snap)' = q
          /\ \A x \in scens' \ scens : x.complete => ScenarioFor(x.snap, x.kind)' = x]_vars
<1> SUFFICES ASSUME TypeInv, TypeInv', OneCalculation, Timely, Based, Alone, [Next]_vars,
                    OneProcess
             PROVE  /\ \A q \in quals' \ quals : q.complete => QualificationFor(q.snap)' = q
                    /\ \A x \in scens' \ scens : x.complete => ScenarioFor(x.snap, x.kind)' = x
  OBVIOUS
<1>1. ASSUME NEW c \in Callers, Step(c), NEW q \in quals' \ quals, q.complete
      PROVE  QualificationFor(q.snap)' = q
  <2>1. CASE Publishes(c)
    BY <1>1, <2>1, QualificationServed
  <2>2. CASE ~Publishes(c)
    <3>1. \A s : QualIn(quals', s) = QualIn(quals, s)
      BY <1>1, <2>2, PassSteps DEF Leaves, Enters, Proves, Explains
    <3>2. q \in QualIn(quals', q.snap)
      BY <1>1 DEF QualIn
    <3> QED
      BY <1>1, <3>1, <3>2 DEF QualIn
  <2> QED
    BY <2>1, <2>2
<1>2. ASSUME NEW c \in Callers, Step(c), NEW x \in scens' \ scens, x.complete
      PROVE  ScenarioFor(x.snap, x.kind)' = x
  BY <1>2, ScenarioServed
<1>3. CASE ~(\E c \in Callers : Step(c))
  <2>1. quals' \subseteq quals /\ scens' \subseteq scens
    BY <1>3, OtherAnswers
  <2> QED
    BY <2>1
<1> QED
  BY <1>1, <1>2, <1>3

LEMMA DegradedStep ==
    TypeInv /\ OneCalculation /\ Alone /\ [Next]_vars =>
       [OneProcess =>
          \A s \in Snapshots :
             Full(QualificationFor(s)) =>
                \/ Full(QualificationFor(s))'
                \/ \E c \in Callers : At(c, "publish") /\ job[c].snap = s /\ job[c].force]_vars
<1> SUFFICES ASSUME TypeInv, OneCalculation, Alone, [Next]_vars, OneProcess,
                    NEW s \in Snapshots, Full(QualificationFor(s))
             PROVE  \/ Full(QualificationFor(s))'
                    \/ \E c \in Callers : At(c, "publish") /\ job[c].snap = s /\ job[c].force
  OBVIOUS
<1>1. CASE QualificationFor(s)' = QualificationFor(s)
  BY <1>1 DEF Full
<1>2. ASSUME NEW c \in Callers, Step(c), QualificationFor(s)' # QualificationFor(s)
      PROVE  At(c, "publish") /\ job[c].snap = s /\ job[c].force
  <2>1. QualIn(quals', s) # QualIn(quals, s)
    BY <1>2, QualificationIs
  <2>2. Publishes(c)
    BY <1>2, <2>1, PassSteps DEF Leaves, Enters, Proves, Explains
  <2>3. PICK full \in BOOLEAN : quals' = quals \cup {QualRun(c, TRUE, full)}
    BY <2>2 DEF Publishes
  <2>4. QualRun(c, TRUE, full).snap = job[c].snap
    BY DEF QualRun
  <2>5. job[c].snap = s
    BY <2>1, <2>3, <2>4 DEF QualIn
  <2> QED
    BY <2>2, <2>5 DEF Publishes, Alone, Undisturbed
<1>3. CASE ~(\E c \in Callers : Step(c))
  BY <1>1, <1>3, OtherAnswers
<1> QED
  BY <1>1, <1>2, <1>3

LEMMA RefreshInvariant ==
    Spec => [](TypeInv /\ OneCalculation /\ Timely /\ Based /\ Alone)
<1>1. Init => OneCalculation /\ Timely /\ Based /\ Alone
  BY DEF Init, OneCalculation, Timely, Based, Alone, Undisturbed, Inside, At
<1> QED
  BY <1>1, TypeInit, TypeStep, OneCalculationStep, TimelyStep, BasedStep, AloneStep, PTL DEF Spec

(* No pruning takes anything a stored batch or a running refresh needs,    *)
(* for any number of processes.                                            *)
THEOREM PruneCorrect == Spec => []PruneSafe
<1>1. Based => BaselineThere
  BY DEF Based, BaselineThere, At, Passes
<1> QED
  BY <1>1, LineageCorrect, RefreshInvariant, PTL DEF PruneSafe

(* A batch published within one process is the one its readers are given   *)
(* from then on: nothing else has published or searched meanwhile.         *)
THEOREM PublishedCorrect == Spec => PublishedIsServed
<1> DEFINE Kept == OneProcess =>
       /\ \A q \in quals' \ quals : q.complete => QualificationFor(q.snap)' = q
       /\ \A x \in scens' \ scens : x.complete => ScenarioFor(x.snap, x.kind)' = x
<1>1. TypeInv /\ TypeInv' /\ OneCalculation /\ Timely /\ Based /\ Alone /\ [Next]_vars
      => [Kept]_vars
  BY ServedStep
<1>2. Spec => [][Kept]_vars
  <2> HIDE DEF Kept
  <2> QED
    BY <1>1, RefreshInvariant, PTL DEF Spec
<1> QED
  BY <1>2 DEF PublishedIsServed

(* Within one process only force replaces a full qualification by one that *)
(* ran out of its budget.                                                  *)
THEOREM FullnessCorrect == Spec => NeverDegraded
<1> DEFINE Kept == OneProcess =>
       \A s \in Snapshots :
          Full(QualificationFor(s)) =>
             \/ Full(QualificationFor(s))'
             \/ \E c \in Callers : At(c, "publish") /\ job[c].snap = s /\ job[c].force
<1>1. TypeInv /\ OneCalculation /\ Alone /\ [Next]_vars => [Kept]_vars
  BY DegradedStep
<1>2. Spec => [][Kept]_vars
  <2> HIDE DEF Kept
  <2> QED
    BY <1>1, RefreshInvariant, PTL DEF Spec
<1> QED
  BY <1>2 DEF NeverDegraded
=============================================================================
