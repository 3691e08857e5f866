---------------------------- MODULE ServerProofs ----------------------------
(***************************************************************************)
(* Theorems about Server for any number of models and concurrent requests, *)
(* any number of slots, any cache capacity and any number of changes of    *)
(* the inputs.                                                             *)
(*                                                                         *)
(* The argument: a result sits in the cache under the inputs it was        *)
(* simulated from (Keyed), so what a call takes from it or adds to it      *)
(* belongs to the inputs the call read.  The calls holding a slot are the  *)
(* running ones, and a check that is not warming has no calls (Warming),   *)
(* so the end of a check strands none.  run leaves the wait only when the  *)
(* loop is over, and an ended loop starts nothing (Lifecycle).             *)
(***************************************************************************)
EXTENDS Server, FiniteSetTheorems, TLAPS

Version == [fixtures : Nat, xg : Nat]
Found == UNION {[models -> Version] : models \in SUBSET Models}
Call == [pc : {"off", "queued", "lookup", "acquire", "run", "done", "failed"},
         read : Version, todo : SUBSET Models, got : Found]
Stored == UNION {[keys -> Version] : keys \in SUBSET (Models \X Version)}

TypeOK ==
    /\ main \in {"build", "serving", "shutdown", "wait", "closed"}
    /\ signal \in BOOLEAN /\ stopped \in BOOLEAN /\ graceful \in BOOLEAN
    /\ inputs \in Version
    /\ check \in [Checks -> [pc : {"idle", "job", "warm", "over"}, canceled : BOOLEAN]]
    /\ proc \in [Procs -> Call]
    /\ used \in Nat
    /\ results \in Stored

Keyed == \A k \in DOMAIN results : results[k] = k[2]

Warming ==
    \A c \in Checks, m \in Models : check[c].pc # "warm" => proc[<<c, m>>].pc = "off"

Lifecycle ==
    /\ main = "closed" => check["loop"].pc = "over"
    /\ main \in {"wait", "closed"} /\ graceful => Answered

Running == {p \in Procs : proc[p].pc = "run"}

ServerInvariant ==
    /\ TypeOK /\ Keyed /\ AnswersCurrent
    /\ Warming /\ Lifecycle
    /\ SlotsReturned
    /\ IsFiniteSet(DOMAIN results) /\ CacheBounded

-----------------------------------------------------------------------------
LEMMA Facts ==
    /\ Slots \in Nat \ {0} /\ Capacity \in Nat \ {0} /\ MaxInputs \in Nat
    /\ IsFiniteSet(Procs)
    /\ Requests \subseteq Procs /\ Warmers \subseteq Procs
    /\ Requests \cap Warmers = {}
<1>1. IsFiniteSet(Checks) /\ IsFiniteSet({"http"})
  <2>1. IsFiniteSet({"startup"}) /\ IsFiniteSet({"http"})
    BY FS_Singleton
  <2>2. IsFiniteSet({"startup"} \cup {"loop"})
    BY <2>1, FS_AddElement
  <2>3. IsFiniteSet({"startup"} \cup {"loop"} \cup {"now"})
    BY <2>2, FS_AddElement
  <2>4. Checks = {"startup"} \cup {"loop"} \cup {"now"}
    BY DEF Checks
  <2> QED
    BY <2>1, <2>3, <2>4
<1>2. IsFiniteSet(Requests) /\ IsFiniteSet(Warmers)
  BY <1>1, FS_Product, ServerAssumption DEF ServerAssumption, Requests, Warmers
<1>3. IsFiniteSet(Procs)
  BY <1>2, FS_Union DEF Procs
<1>4. Requests \cap Warmers = {}
  BY DEF Requests, Warmers, Checks
<1> QED
  BY <1>3, <1>4, ServerAssumption DEF ServerAssumption, Procs

LEMMA OffType == Off \in Call /\ Off.pc = "off" /\ DOMAIN Off.got = {}
<1>1. [m \in {} |-> 0] \in [{} -> Version] /\ {} \in SUBSET Models
  OBVIOUS
<1>2. [m \in {} |-> 0] \in Found
  BY <1>1 DEF Found
<1>3. [fixtures |-> 0, xg |-> 0] \in Version
  BY DEF Version
<1> QED
  BY <1>2, <1>3 DEF Off, Call

LEMMA FoundType ==
    ASSUME NEW f, NEW models \in SUBSET Models, f \in [models -> Version]
    PROVE  f \in Found
BY DEF Found

LEMMA CallType ==
    ASSUME TypeOK, NEW p \in Procs
    PROVE  /\ proc[p] \in Call /\ proc[p].read \in Version /\ proc[p].todo \in SUBSET Models
           /\ DOMAIN proc[p].got \in SUBSET Models
           /\ \A m \in DOMAIN proc[p].got : proc[p].got[m] \in Version
<1>1. proc[p] \in Call
  BY DEF TypeOK
<1>2. PICK models \in SUBSET Models : proc[p].got \in [models -> Version]
  BY <1>1 DEF Call, Found
<1> QED
  BY <1>1, <1>2 DEF Call

LEMMA StoredType ==
    ASSUME TypeOK
    PROVE  /\ DOMAIN results \in SUBSET (Models \X Version)
           /\ \A k \in DOMAIN results : results[k] \in Version
<1>1. PICK keys \in SUBSET (Models \X Version) : results \in [keys -> Version]
  BY DEF TypeOK, Stored
<1> QED
  BY <1>1

(* What an insertion leaves in the cache: the new entry, and old ones, no  *)
(* more of them than there is room for.                                    *)
LEMMA Insertion ==
    ASSUME TypeOK, CacheBounded, IsFiniteSet(DOMAIN results),
           NEW key, NEW value, NEW after \in Inserted(key, value)
    PROVE  /\ key \in DOMAIN after /\ after[key] = value
           /\ DOMAIN after \subseteq DOMAIN results \cup {key}
           /\ after = [k \in DOMAIN after |-> after[k]]
           /\ \A k \in DOMAIN after \ {key} : after[k] = results[k]
           /\ IsFiniteSet(DOMAIN after) /\ Cardinality(DOMAIN after) <= Capacity
<1> DEFINE kept == IF Cardinality(DOMAIN results) < Capacity THEN {DOMAIN results}
                   ELSE {DOMAIN results \ {k} : k \in DOMAIN results}
<1>1. PICK keys \in kept :
           after = [k \in keys \cup {key} |-> IF k = key THEN value ELSE results[k]]
  BY DEF Inserted
<1>2. Cardinality(DOMAIN results) \in Nat
  BY FS_CardinalityType
<1>3. keys \subseteq DOMAIN results /\ IsFiniteSet(keys) /\ Cardinality(keys) < Capacity
  <2>1. CASE Cardinality(DOMAIN results) < Capacity
    BY <1>1, <2>1
  <2>2. CASE ~(Cardinality(DOMAIN results) < Capacity)
    <3>1. PICK k \in DOMAIN results : keys = DOMAIN results \ {k}
      BY <1>1, <2>2
    <3>2. IsFiniteSet(keys) /\ Cardinality(keys) = Cardinality(DOMAIN results) - 1
      BY <3>1, FS_RemoveElement
    <3> QED
      BY <3>1, <3>2, <1>2, Facts DEF CacheBounded
  <2> QED
    BY <2>1, <2>2
<1>4. DOMAIN after = keys \cup {key}
  BY <1>1
<1>5. IsFiniteSet(DOMAIN after) /\ Cardinality(DOMAIN after) <= Capacity
  <2>1. IsFiniteSet(keys \cup {key})
        /\ Cardinality(keys \cup {key}) \in {Cardinality(keys), Cardinality(keys) + 1}
    BY <1>3, FS_AddElement
  <2>2. Cardinality(keys) \in Nat
    BY <1>3, FS_CardinalityType
  <2> QED
    BY <1>3, <1>4, <2>1, <2>2, Facts
<1> QED
  BY <1>1, <1>3, <1>4, <1>5

-----------------------------------------------------------------------------
(* The steps of one call: they change no other call, and the call keeps    *)
(* the inputs it has read and answers with results of those.               *)
Same(p) ==
    /\ proc' = [proc EXCEPT ![p] = proc'[p]]
    /\ proc'[p] \in Call
    /\ proc'[p].read = proc[p].read
    /\ \A m \in DOMAIN proc'[p].got : proc'[p].got[m] = proc[p].read
    /\ UNCHANGED <<main, signal, stopped, graceful, inputs, check>>

LEMMA SimpleStep ==
    ASSUME TypeOK, AnswersCurrent, NEW p \in Procs,
           Acquire(p) \/ Overloaded(p) \/ RunFails(p) \/ TakeTask(p)
    PROVE  Same(p) /\ results' = results
           /\ proc[p].pc \in {"acquire", "run", "queued"}
           /\ proc'[p].pc \in {"run", "failed", "lookup"}
<1>1. PICK pc \in {"run", "failed", "lookup"} : proc' = [proc EXCEPT ![p].pc = pc]
  BY DEF Acquire, Overloaded, RunFails, TakeTask, Fail
<1>2. proc[p] \in Call /\ proc'[p] = [proc[p] EXCEPT !.pc = pc]
  BY <1>1, CallType DEF TypeOK
<1>3. proc'[p] \in Call /\ proc'[p].read = proc[p].read /\ proc'[p].got = proc[p].got
      /\ proc'[p].pc = pc
  BY <1>2 DEF Call
<1>4. proc' = [proc EXCEPT ![p] = proc'[p]]
  BY <1>1, <1>2 DEF TypeOK
<1>5. \A m \in DOMAIN proc'[p].got : proc'[p].got[m] = proc[p].read
  BY <1>3 DEF AnswersCurrent
<1>6. UNCHANGED <<main, signal, stopped, graceful, inputs, check, results>>
  BY DEF Acquire, Overloaded, RunFails, TakeTask, Elsewhere
<1>7. proc[p].pc \in {"acquire", "run", "queued"}
  BY DEF Acquire, Overloaded, RunFails, TakeTask
<1> QED
  BY <1>1, <1>3, <1>4, <1>5, <1>6, <1>7 DEF Same

LEMMA LookupStep ==
    ASSUME TypeOK, Keyed, NEW p \in Procs, Lookup(p)
    PROVE  Same(p) /\ UNCHANGED <<used, results>>
           /\ proc[p].pc = "lookup" /\ proc'[p].pc \in {"done", "acquire"}
<1> DEFINE hits == {m \in proc[p].todo : Key(m, proc[p].read) \in DOMAIN results}
           got == [m \in hits |-> results[Key(m, proc[p].read)]]
           pc == IF hits = proc[p].todo THEN "done" ELSE "acquire"
           rest == proc[p].todo \ hits
<1>1. proc' = [proc EXCEPT ![p].todo = rest, ![p].got = got, ![p].pc = pc]
  BY DEF Lookup
<1>2. proc[p] \in Call
  BY CallType
<1>3. \A m \in hits : results[Key(m, proc[p].read)] = proc[p].read
  BY DEF Keyed, Key
<1>4. got \in Found
  <2>1. hits \in SUBSET Models
    BY CallType
  <2>2. got \in [hits -> Version]
    BY <1>3, CallType
  <2> QED
    BY <2>1, <2>2, FoundType
<1>5. rest \in SUBSET Models /\ pc \in {"done", "acquire"}
  BY CallType
<1> HIDE DEF hits, got, pc, rest
<1>6. proc'[p] = [proc[p] EXCEPT !.todo = rest, !.got = got, !.pc = pc]
  BY <1>1 DEF TypeOK
<1>7. proc'[p] \in Call /\ proc'[p].read = proc[p].read /\ proc'[p].got = got /\ proc'[p].pc = pc
  BY <1>2, <1>4, <1>5, <1>6 DEF Call
<1>8. proc' = [proc EXCEPT ![p] = proc'[p]]
  BY <1>1, <1>6 DEF TypeOK
<1>9. \A m \in DOMAIN got : got[m] = proc[p].read
  BY <1>3 DEF got
<1>10. UNCHANGED <<main, signal, stopped, graceful, inputs, check, used, results>>
       /\ proc[p].pc = "lookup"
  BY DEF Lookup, Elsewhere
<1> QED
  BY <1>5, <1>7, <1>8, <1>9, <1>10 DEF Same

LEMMA RunStep ==
    ASSUME TypeOK, AnswersCurrent, NEW p \in Procs, NEW m \in Models, Run(p, m)
    PROVE  Same(p) /\ proc[p].pc = "run"
           /\ results' \in Inserted(Key(m, proc[p].read), proc[p].read)
           /\ \/ proc'[p].pc = "run" /\ used' = used
              \/ proc'[p].pc = "done" /\ used' = used - 1
<1> DEFINE got == [n \in DOMAIN proc[p].got \cup {m} |->
                      IF n = m THEN proc[p].read ELSE proc[p].got[n]]
           pc == IF proc[p].todo = {m} THEN "done" ELSE "run"
           rest == proc[p].todo \ {m}
<1>1. proc' = [proc EXCEPT ![p].todo = rest, ![p].got = got, ![p].pc = pc]
  BY DEF Run
<1>2. proc[p] \in Call
  BY CallType
<1>3. got \in Found
  <2>1. DOMAIN proc[p].got \cup {m} \in SUBSET Models
    BY CallType
  <2>2. got \in [DOMAIN proc[p].got \cup {m} -> Version]
    BY CallType
  <2> QED
    BY <2>1, <2>2, FoundType
<1>4. rest \in SUBSET Models /\ pc \in {"done", "run"}
  BY CallType
<1>5. \A n \in DOMAIN got : got[n] = proc[p].read
  BY DEF AnswersCurrent
<1>6. \/ pc = "run" /\ used' = used
      \/ pc = "done" /\ used' = used - 1
  BY DEF Run
<1> HIDE DEF got, pc, rest
<1>7. proc'[p] = [proc[p] EXCEPT !.todo = rest, !.got = got, !.pc = pc]
  BY <1>1 DEF TypeOK
<1>8. proc'[p] \in Call /\ proc'[p].read = proc[p].read /\ proc'[p].got = got /\ proc'[p].pc = pc
  BY <1>2, <1>3, <1>4, <1>7 DEF Call
<1>9. proc' = [proc EXCEPT ![p] = proc'[p]]
  BY <1>1, <1>7 DEF TypeOK
<1>10. UNCHANGED <<main, signal, stopped, graceful, inputs, check>>
       /\ proc[p].pc = "run"
       /\ results' \in Inserted(Key(m, proc[p].read), proc[p].read)
  BY DEF Run, Elsewhere
<1> QED
  BY <1>5, <1>6, <1>8, <1>9, <1>10 DEF Same

-----------------------------------------------------------------------------
(* The other steps on calls: a request, its response, the calls a check    *)
(* queues and the ones it has done with.                                   *)
LEMMA RequestStep ==
    ASSUME TypeOK, NEW h \in Requests, NEW models \in SUBSET Models,
           Request(h, models) \/ Respond(h)
    PROVE  /\ proc' \in [Procs -> Call]
           /\ \A p \in Procs \ {h} : proc'[p] = proc[p]
           /\ proc'[h].pc \in {"off", "lookup"} /\ DOMAIN proc'[h].got = {}
           /\ proc[h].pc \in {"off", "done", "failed"}
           /\ UNCHANGED <<main, signal, stopped, graceful, inputs, check, used, results>>
<1>1. /\ [Off EXCEPT !.pc = "lookup", !.read = inputs, !.todo = models] \in Call
      /\ [Off EXCEPT !.pc = "lookup", !.read = inputs, !.todo = models].got = Off.got
      /\ [Off EXCEPT !.pc = "lookup", !.read = inputs, !.todo = models].pc = "lookup"
  BY OffType DEF TypeOK, Call
<1>2. CASE Request(h, models)
  BY <1>1, <1>2, OffType, Facts DEF Request, Elsewhere, TypeOK
<1>3. CASE Respond(h)
  BY <1>3, OffType, Facts DEF Respond, Elsewhere, TypeOK
<1> QED
  BY <1>2, <1>3

LEMMA QueueStep ==
    ASSUME TypeOK, NEW c \in Checks, NEW in \in Version, Queue(c, in)
    PROVE  /\ proc' \in [Procs -> Call]
           /\ \A p \in Procs \ ({c} \X Models) : proc'[p] = proc[p]
           /\ \A m \in Models : /\ proc'[<<c, m>>].pc = "queued"
                                /\ DOMAIN proc'[<<c, m>>].got = {}
<1> DEFINE queued(m) == [Off EXCEPT !.pc = "queued", !.read = in, !.todo = {m}]
<1>1. ASSUME NEW m \in Models
      PROVE  queued(m) \in Call /\ queued(m).got = Off.got /\ queued(m).pc = "queued"
  BY OffType DEF Call
<1>3. ASSUME NEW m \in Models
      PROVE  <<c, m>> \in {c} \X Models /\ <<c, m>> \in Procs /\ <<c, m>>[2] = m
  BY Facts DEF Warmers
<1>4. \A p \in Procs : p \in {c} \X Models =>
         proc'[p] = queued(p[2])
  BY DEF Queue
<1> HIDE DEF queued
<1>5. \A p \in Procs \ ({c} \X Models) : proc'[p] = proc[p]
  BY DEF Queue
<1>6. ASSUME NEW p \in Procs
      PROVE  proc'[p] \in Call
  <2>1. CASE p \in {c} \X Models
    <3>1. proc'[p] = queued(p[2])
      BY <1>4, <2>1
    <3>2. p[2] \in Models
      BY <2>1
    <3> QED
      BY <1>1, <3>1, <3>2
  <2>2. CASE p \notin {c} \X Models
    BY <1>5, <2>2, CallType
  <2> QED
    BY <2>1, <2>2
<1>7. proc' = [p \in Procs |-> proc'[p]]
  BY DEF Queue
<1>8. ASSUME NEW m \in Models
      PROVE  proc'[<<c, m>>].pc = "queued" /\ DOMAIN proc'[<<c, m>>].got = {}
  <2>1. proc'[<<c, m>>] = queued(m)
    BY <1>3, <1>4
  <2> QED
    BY <1>1, <2>1, OffType
<1> QED
  BY <1>5, <1>6, <1>7, <1>8

LEMMA WarmEndsStep ==
    ASSUME TypeOK, NEW c \in Checks, WarmEnds(c)
    PROVE  /\ proc' \in [Procs -> Call]
           /\ \A p \in Procs \ ({c} \X Models) : proc'[p] = proc[p]
           /\ \A m \in Models : /\ proc'[<<c, m>>].pc = "off"
                                /\ DOMAIN proc'[<<c, m>>].got = {}
                                /\ proc[<<c, m>>].pc \in {"done", "failed"}
           /\ check' = [check EXCEPT ![c].pc = IF c = "startup" THEN "over" ELSE "idle"]
           /\ UNCHANGED <<main, signal, stopped, graceful, inputs, used, results>>
<1>1. proc' = [p \in Procs |-> IF p \in {c} \X Models THEN Off ELSE proc[p]]
  BY DEF WarmEnds
<1>2. ASSUME NEW m \in Models
      PROVE  <<c, m>> \in Procs /\ <<c, m>> \in {c} \X Models
  BY Facts DEF Warmers
<1>3. \A p \in Procs : proc'[p] \in Call
  BY <1>1, CallType, OffType
<1>4. \A m \in Models : proc'[<<c, m>>] = Off
  BY <1>1, <1>2
<1>5. \A p \in Procs \ ({c} \X Models) : proc'[p] = proc[p]
  BY <1>1
<1> QED
  BY <1>1, <1>3, <1>4, <1>5, OffType DEF WarmEnds, Rest

(* What is left leaves the calls and the executor alone.                   *)
LEMMA CheckStep ==
    ASSUME TypeOK, NEW c \in Checks,
           StartCheck(c) \/ JobEnds(c) \/ CancelCheckNow \/ Quit
    PROVE  /\ UNCHANGED <<main, signal, stopped, graceful, inputs, proc, used, results>>
           /\ check' \in [Checks -> [pc : {"idle", "job", "warm", "over"}, canceled : BOOLEAN]]
           /\ \A d \in Checks : check'[d].pc # check[d].pc =>
                 /\ check[d].pc \in {"idle", "job"} /\ check'[d].pc # "warm"
                 /\ main = "closed" /\ check[d].pc = "idle" => check'[d].pc = "over"
<1>1. {"now", "loop"} \subseteq Checks
  BY DEF Checks
<1>2. CASE StartCheck(c)
  BY <1>2 DEF StartCheck, Rest, TypeOK, Closed
<1>3. CASE JobEnds(c)
  BY <1>3 DEF JobEnds, Rest, TypeOK
<1>4. CASE CancelCheckNow
  BY <1>1, <1>4 DEF CancelCheckNow, Rest, TypeOK
<1>5. CASE Quit
  BY <1>1, <1>5 DEF Quit, Rest, TypeOK
<1> QED
  BY <1>2, <1>3, <1>4, <1>5

LEMMA MainSteps ==
    ASSUME TypeOK, Signal \/ ListenerFails \/ Main
    PROVE  /\ UNCHANGED <<inputs, check, proc, used, results>>
           /\ main' \in {"build", "serving", "shutdown", "wait", "closed"}
           /\ signal' \in BOOLEAN /\ stopped' \in BOOLEAN /\ graceful' \in BOOLEAN
           /\ main' = "closed" => main = "closed" \/ LoopOver
           /\ main' = "wait" /\ graceful' => Answered \/ (main = "wait" /\ graceful)
           /\ main' = "closed" /\ graceful' => main \in {"wait", "closed"} /\ graceful
<1>1. CASE Signal
  BY <1>1 DEF Signal, TypeOK
<1>2. CASE ListenerFails
  BY <1>2 DEF ListenerFails, MainStep, TypeOK
<1>3. CASE Serve \/ Shutdown
  BY <1>3 DEF Serve, Shutdown, MainStep, TypeOK
<1>4. CASE HTTPShutdown \/ HTTPShutdownTimesOut
  BY <1>4 DEF HTTPShutdown, HTTPShutdownTimesOut, MainStep, TypeOK
<1>5. CASE Close
  BY <1>5 DEF Close, LoopOver, MainStep, TypeOK
<1> QED
  BY <1>1, <1>2, <1>3, <1>4, <1>5 DEF Main

LEMMA JobChangesStep ==
    ASSUME TypeOK, NEW c \in Checks, JobChanges(c)
    PROVE  /\ inputs' \in Version /\ Queue(c, inputs')
           /\ check[c].pc = "job" /\ check' = [check EXCEPT ![c].pc = "warm"]
           /\ UNCHANGED <<main, signal, stopped, graceful, used, results>>
BY DEF JobChanges, Rest, TypeOK, Version

-----------------------------------------------------------------------------
LEMMA TypeStep ==
    TypeOK /\ Keyed /\ AnswersCurrent /\ SlotsReturned
    /\ IsFiniteSet(DOMAIN results) /\ CacheBounded /\ [Next]_vars
    => TypeOK' /\ Keyed' /\ AnswersCurrent' /\ IsFiniteSet(DOMAIN results') /\ CacheBounded'
<1> SUFFICES ASSUME TypeOK, Keyed, AnswersCurrent, SlotsReturned,
                    IsFiniteSet(DOMAIN results), CacheBounded, [Next]_vars
             PROVE  TypeOK' /\ Keyed' /\ AnswersCurrent' /\ IsFiniteSet(DOMAIN results')
                    /\ CacheBounded'
  OBVIOUS
<1>1. ASSUME results' = results
      PROVE  Keyed' /\ IsFiniteSet(DOMAIN results') /\ CacheBounded' /\ results' \in Stored
  BY <1>1 DEF Keyed, CacheBounded, TypeOK
<1>2. ASSUME NEW p \in Procs, Same(p), used' \in Nat, results' \in Stored
      PROVE  TypeOK' /\ AnswersCurrent'
  BY <1>2 DEF Same, TypeOK, AnswersCurrent
<1>3. ASSUME NEW p \in Procs, Acquire(p) \/ Overloaded(p) \/ RunFails(p) \/ TakeTask(p)
      PROVE  TypeOK' /\ AnswersCurrent' /\ results' = results
  <2>1. used' \in Nat
    <3>1. CASE RunFails(p)
      <4>1. p \in {q \in Procs : proc[q].pc = "run"} /\ IsFiniteSet({q \in Procs : proc[q].pc = "run"})
        BY <3>1, Facts, FS_Subset DEF RunFails
      <4>2. Cardinality({q \in Procs : proc[q].pc = "run"}) # 0
            /\ Cardinality({q \in Procs : proc[q].pc = "run"}) \in Nat
        BY <4>1, FS_EmptySet, FS_CardinalityType
      <4> QED
        BY <3>1, <4>2 DEF RunFails, SlotsReturned
    <3>2. CASE Acquire(p) \/ Overloaded(p) \/ TakeTask(p)
      BY <3>2 DEF Acquire, Overloaded, TakeTask, TypeOK
    <3> QED
      BY <1>3, <3>1, <3>2
  <2>2. Same(p) /\ results' = results
    BY <1>3, SimpleStep
  <2> QED
    BY <1>1, <1>2, <2>1, <2>2
<1>4. ASSUME NEW p \in Procs, Lookup(p)
      PROVE  TypeOK' /\ AnswersCurrent' /\ results' = results
  <2>1. Same(p) /\ results' = results /\ used' = used
    BY <1>4, LookupStep
  <2> QED
    BY <1>1, <1>2, <2>1 DEF TypeOK
<1>5. ASSUME NEW p \in Procs, NEW m \in Models, Run(p, m)
      PROVE  TypeOK' /\ Keyed' /\ AnswersCurrent' /\ IsFiniteSet(DOMAIN results') /\ CacheBounded'
  <2> DEFINE key == Key(m, proc[p].read)
  <2>1. Same(p) /\ proc[p].pc = "run" /\ results' \in Inserted(key, proc[p].read)
        /\ (used' = used \/ used' = used - 1)
    BY <1>5, RunStep
  <2>2. /\ key \in DOMAIN results' /\ results'[key] = proc[p].read
        /\ DOMAIN results' \subseteq DOMAIN results \cup {key}
        /\ results' = [k \in DOMAIN results' |-> results'[k]]
        /\ \A k \in DOMAIN results' \ {key} : results'[k] = results[k]
        /\ IsFiniteSet(DOMAIN results') /\ Cardinality(DOMAIN results') <= Capacity
    <3> HIDE DEF key
    <3> QED
      BY <2>1, Insertion
  <2>3. key[2] = proc[p].read /\ key \in Models \X Version
    BY CallType DEF Key
  <2> HIDE DEF key
  <2>4. Keyed'
    BY <2>2, <2>3 DEF Keyed
  <2>5. results' \in Stored
    <3>1. DOMAIN results' \in SUBSET (Models \X Version)
      BY <2>2, <2>3, StoredType
    <3>2. \A k \in DOMAIN results' : results'[k] \in Version
      BY <2>2, StoredType, CallType
    <3>3. results' \in [DOMAIN results' -> Version]
      BY <2>2, <3>2
    <3> QED
      BY <3>1, <3>3 DEF Stored
  <2>6. used' \in Nat
    <3>1. p \in {q \in Procs : proc[q].pc = "run"} /\ IsFiniteSet({q \in Procs : proc[q].pc = "run"})
      BY <2>1, Facts, FS_Subset
    <3>2. Cardinality({q \in Procs : proc[q].pc = "run"}) # 0
          /\ Cardinality({q \in Procs : proc[q].pc = "run"}) \in Nat
      BY <3>1, FS_EmptySet, FS_CardinalityType
    <3> QED
      BY <2>1, <3>2 DEF SlotsReturned
  <2> QED
    BY <1>2, <2>1, <2>2, <2>4, <2>5, <2>6 DEF CacheBounded
<1>6. ASSUME NEW h \in Requests, NEW models \in SUBSET Models, Request(h, models) \/ Respond(h)
      PROVE  TypeOK' /\ AnswersCurrent' /\ results' = results
  BY <1>6, RequestStep DEF TypeOK, AnswersCurrent
<1>7. ASSUME NEW c \in Checks, StartCheck(c) \/ JobEnds(c) \/ CancelCheckNow \/ Quit
      PROVE  TypeOK' /\ AnswersCurrent' /\ results' = results
  BY <1>7, CheckStep DEF TypeOK, AnswersCurrent
<1>8. ASSUME NEW c \in Checks, JobChanges(c)
      PROVE  TypeOK' /\ AnswersCurrent' /\ results' = results
  <2>1. /\ inputs' \in Version /\ check' = [check EXCEPT ![c].pc = "warm"]
        /\ UNCHANGED <<main, signal, stopped, graceful, used, results>>
    BY <1>8, JobChangesStep
  <2>2. /\ proc' \in [Procs -> Call]
        /\ \A p \in Procs \ ({c} \X Models) : proc'[p] = proc[p]
        /\ \A m \in Models : DOMAIN proc'[<<c, m>>].got = {}
    BY <1>8, JobChangesStep, QueueStep
  <2>3. AnswersCurrent'
    BY <2>2 DEF AnswersCurrent
  <2>4. check' \in [Checks -> [pc : {"idle", "job", "warm", "over"}, canceled : BOOLEAN]]
    BY <2>1 DEF TypeOK
  <2> QED
    BY <2>1, <2>2, <2>3, <2>4 DEF TypeOK
<1>9. ASSUME NEW c \in Checks, WarmEnds(c)
      PROVE  TypeOK' /\ AnswersCurrent' /\ results' = results
  <2>1. /\ proc' \in [Procs -> Call]
        /\ \A p \in Procs \ ({c} \X Models) : proc'[p] = proc[p]
        /\ \A m \in Models : DOMAIN proc'[<<c, m>>].got = {}
        /\ UNCHANGED <<main, signal, stopped, graceful, inputs, used, results>>
        /\ check' = [check EXCEPT ![c].pc = IF c = "startup" THEN "over" ELSE "idle"]
    BY <1>9, WarmEndsStep
  <2>2. AnswersCurrent'
    BY <2>1 DEF AnswersCurrent
  <2>3. check' \in [Checks -> [pc : {"idle", "job", "warm", "over"}, canceled : BOOLEAN]]
    BY <2>1 DEF TypeOK
  <2> QED
    BY <2>1, <2>2, <2>3 DEF TypeOK
<1>10. ASSUME Signal \/ ListenerFails \/ Main
       PROVE  TypeOK' /\ AnswersCurrent' /\ results' = results
  BY <1>10, MainSteps DEF TypeOK, AnswersCurrent
<1>11. CASE UNCHANGED vars
  BY <1>1, <1>11 DEF vars, TypeOK, AnswersCurrent
<1>12. ASSUME NEW p \in Procs, Executor(p) \/ TakeTask(p)
       PROVE  TypeOK' /\ Keyed' /\ AnswersCurrent' /\ IsFiniteSet(DOMAIN results') /\ CacheBounded'
  BY <1>1, <1>3, <1>4, <1>5, <1>12 DEF Executor
<1>13. ASSUME NEW h \in Requests,
              (\E models \in SUBSET Models \ {{}} : Request(h, models)) \/ Respond(h)
       PROVE  TypeOK' /\ Keyed' /\ AnswersCurrent' /\ IsFiniteSet(DOMAIN results') /\ CacheBounded'
  BY <1>1, <1>6, <1>13
<1>14. ASSUME NEW c \in Checks, StartCheck(c) \/ Check(c)
       PROVE  TypeOK' /\ Keyed' /\ AnswersCurrent' /\ IsFiniteSet(DOMAIN results') /\ CacheBounded'
  BY <1>1, <1>7, <1>8, <1>9, <1>14 DEF Check
<1>15. CASE CancelCheckNow \/ Quit
  <2>1. "now" \in Checks
    BY DEF Checks
  <2> QED
    BY <1>1, <1>7, <1>15, <2>1
<1>16. CASE Signal \/ ListenerFails \/ Main
  BY <1>1, <1>10, <1>16
<1> QED
  BY <1>1, <1>11, <1>12, <1>13, <1>14, <1>15, <1>16 DEF Next

-----------------------------------------------------------------------------
(* Who may be running a call when: only a warming check has calls, and     *)
(* after a graceful shutdown no request has one.                           *)
LEMMA OwnersStep ==
    TypeOK /\ AnswersCurrent /\ Keyed /\ Warming /\ Lifecycle /\ [Next]_vars
    => Warming' /\ Lifecycle'
<1> SUFFICES ASSUME TypeOK, AnswersCurrent, Keyed, Warming, Lifecycle, [Next]_vars
             PROVE  Warming' /\ Lifecycle'
  OBVIOUS
<1>1. /\ "loop" \in Checks /\ "now" \in Checks /\ "http" \notin Checks
      /\ \A c \in Checks, m \in Models : <<c, m>> \in Procs /\ <<c, m>> \notin Requests
  BY Facts DEF Checks, Warmers, Requests
<1>2. ASSUME NEW p \in Procs, proc[p].pc # "off", proc' = [proc EXCEPT ![p] = proc'[p]],
             check' = check, main' = main, graceful' = graceful
      PROVE  Warming' /\ Lifecycle'
  <2>1. Warming'
    BY <1>1, <1>2 DEF Warming, TypeOK
  <2>2. Answered => Answered'
    BY <1>2, Facts DEF Answered, TypeOK
  <2> QED
    BY <1>2, <2>1, <2>2 DEF Lifecycle
<1>3. ASSUME NEW p \in Procs, Executor(p) \/ TakeTask(p)
      PROVE  Warming' /\ Lifecycle'
  <2>1. Same(p) /\ proc[p].pc # "off"
    BY <1>3, SimpleStep, LookupStep, RunStep DEF Executor
  <2> QED
    BY <1>2, <2>1 DEF Same
<1>4. ASSUME NEW h \in Requests, NEW models \in SUBSET Models, Request(h, models) \/ Respond(h)
      PROVE  Warming' /\ Lifecycle'
  <2>1. /\ \A p \in Procs \ {h} : proc'[p] = proc[p]
        /\ UNCHANGED <<main, graceful, check>>
        /\ proc[h].pc \in {"off", "done", "failed"}
    BY <1>4, RequestStep
  <2>2. Warming'
    BY <1>1, <2>1 DEF Warming
  <2>3. main \in {"wait", "closed"} /\ Answered => Answered'
    <3>1. main \in {"wait", "closed"} => Respond(h)
      BY <1>4 DEF Request, Accepting
    <3>2. Respond(h) => ~Answered
      BY DEF Respond, Answered
    <3> QED
      BY <3>1, <3>2
  <2> QED
    BY <2>1, <2>2, <2>3 DEF Lifecycle
<1>5. ASSUME NEW c \in Checks, StartCheck(c) \/ JobEnds(c) \/ CancelCheckNow \/ Quit
      PROVE  Warming' /\ Lifecycle'
  <2>1. /\ UNCHANGED <<main, graceful, proc>>
        /\ \A d \in Checks : check'[d].pc # check[d].pc =>
              check[d].pc \in {"idle", "job"} /\ check'[d].pc # "warm"
    BY <1>5, CheckStep
  <2>2. Warming'
    BY <2>1 DEF Warming
  <2>3. check["loop"].pc = "over" => check'["loop"].pc = "over"
    BY <1>1, <2>1
  <2> QED
    BY <2>1, <2>2, <2>3 DEF Lifecycle, Answered
<1>6. ASSUME NEW c \in Checks, NEW pc, UNCHANGED <<main, graceful>>,
             check[c].pc # "over", check' = [check EXCEPT ![c].pc = pc],
             \A p \in Procs \ ({c} \X Models) : proc'[p] = proc[p],
             pc # "warm" => \A m \in Models : proc'[<<c, m>>].pc = "off"
      PROVE  Warming' /\ Lifecycle'
  <2>1. ASSUME NEW d \in Checks, NEW m \in Models, check'[d].pc # "warm"
        PROVE  proc'[<<d, m>>].pc = "off"
    <3>1. CASE d = c
      BY <1>6, <2>1, <3>1 DEF TypeOK
    <3>2. CASE d # c
      <4>1. <<d, m>> \in Procs \ ({c} \X Models)
        BY <1>1, <3>2
      <4>2. check'[d] = check[d]
        BY <1>6, <3>2 DEF TypeOK
      <4> QED
        BY <1>6, <2>1, <4>1, <4>2 DEF Warming
    <3> QED
      BY <3>1, <3>2
  <2>2. \A h \in Requests : proc'[h] = proc[h]
    BY <1>1, <1>6, Facts
  <2>3. check["loop"].pc = "over" => check'["loop"].pc = "over"
    BY <1>1, <1>6 DEF TypeOK
  <2> QED
    BY <1>6, <2>1, <2>2, <2>3 DEF Warming, Lifecycle, Answered
<1>7. ASSUME NEW c \in Checks, JobChanges(c) PROVE Warming' /\ Lifecycle'
  <2>1. /\ UNCHANGED <<main, graceful>>
        /\ check[c].pc # "over" /\ check' = [check EXCEPT ![c].pc = "warm"]
    BY <1>7, JobChangesStep
  <2>2. \A p \in Procs \ ({c} \X Models) : proc'[p] = proc[p]
    BY <1>7, JobChangesStep, QueueStep
  <2> QED
    BY <1>6, <2>1, <2>2
<1>8. ASSUME NEW c \in Checks, WarmEnds(c) PROVE Warming' /\ Lifecycle'
  <2> DEFINE pc == IF c = "startup" THEN "over" ELSE "idle"
  <2>1. /\ UNCHANGED <<main, graceful>>
        /\ check' = [check EXCEPT ![c].pc = pc]
        /\ \A p \in Procs \ ({c} \X Models) : proc'[p] = proc[p]
        /\ \A m \in Models : proc'[<<c, m>>].pc = "off"
    BY <1>8, WarmEndsStep
  <2>2. check[c].pc # "over"
    BY <1>8 DEF WarmEnds
  <2> HIDE DEF pc
  <2> QED
    BY <1>6, <2>1, <2>2
<1>9. CASE Signal \/ ListenerFails \/ Main
  <2>1. /\ UNCHANGED <<check, proc>>
        /\ main' = "closed" => main = "closed" \/ LoopOver
        /\ main' = "wait" /\ graceful' => Answered \/ (main = "wait" /\ graceful)
        /\ main' = "closed" /\ graceful' => main \in {"wait", "closed"} /\ graceful
    BY <1>9, MainSteps
  <2> QED
    BY <2>1 DEF Warming, Lifecycle, Answered, LoopOver
<1>10. CASE UNCHANGED vars
  BY <1>10 DEF vars, Warming, Lifecycle, Answered
<1> QED
  BY <1>1, <1>3, <1>4, <1>5, <1>7, <1>8, <1>9, <1>10 DEF Next, Check

-----------------------------------------------------------------------------
(* The slots.                                                              *)
LEMMA SlotsStep ==
    TypeOK /\ AnswersCurrent /\ Keyed /\ Warming /\ SlotsReturned /\ [Next]_vars
    => SlotsReturned'
<1> SUFFICES ASSUME TypeOK, AnswersCurrent, Keyed, Warming, SlotsReturned, [Next]_vars
             PROVE  SlotsReturned'
  OBVIOUS
<1>1. IsFiniteSet(Running) /\ Cardinality(Running) \in Nat
  BY Facts, FS_Subset, FS_CardinalityType DEF Running
<1>2. used = Cardinality(Running) /\ used <= Slots /\ used \in Nat
  BY DEF SlotsReturned, Running, TypeOK
<1>3. ASSUME \A p \in Procs : proc'[p].pc = "run" <=> proc[p].pc = "run", used' = used
      PROVE  SlotsReturned'
  BY <1>3 DEF SlotsReturned
<1>4. ASSUME NEW p \in Procs, Same(p), proc[p].pc = "run", proc'[p].pc # "run", used' = used - 1
      PROVE  SlotsReturned'
  <2>1. Running' = Running \ {p} /\ p \in Running
    BY <1>4 DEF Running, Same, TypeOK
  <2>2. Cardinality(Running') = used - 1
    BY <1>1, <1>2, <2>1, FS_RemoveElement
  <2> QED
    BY <1>2, <1>4, <2>2, Facts DEF SlotsReturned, Running
<1>5. ASSUME NEW p \in Procs, Acquire(p) PROVE SlotsReturned'
  <2>1. Same(p)
    BY <1>5, SimpleStep
  <2>2. used < Slots /\ used' = used + 1 /\ proc[p].pc = "acquire" /\ proc'[p].pc = "run"
    BY <1>5 DEF Acquire, TypeOK
  <2>3. Running' = Running \cup {p} /\ p \notin Running
    BY <2>1, <2>2 DEF Running, Same, TypeOK
  <2>4. Cardinality(Running') = used + 1
    BY <1>1, <1>2, <2>3, FS_AddElement
  <2> QED
    BY <1>2, <2>2, <2>4, Facts DEF SlotsReturned, Running
<1>6. ASSUME NEW p \in Procs, RunFails(p) PROVE SlotsReturned'
  <2>1. proc[p].pc = "run" /\ proc'[p].pc = "failed" /\ used' = used - 1
    BY <1>6 DEF RunFails, Fail, TypeOK
  <2> QED
    BY <1>4, <1>6, <2>1, SimpleStep
<1>7. ASSUME NEW p \in Procs, NEW m \in Models, Run(p, m) PROVE SlotsReturned'
  <2>1. /\ Same(p) /\ proc[p].pc = "run"
        /\ \/ proc'[p].pc = "run" /\ used' = used
           \/ proc'[p].pc = "done" /\ used' = used - 1
    BY <1>7, RunStep
  <2>2. CASE proc'[p].pc = "run" /\ used' = used
    BY <1>3, <2>1, <2>2 DEF Same, TypeOK
  <2>3. CASE proc'[p].pc = "done" /\ used' = used - 1
    BY <1>4, <2>1, <2>3
  <2> QED
    BY <2>1, <2>2, <2>3
<1>8. ASSUME NEW p \in Procs, Lookup(p) \/ Overloaded(p) \/ TakeTask(p) PROVE SlotsReturned'
  <2>1. Same(p) /\ used' = used /\ proc[p].pc # "run" /\ proc'[p].pc # "run"
    <3>1. CASE Lookup(p)
      BY <3>1, LookupStep
    <3>2. CASE Overloaded(p)
      <4>1. Same(p)
        BY <3>2, SimpleStep
      <4>2. used' = used /\ proc[p].pc # "run" /\ proc'[p].pc # "run"
        BY <3>2 DEF Overloaded, Fail, TypeOK, Call
      <4> QED
        BY <4>1, <4>2
    <3>3. CASE TakeTask(p)
      <4>1. Same(p)
        BY <3>3, SimpleStep
      <4>2. used' = used /\ proc[p].pc # "run" /\ proc'[p].pc # "run"
        BY <3>3 DEF TakeTask, TypeOK, Call
      <4> QED
        BY <4>1, <4>2
    <3> QED
      BY <1>8, <3>1, <3>2, <3>3
  <2> QED
    BY <1>3, <2>1 DEF Same, TypeOK
<1>9. ASSUME NEW h \in Requests, NEW models \in SUBSET Models, Request(h, models) \/ Respond(h)
      PROVE  SlotsReturned'
  BY <1>3, <1>9, RequestStep
<1>10. ASSUME NEW c \in Checks, StartCheck(c) \/ JobEnds(c) \/ CancelCheckNow \/ Quit
       PROVE  SlotsReturned'
  BY <1>3, <1>10, CheckStep
<1>11. ASSUME NEW c \in Checks, \A p \in Procs \ ({c} \X Models) : proc'[p] = proc[p],
              \A m \in Models : proc[<<c, m>>].pc # "run" /\ proc'[<<c, m>>].pc # "run",
              used' = used
       PROVE  SlotsReturned'
  <2>1. ASSUME NEW p \in Procs PROVE proc'[p].pc = "run" <=> proc[p].pc = "run"
    <3>1. CASE p \in {c} \X Models
      <4>1. PICK m \in Models : p = <<c, m>>
        BY <3>1
      <4> QED
        BY <1>11, <4>1
    <3>2. CASE p \notin {c} \X Models
      BY <1>11, <3>2
    <3> QED
      BY <3>1, <3>2
  <2> QED
    BY <1>3, <1>11, <2>1
<1>12. ASSUME NEW c \in Checks, JobChanges(c) PROVE SlotsReturned'
  <2>1. /\ \A p \in Procs \ ({c} \X Models) : proc'[p] = proc[p]
        /\ \A m \in Models : proc'[<<c, m>>].pc = "queued"
        /\ used' = used /\ check[c].pc = "job"
    BY <1>12, JobChangesStep, QueueStep
  <2>2. \A m \in Models : proc[<<c, m>>].pc # "run"
    BY <2>1 DEF Warming
  <2> QED
    BY <1>11, <2>1, <2>2
<1>13. ASSUME NEW c \in Checks, WarmEnds(c) PROVE SlotsReturned'
  BY <1>11, <1>13, WarmEndsStep
<1>14. CASE Signal \/ ListenerFails \/ Main
  BY <1>3, <1>14, MainSteps
<1>15. CASE UNCHANGED vars
  BY <1>3, <1>15 DEF vars
<1>16. "now" \in Checks
  BY DEF Checks
<1> QED
  BY <1>5, <1>6, <1>7, <1>8, <1>9, <1>10, <1>12, <1>13, <1>14, <1>15, <1>16
  DEF Next, Executor, Check

-----------------------------------------------------------------------------
LEMMA InitInvariant == Init => ServerInvariant
<1> SUFFICES ASSUME Init PROVE ServerInvariant
  OBVIOUS
<1>1. ASSUME NEW p \in Procs
      PROVE  /\ proc[p] \in Call /\ proc[p].pc # "run" /\ DOMAIN proc[p].got = {}
             /\ p \notin {"startup"} \X Models => proc[p].pc = "off"
  <2>1. CASE p \in {"startup"} \X Models
    <3>1. proc[p] = [Off EXCEPT !.pc = "queued", !.todo = {p[2]}] /\ p[2] \in Models
      BY <2>1 DEF Init
    <3>2. [Off EXCEPT !.pc = "queued", !.todo = {p[2]}] \in Call
      BY <3>1, OffType DEF Call
    <3>3. /\ [Off EXCEPT !.pc = "queued", !.todo = {p[2]}].got = Off.got
          /\ [Off EXCEPT !.pc = "queued", !.todo = {p[2]}].pc = "queued"
      BY OffType DEF Call
    <3> QED
      BY <2>1, <3>1, <3>2, <3>3, OffType
  <2>2. CASE p \notin {"startup"} \X Models
    BY <2>2, OffType DEF Init
  <2> QED
    BY <2>1, <2>2
<1>2. results \in Stored /\ DOMAIN results = {}
  <2>1. results = [k \in {} |-> inputs] /\ inputs \in Version
    BY DEF Init, Version
  <2>2. results \in [{} -> Version] /\ {} \in SUBSET (Models \X Version)
    BY <2>1
  <2> QED
    BY <2>1, <2>2 DEF Stored
<1>3. proc \in [Procs -> Call]
  BY <1>1 DEF Init
<1>4. TypeOK
  BY <1>2, <1>3 DEF TypeOK, Init, Version
<1>5. Keyed /\ AnswersCurrent
  BY <1>1, <1>2 DEF Keyed, AnswersCurrent
<1>6. Warming
  <2> SUFFICES ASSUME NEW c \in Checks, NEW m \in Models, check[c].pc # "warm"
               PROVE  proc[<<c, m>>].pc = "off"
    BY DEF Warming
  <2>1. c # "startup"
    BY DEF Init
  <2>2. <<c, m>> \in Procs /\ <<c, m>> \notin {"startup"} \X Models
    BY <2>1, Facts DEF Warmers
  <2> QED
    BY <1>1, <2>2
<1>7. Lifecycle
  BY DEF Init, Lifecycle
<1>8. SlotsReturned
  <2>1. {p \in Procs : proc[p].pc = "run"} = {}
    BY <1>1
  <2>2. Cardinality({p \in Procs : proc[p].pc = "run"}) = 0
    BY <2>1, FS_EmptySet
  <2>3. used = 0
    BY DEF Init
  <2> QED
    BY <2>2, <2>3, Facts DEF SlotsReturned
<1>9. IsFiniteSet(DOMAIN results) /\ CacheBounded
  BY <1>2, FS_EmptySet, Facts DEF CacheBounded
<1> QED
  BY <1>4, <1>5, <1>6, <1>7, <1>8, <1>9 DEF ServerInvariant

LEMMA ServerInvariantHolds == Spec => []ServerInvariant
<1>1. ServerInvariant /\ [Next]_vars => ServerInvariant'
  BY TypeStep, OwnersStep, SlotsStep DEF ServerInvariant
<1> QED
  BY <1>1, InitInvariant, PTL DEF Spec

(* Calls, checks and the result cache are well formed in every reachable   *)
(* state.                                                                  *)
THEOREM ServerTypeCorrect == Spec => []TypeOK
<1>1. ServerInvariant => TypeOK
  BY DEF ServerInvariant
<1> QED
  BY <1>1, ServerInvariantHolds, PTL

(* No call is ever answered with a simulation of other inputs than those   *)
(* it read, whatever runs, fails and is evicted beside it.                 *)
THEOREM AnswersCorrect == Spec => []AnswersCurrent
<1>1. ServerInvariant => AnswersCurrent
  BY DEF ServerInvariant
<1> QED
  BY <1>1, ServerInvariantHolds, PTL

(* The slots taken are those of the running simulations, and the cache     *)
(* keeps to its capacity.                                                  *)
THEOREM ExecutorCorrect == Spec => []ExecutorBounded
<1>1. ServerInvariant => ExecutorBounded
  BY DEF ServerInvariant, ExecutorBounded
<1> QED
  BY <1>1, ServerInvariantHolds, PTL

(* Nothing of the scheduler is left when the database is closed, and after *)
(* a graceful shutdown no request either.                                  *)
THEOREM CloseCorrect == Spec => []ClosedQuiet
<1>1. ServerInvariant => ClosedQuiet
  <2> SUFFICES ASSUME ServerInvariant, main = "closed" PROVE ClosedQuiet
    BY DEF ClosedQuiet, Closed
  <2>1. check["loop"].pc = "over" /\ (graceful => Answered)
    BY DEF ServerInvariant, Lifecycle
  <2>2. \A m \in Models : proc[<<"loop", m>>].pc = "off"
    BY <2>1 DEF ServerInvariant, Warming, Checks
  <2> QED
    BY <2>1, <2>2 DEF ClosedQuiet
<1> QED
  BY <1>1, ServerInvariantHolds, PTL
=============================================================================
