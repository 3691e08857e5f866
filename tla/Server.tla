------------------------------- MODULE Server -------------------------------
(***************************************************************************)
(* One server process: run of src/cmd/server/main.go, the composition of   *)
(* src/internal/server, the checks of the scheduler with the contexts of   *)
(* src/internal/lifetime beneath them, and the forecast executor that HTTP *)
(* requests and forecast warming share.  What a check requests is in       *)
(* Scheduler; here it may change the forecast inputs and then warms.       *)
(***************************************************************************)
EXTENDS Integers, FiniteSets

CONSTANTS
    Models,      \* forecast models
    Handlers,    \* concurrent HTTP requests
    Slots,       \* ForecastConcurrency
    Capacity,    \* forecastResultCacheCapacity
    MaxInputs    \* bound: changes of the cached fixtures and xG

VARIABLES
    main,        \* run: "build", "serving", "shutdown", "wait", "closed"
    signal,      \* SIGTERM was delivered
    stopped,     \* scheduler.Stop was called
    graceful,    \* the HTTP shutdown waited for every request
    inputs,      \* versions of the cached fixtures and xG
    check,       \* the loop's check and CheckNow: [pc, canceled]
    proc,        \* calls of forecastExecutor.results
    used,        \* slots taken
    results      \* result cache: key -> inputs the result was simulated from

vars == <<main, signal, stopped, graceful, inputs, check, proc, used, results>>

Checks == {"startup", "loop", "now"}         \* startup: warming inside Build
Warmers == Checks \X Models                   \* one call for each model
Requests == {"http"} \X Handlers
Procs == Requests \cup Warmers

ASSUME ServerAssumption ==
    /\ Slots \in Nat \ {0} /\ Capacity \in Nat \ {0} /\ MaxInputs \in Nat
    /\ IsFiniteSet(Models) /\ IsFiniteSet(Handlers)

Off == [pc |-> "off", read |-> [fixtures |-> 0, xg |-> 0], todo |-> {}, got |-> [m \in {} |-> 0]]

Init ==
    /\ main = "build" /\ signal = FALSE /\ stopped = FALSE /\ graceful = TRUE
    /\ inputs = [fixtures |-> 0, xg |-> 0]
    /\ check = [c \in Checks |-> [pc |-> IF c = "startup" THEN "warm" ELSE "idle",
                                  canceled |-> FALSE]]
    /\ proc = [p \in Procs |-> IF p \in {"startup"} \X Models
                               THEN [Off EXCEPT !.pc = "queued", !.todo = {p[2]}] ELSE Off]
    /\ used = 0
    /\ results = [k \in {} |-> inputs]

-----------------------------------------------------------------------------
(* The forecast executor.                                                  *)

(* forecastResultKey covers every input of a simulation.                   *)
KeyWithoutXG(m, in) == <<m, in.fixtures>>             \* slip: xG refreshed on its own
Key(m, in) == <<m, in>>

(* The context a call runs under: the check it is detached beneath, the    *)
(* process signal while building, or its own request.                      *)
Ended(p) ==
    /\ p \in Warmers
    /\ IF p[1] = "startup" THEN signal ELSE stopped \/ check[p[1]].canceled

Elsewhere == UNCHANGED <<main, signal, stopped, graceful, inputs, check>>

Return(p) == proc' = [proc EXCEPT ![p].pc = "done"]
Fail(p) == proc' = [proc EXCEPT ![p].pc = "failed"]

Lookup(p) ==
    LET hits == {m \in proc[p].todo : Key(m, proc[p].read) \in DOMAIN results} IN
    /\ proc[p].pc = "lookup"
    /\ proc' = [proc EXCEPT
          ![p].todo = @ \ hits,
          ![p].got = [m \in hits |-> results[Key(m, proc[p].read)]],
          ![p].pc = IF hits = proc[p].todo THEN "done" ELSE "acquire"]
    /\ Elsewhere /\ UNCHANGED <<used, results>>

Acquire(p) ==
    /\ proc[p].pc = "acquire" /\ ~Ended(p) /\ used < Slots
    /\ used' = used + 1
    /\ proc' = [proc EXCEPT ![p].pc = "run"]
    /\ Elsewhere /\ UNCHANGED results

Overloaded(p) ==
    /\ proc[p].pc = "acquire" /\ (Ended(p) \/ used >= Slots)
    /\ Fail(p)
    /\ Elsewhere /\ UNCHANGED <<used, results>>

(* A full cache gives up one entry, whichever, also for a key it holds.    *)
Inserted(key, value) ==
    LET kept == IF Cardinality(DOMAIN results) < Capacity THEN {DOMAIN results}
                ELSE {DOMAIN results \ {k} : k \in DOMAIN results}
    IN {[k \in keys \cup {key} |-> IF k = key THEN value ELSE results[k]] : keys \in kept}

Run(p, m) ==
    /\ proc[p].pc = "run" /\ m \in proc[p].todo /\ ~Ended(p)
    /\ results' \in Inserted(Key(m, proc[p].read), proc[p].read)
    /\ LET last == proc[p].todo = {m} IN
       /\ proc' = [proc EXCEPT
             ![p].todo = @ \ {m},
             ![p].got = [n \in DOMAIN @ \cup {m} |-> IF n = m THEN proc[p].read ELSE @[n]],
             ![p].pc = IF last THEN "done" ELSE "run"]
       /\ used' = IF last THEN used - 1 ELSE used
    /\ Elsewhere

(* A simulation fails, times out or is interrupted; what it had finished   *)
(* stays cached.                                                           *)
RunFailsKeeping(p) ==                                 \* slip: an error path keeps the slot
    /\ proc[p].pc = "run" /\ Fail(p)
    /\ Elsewhere /\ UNCHANGED <<used, results>>

RunFails(p) ==
    /\ proc[p].pc = "run" /\ Fail(p)
    /\ used' = used - 1
    /\ Elsewhere /\ UNCHANGED results

-----------------------------------------------------------------------------
(* HTTP requests.                                                          *)

Accepting == main = "serving"
Closed == main = "closed"

Request(h, models) ==
    /\ Accepting /\ proc[h].pc = "off"
    /\ proc' = [proc EXCEPT ![h] = [Off EXCEPT !.pc = "lookup", !.read = inputs, !.todo = models]]
    /\ Elsewhere /\ UNCHANGED <<used, results>>

Respond(h) ==
    /\ proc[h].pc \in {"done", "failed"}
    /\ proc' = [proc EXCEPT ![h] = Off]
    /\ Elsewhere /\ UNCHANGED <<used, results>>

-----------------------------------------------------------------------------
(* Checks: a source job, then warming of every model if it changed an      *)
(* input.  No more workers than slots take tasks.                          *)

CheckEnded(c) == stopped \/ check[c].canceled
Rest == UNCHANGED <<main, signal, stopped, graceful, used, results>>

StartCheckAnyway(c) ==                    \* slip: a pending tick taken after Stop
    /\ c # "startup" /\ main # "build" /\ ~Closed /\ check[c].pc = "idle"
    /\ check' = [check EXCEPT ![c] = [pc |-> "job", canceled |-> FALSE]]
    /\ Rest /\ UNCHANGED <<inputs, proc>>

StartCheck(c) ==
    /\ c # "startup" /\ main # "build" /\ ~Closed /\ ~stopped
    /\ c = "now" => main = "serving"
    /\ check[c].pc = "idle"
    /\ check' = [check EXCEPT ![c] = [pc |-> "job", canceled |-> FALSE]]
    /\ Rest /\ UNCHANGED <<inputs, proc>>

Queue(c, in) ==
    proc' = [p \in Procs |-> IF p \in {c} \X Models
                             THEN [Off EXCEPT !.pc = "queued", !.read = in, !.todo = {p[2]}]
                             ELSE proc[p]]

(* The job commits a change of fixtures or of xG; warming reads the cache. *)
JobChanges(c) ==
    /\ check[c].pc = "job" /\ ~CheckEnded(c)
    /\ \E field \in {"fixtures", "xg"} :
          /\ inputs.fixtures + inputs.xg < MaxInputs
          /\ inputs' = [inputs EXCEPT ![field] = @ + 1]
    /\ check' = [check EXCEPT ![c].pc = "warm"]
    /\ Queue(c, inputs')
    /\ Rest

(* Nothing changed, or the request failed or was interrupted.              *)
JobEnds(c) ==
    /\ check[c].pc = "job"
    /\ check' = [check EXCEPT ![c].pc = "idle"]
    /\ Rest /\ UNCHANGED <<inputs, proc>>

Working(c) == {p \in {c} \X Models : proc[p].pc \in {"lookup", "acquire", "run"}}

TakeTask(p) ==
    /\ p \in Warmers /\ proc[p].pc = "queued"
    /\ Cardinality(Working(p[1])) < Slots
    /\ proc' = [proc EXCEPT ![p].pc = "lookup"]
    /\ Elsewhere /\ UNCHANGED <<used, results>>

WarmEnds(c) ==
    /\ check[c].pc = "warm"
    /\ \A m \in Models : proc[<<c, m>>].pc \in {"done", "failed"}
    /\ check' = [check EXCEPT ![c].pc = IF c = "startup" THEN "over" ELSE "idle"]
    /\ proc' = [p \in Procs |-> IF p \in {c} \X Models THEN Off ELSE proc[p]]
    /\ Rest /\ UNCHANGED inputs

(* The caller of CheckNow gives up; the scheduler runs on.                 *)
CancelCheckNow ==
    /\ check["now"].pc # "idle" /\ ~check["now"].canceled
    /\ check' = [check EXCEPT !["now"].canceled = TRUE]
    /\ Rest /\ UNCHANGED <<inputs, proc>>

(* The loop returns once it sees its context ended.                        *)
Quit ==
    /\ stopped /\ check["loop"].pc = "idle"
    /\ check' = [check EXCEPT !["loop"].pc = "over"]
    /\ Rest /\ UNCHANGED <<inputs, proc>>

-----------------------------------------------------------------------------
(* run.                                                                    *)

Signal ==
    /\ ~signal /\ ~Closed
    /\ signal' = TRUE
    /\ UNCHANGED <<main, stopped, graceful, inputs, check, proc, used, results>>

MainStep == UNCHANGED <<signal, inputs, check, proc, used, results>>

Serve ==                                   \* Build returns, the listener starts
    /\ main = "build" /\ check["startup"].pc = "over"
    /\ main' = "serving"
    /\ MainStep /\ UNCHANGED <<stopped, graceful>>

Shutdown ==
    /\ main = "serving" /\ signal
    /\ main' = "shutdown" /\ stopped' = TRUE
    /\ MainStep /\ UNCHANGED graceful

(* The listener fails: no request is waited for.                           *)
ListenerFails ==
    /\ main = "serving"
    /\ main' = "wait" /\ stopped' = TRUE /\ graceful' = FALSE
    /\ MainStep

Answered == \A h \in Requests : proc[h].pc = "off"

HTTPShutdown ==
    /\ main = "shutdown" /\ Answered
    /\ main' = "wait"
    /\ MainStep /\ UNCHANGED <<stopped, graceful>>

HTTPShutdownTimesOut ==
    /\ main = "shutdown" /\ ~Answered
    /\ main' = "wait" /\ graceful' = FALSE
    /\ MainStep /\ UNCHANGED stopped

WaitSkipped == main = "wait"                          \* slip: Close without Wait
LoopOver == main = "wait" /\ check["loop"].pc = "over"

Close ==
    /\ LoopOver
    /\ main' = "closed"
    /\ MainStep /\ UNCHANGED <<stopped, graceful>>

-----------------------------------------------------------------------------
Executor(p) == Lookup(p) \/ Acquire(p) \/ Overloaded(p) \/ (\E m \in Models : Run(p, m)) \/ RunFails(p)
Check(c) == JobChanges(c) \/ JobEnds(c) \/ WarmEnds(c)
Main == Serve \/ Shutdown \/ HTTPShutdown \/ HTTPShutdownTimesOut \/ Close

Next ==
    \/ \E p \in Procs : Executor(p) \/ TakeTask(p)
    \/ \E h \in Requests : (\E models \in SUBSET Models \ {{}} : Request(h, models)) \/ Respond(h)
    \/ \E c \in Checks : StartCheck(c) \/ Check(c)
    \/ CancelCheckNow \/ Quit
    \/ Signal \/ ListenerFails \/ Main

(* Every goroutine that can take a step takes one: requests and            *)
(* simulations are bounded by their deadlines.  Nothing obliges a signal,  *)
(* a request or a CheckNow to arrive.                                      *)
Fairness ==
    /\ \A p \in Procs : WF_vars(Executor(p)) /\ WF_vars(TakeTask(p))
    /\ \A h \in Requests : WF_vars(Respond(h))
    /\ \A c \in Checks : WF_vars(Check(c))
    /\ WF_vars(Quit) /\ WF_vars(Main)

Spec == Init /\ [][Next]_vars
FairSpec == Spec /\ Fairness

-----------------------------------------------------------------------------
(* Whatever two calls simulate, insert and evict at the same time, a       *)
(* result served belongs to the inputs its caller read, never to fixtures  *)
(* or xG refreshed before or since.                                        *)
AnswersCurrent ==
    \A p \in Procs : \A m \in DOMAIN proc[p].got : proc[p].got[m] = proc[p].read

(* Every slot taken belongs to a running simulation: no error, timeout or  *)
(* cancellation leaves the process short of one.                           *)
SlotsReturned == used = Cardinality({p \in Procs : proc[p].pc = "run"}) /\ used <= Slots

(* Scenarios a user picks cannot grow the result cache past its capacity.  *)
CacheBounded == Cardinality(DOMAIN results) <= Capacity

(* Neither slots nor cache entries leak, on whatever path a call ends.     *)
ExecutorBounded == SlotsReturned /\ CacheBounded

(* The database is closed only when the scheduler's goroutine is over, so  *)
(* no job or warming reads or writes a closed database; after a graceful   *)
(* HTTP shutdown no request does either.                                   *)
ClosedQuiet ==
    Closed => /\ \A m \in Models : proc[<<"loop", m>>].pc = "off"
              /\ check["loop"].pc \notin {"job", "warm"}
              /\ graceful => Answered

(* A signal ends the process, during a build, a check or a warming.        *)
SignalEnds == signal ~> Closed
=============================================================================
