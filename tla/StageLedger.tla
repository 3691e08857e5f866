---------------------------- MODULE StageLedger ----------------------------
(***************************************************************************)
(* What the cache promises the rest of the program about one season stage, *)
(* apart from how observations are merged: which matches are known and     *)
(* over, for which an xG value is held, and which picture of the stage the *)
(* readers are given.                                                      *)
(*                                                                         *)
(* A full inventory may learn, forget and re-pair matches, but a known     *)
(* match that is over stays over.  A result poll only ends matches.  An    *)
(* xG poll only adds values, and only to matches that are over.  Whoever   *)
(* changes the matches publishes the new picture in the same step.         *)
(***************************************************************************)
CONSTANT Matches

VARIABLES
    phase,     \* "unknown", "open" or "over", per match
    valued,    \* matches with an xG value
    published  \* the phases readers are shown

ledgerVars == <<phase, valued, published>>

Phases == [Matches -> {"unknown", "open", "over"}]

Over == {m \in Matches : phase[m] = "over"}

(* A new database, or one an earlier release leaves behind.                *)
LedgerInit ==
    /\ phase \in Phases
    /\ valued \subseteq Over
    /\ published = phase

NoneReopened == \A m \in Matches : phase[m] = "over" => phase'[m] # "open"

(* A full inventory: any new picture in which nothing over is open again;  *)
(* values are lost with a match or with its pairing, never gained.         *)
Reconcile ==
    /\ phase' \in Phases
    /\ NoneReopened
    /\ valued' \subseteq {m \in valued : phase'[m] # "unknown"}
    /\ published' = phase'

(* A result poll: known matches may end; nothing appears or disappears.    *)
Report ==
    /\ \E ended \in SUBSET {m \in Matches : phase[m] = "open"} :
          phase' = [m \in Matches |-> IF m \in ended THEN "over" ELSE phase[m]]
    /\ published' = phase'
    /\ UNCHANGED valued

(* An xG poll: values only for matches that are over.                      *)
Value ==
    /\ \E new \in SUBSET Over : valued' = valued \cup new
    /\ UNCHANGED <<phase, published>>

LedgerNext == Reconcile \/ Report \/ Value

LedgerSpec == LedgerInit /\ [][LedgerNext]_ledgerVars
=============================================================================
