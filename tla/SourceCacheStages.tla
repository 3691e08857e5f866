------------------------- MODULE SourceCacheStages -------------------------
(***************************************************************************)
(* Two stages with different rules over one set of tables, for one run: a  *)
(* cup whose inventory has a verified expectation and whose catalog comes  *)
(* in two batches, and an active bracket of two slots that starts with no  *)
(* match. A behaviour is of the one stage or of the other.                 *)
(***************************************************************************)
EXTENDS SourceCacheMC

VARIABLE stage

Bracket == INSTANCE SourceCache
             WITH Pairs <- OnePair, TeamBatches <- AllTeams, Expected <- Absent, BracketSlots <- 2

StagesInit == Init /\ stage \in {"cup", "bracket"}

StagesNext ==
    /\ \/ stage = "cup" /\ Next
       \/ stage = "bracket" /\ Bracket!Next
    /\ UNCHANGED stage

StagesSpec == StagesInit /\ [][StagesNext]_<<stage, vars>>

-----------------------------------------------------------------------------
(* What the cup stores always meets its expectation, although an accepted  *)
(* response is merged row by row with rows that are refused.               *)
CupComplete == stage = "cup" => InventoryComplete

(* While the bracket lacks matches, a run that changed its fixtures leaves *)
(* full discovery due at once, and only a later success ends that.         *)
BracketWoken == [][stage = "bracket" => Bracket!Revisited]_<<stage, vars>>
=============================================================================
