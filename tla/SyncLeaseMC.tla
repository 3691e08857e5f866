---------------------------- MODULE SyncLeaseMC ----------------------------
(***************************************************************************)
(* Small instances of SyncLease for TLC.                                   *)
(***************************************************************************)
EXTENDS SyncLease, TLC

(* Processes of one kind may be exchanged.                                 *)
Symmetric == Permutations(Schedulers) \cup Permutations(Scopes)
=============================================================================
