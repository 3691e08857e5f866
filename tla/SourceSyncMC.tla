---------------------------- MODULE SourceSyncMC ----------------------------
(***************************************************************************)
(* Instance of SourceScopes and SourceSync, the two parts of a process     *)
(* that synchronises.  They share no variable: a process seeds the         *)
(* registry before it does anything else, so each is explored with the     *)
(* other at rest.                                                          *)
(***************************************************************************)
EXTENDS SourceScopes, SourceSync, TLC

CONSTANTS m1, m2, t1, t2, t3

(* The second match brings a third team. *)
MCSides == m1 :> {t1, t2} @@ m2 :> {t1, t3}
MCCatalogs == {{t1, t2}, {t1, t2, t3}}
MCInventories ==
    {<< >>, m1 :> "PreMatch", m1 :> "FullTime", m1 :> "FullTime" @@ m2 :> "FullTime"}

(* Rows that disagree, and good ones within and above the xG of 1.         *)
MCPenaltyRows ==
    {[count |-> 2, mirrored |-> FALSE, xg |-> 0]}
    \cup [count : {2}, mirrored : {TRUE}, xg : {1, 2}]

Public == {Scope(2024, "Regular Season"), Scope(2025, "Regular Season"),
           Scope(2024, "Playoffs"), Scope(0, "Regular Season")}
Nameable == {Scope(2024, "Regular Season"), Scope(2027, "Cup"), Scope(2025, "Cup")}
Held == {Scope(2024, "Cup"), Scope(2023, "Regular Season"), Scope(0, "Cup"),
         Scope(2024, "Playoffs")}

Init == ScopesInit /\ SyncInit

Next ==
    \/ ScopesNext /\ runs = 0 /\ UNCHANGED syncVars
    \/ SyncNext /\ seeded.year = 0 /\ DOMAIN scopes = {} /\ UNCHANGED scopeVars

Spec == Init /\ [][Next]_<<scopeVars, syncVars>>
=============================================================================
