--------------------------- MODULE SourceCacheMC ---------------------------
(***************************************************************************)
(* Small instances of SourceCache for TLC.                                 *)
(***************************************************************************)
EXTENDS SourceCache, TLC

CONSTANTS a, b, c, d

TwoPairs  == {<<a, b>>, <<c, b>>}
CupPairs  == {<<a, b>>, <<c, d>>, <<a, c>>}
OnePair   == {<<a, b>>}
AllTeams  == {{a, b, c, d}}
TwoBatches == {{a, b}, {c, d}}
(* Every part of a detail may count.                                      *)
AllGoals  == [k \in Details |-> k]
CupExpected == [games |-> 2, teams |-> 4, perTeam |-> 1]

(* Matches may be exchanged; so may the home sides of TwoPairs.            *)
MatchSymmetry == Permutations(Games)
Symmetric     == MatchSymmetry \cup Permutations({a, c})
=============================================================================
