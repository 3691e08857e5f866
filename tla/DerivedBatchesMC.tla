-------------------------- MODULE DerivedBatchesMC --------------------------
(***************************************************************************)
(* Small instances of DerivedBatches for TLC.                              *)
(***************************************************************************)
EXTENDS DerivedBatches, TLC

CONSTANTS p1, p2

Together == [c \in Callers |-> p1]
Apart    == [c \in Callers |-> IF c = CHOOSE d \in Callers : TRUE THEN p1 ELSE p2]

Symmetric == Permutations(Callers)
=============================================================================
