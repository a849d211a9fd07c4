---------------------------- MODULE MCAiCredits ----------------------------
(***************************************************************************)
(* Small instances of AiCredits: two months, plans with one and with two   *)
(* credits, and one failure of each kind.                                  *)
(***************************************************************************)
EXTENDS AiCredits, TLC

OneOfEach == [plans |-> 1, faults |-> 1, crashes |-> 1]
Undisturbed == [plans |-> 0, faults |-> 0, crashes |-> 0]

Symmetry == Permutations(Background) \union Permutations(Manual)
=============================================================================
