--------------------------- MODULE MCSearchWorker ---------------------------
(***************************************************************************)
(* Instances of SearchWorker for TLC.                                      *)
(***************************************************************************)
EXTENDS SearchWorker, TLC

CONSTANTS j1, j2, c1, c2

OnePlan == <<c1>>
TwoPlan == <<c1, c2>>

JobSymmetry == Permutations(Jobs)

=============================================================================
