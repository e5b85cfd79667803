------------------------------ MODULE MCSearchV2 ------------------------------
(***************************************************************************)
(* Instances of SearchV2 for TLC.                                          *)
(***************************************************************************)
EXTENDS SearchV2

CONSTANTS j1, c1, c2

OnePlan == <<c1>>
=============================================================================
