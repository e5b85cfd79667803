-------------------------- MODULE MCTaskOrchestrator ------------------------
(***************************************************************************)
(* Instances of TaskOrchestrator for TLC: OathNet modules and others, more *)
(* of each than their slots.                                               *)
(***************************************************************************)
EXTENDS TaskOrchestrator

CONSTANTS o1, o2, m1, m2

=============================================================================
