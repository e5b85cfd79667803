-------------------------- MODULE MCSearchAdmission -------------------------
(***************************************************************************)
(* Instances of SearchAdmission for TLC.                                   *)
(***************************************************************************)
EXTENDS SearchAdmission

CONSTANTS s1, s2, s3, purge

=============================================================================
