----------------------------- MODULE MCIndexPage -----------------------------
(* index.html: its search, the victims of a result, the file viewer.  They     *)
(* share no state that the modules tell apart, so that each is explored by     *)
(* itself, the others at rest.                                                 *)
EXTENDS LegacyPage, VictimBrowser

VARIABLE scene

MCSearches == 1 .. 2

MCResults == 1 .. 2

IndexInit == LegacyInit /\ VictimsInit /\ scene \in {"search", "victims", "files"}

IndexNext ==
  /\ UNCHANGED scene
  /\ \/ scene = "search" /\ LegacyNext /\ UNCHANGED victimVars
     \/ scene = "victims" /\ ListNext /\ UNCHANGED legacyVars
     \/ scene = "files" /\ ViewerNext /\ UNCHANGED legacyVars

IndexSpec ==
  IndexInit /\ [][IndexNext]_<<scene, legacyVars, victimVars>> /\ LegacyFairness

=============================================================================
