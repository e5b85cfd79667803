---------------------------- MODULE JobLifecycle ----------------------------
(***************************************************************************)
(* What a v2 search job promises to whoever watches it, without database,  *)
(* task or process: it moves through its phases in one direction, its      *)
(* events are published one by one, "done" means that everything but the   *)
(* closing event has been published, and nothing is published about a job  *)
(* that failed or is gone.                                                 *)
(***************************************************************************)
EXTENDS Integers

CONSTANTS
  Jobs,
  Length        \* the number of events of a job that completes

VARIABLES
  phase,        \* of every job
  published     \* how many of its events are published

vars == <<phase, published>>

Init ==
  /\ phase = [j \in Jobs |-> "none"]
  /\ published = [j \in Jobs |-> 0]

Move(j, from, to) == phase[j] \in from /\ phase' = [phase EXCEPT ![j] = to]

Create(j) == Move(j, {"none"}, "queued") /\ UNCHANGED published

Start(j) == Move(j, {"queued"}, "running") /\ UNCHANGED published

Publish(j) ==
  /\ \/ phase[j] = "running" /\ published[j] < Length - 1
     \/ phase[j] = "done" /\ published[j] = Length - 1
  /\ published' = [published EXCEPT ![j] = @ + 1]
  /\ UNCHANGED phase

Finish(j) ==
  /\ published[j] = Length - 1
  /\ Move(j, {"running"}, "done")
  /\ UNCHANGED published

Fail(j) == Move(j, {"queued", "running"}, "failed") /\ UNCHANGED published

\* Retention takes whole jobs, several at once.
Forget(gone) ==
  /\ gone # {}
  /\ \A j \in gone : phase[j] \notin {"none", "gone"}
  /\ phase' = [j \in Jobs |-> IF j \in gone THEN "gone" ELSE phase[j]]
  /\ published' = [j \in Jobs |-> IF j \in gone THEN 0 ELSE published[j]]

Next ==
  \/ \E j \in Jobs : Create(j) \/ Start(j) \/ Publish(j) \/ Finish(j) \/ Fail(j)
  \/ \E gone \in SUBSET Jobs : Forget(gone)

Spec == Init /\ [][Next]_vars
=============================================================================
