--------------------------- MODULE SearchAdmission --------------------------
(***************************************************************************)
(* The process-wide TaskOrchestrator as the program uses it: POST          *)
(* /api/search asks its degradation mode, the generator of the response    *)
(* submits a sentinel for the search, the memory watchdog moves mode and   *)
(* ceiling, and the lifespan's shutdown cancels what is left.  Nothing     *)
(* calls results().                                                        *)
(*                                                                         *)
(* A module of the orchestrator is here the sentinel of a search, and      *)
(* Foreign is the purge task that the lifespan enters in the registry.     *)
(***************************************************************************)
EXTENDS TaskOrchestrator

CONSTANTS
  MemorySamples,  \* the percentages psutil may report
  CeilingReduced  \* CEILING_REDUCED

ASSUME SentinelsAssumption == OathnetModules = {}
ASSUME SamplesAssumption == MemorySamples \subseteq 0..100
ASSUME ForeignAssumption == IsFiniteSet(Foreign)
ASSUME CeilingAssumption == CeilingReduced \in 0..MaxConcurrent

VARIABLES
  search,   \* the generator of every search: _stream_search
  memory,   \* virtual_memory().percent
  serving   \* FALSE once the server has stopped taking requests

admissionVars == <<vars, search, memory, serving>>

Searches == Modules

SearchStates ==
  {"none", "admitted", "tracked", "untracked", "finished", "abandoned"}

Running(s) == search[s] \in {"tracked", "untracked"}

AdmissionTypeOK ==
  /\ TypeOK
  /\ search \in [Searches -> SearchStates]
  /\ memory \in MemorySamples
  /\ serving \in BOOLEAN

AdmissionInit ==
  /\ Init
  /\ search = [s \in Searches |-> "none"]
  /\ memory \in MemorySamples
  /\ serving = TRUE

-----------------------------------------------------------------------------
(***************************************************************************)
(* The watchdog.                                                           *)
(***************************************************************************)
THRESHOLD_RESTORE_PCT == 75
THRESHOLD_REDUCED_PCT == 80
THRESHOLD_CRITICAL_PCT == 85

DecideMode(percent, current) ==
  CASE percent >= THRESHOLD_CRITICAL_PCT -> "critical"
    [] percent >= THRESHOLD_REDUCED_PCT /\ percent < THRESHOLD_CRITICAL_PCT -> "reduced"
    [] percent < THRESHOLD_RESTORE_PCT -> "normal"
    [] OTHER -> current

CeilingForMode(m) ==
  CASE m = "normal" -> MaxConcurrent
    [] m = "reduced" -> CeilingReduced
    [] m = "critical" -> 0

WatchdogLowersOnly ==                     \* variant: the ceiling is never given back
  /\ serving
  /\ mode' = DecideMode(memory, mode)
  /\ ceiling' = IF CeilingForMode(mode') < ceiling THEN CeilingForMode(mode') ELSE ceiling
  /\ UNCHANGED <<taskVars, cancelVars, reader, search, memory, serving>>

\* One round of the loop: ceiling and mode change together, when the mode does.
Watchdog ==
  /\ serving
  /\ mode' = DecideMode(memory, mode)
  /\ ceiling' = IF mode' = mode THEN ceiling ELSE CeilingForMode(mode')
  /\ UNCHANGED <<taskVars, cancelVars, reader, search, memory, serving>>

MemoryChanges ==
  /\ memory' \in MemorySamples
  /\ UNCHANGED <<vars, search, serving>>

-----------------------------------------------------------------------------
(***************************************************************************)
(* A search.                                                               *)
(***************************************************************************)

\* The route: 503 in CRITICAL mode, else a response whose generator has not
\* begun to run.
Admit(s) ==
  /\ serving
  /\ search[s] = "none"
  /\ mode # "critical"
  /\ search' = [search EXCEPT ![s] = "admitted"]
  /\ UNCHANGED <<vars, memory, serving>>

\* The first step of the generator: the sentinel is submitted, or the soft gate
\* refuses it and the search goes on untracked.
BeginTracked(s) ==
  /\ search[s] = "admitted"
  /\ Submit(s)
  /\ search' = [search EXCEPT ![s] = "tracked"]
  /\ UNCHANGED <<memory, serving>>

BeginUntracked(s) ==
  /\ search[s] = "admitted"
  /\ ~ GateIsOpen
  /\ search' = [search EXCEPT ![s] = "untracked"]
  /\ UNCHANGED <<vars, memory, serving>>

\* _sentinel_done.set(): after the audit log, logged or not, or for want of an
\* API key.
EndSearch(s) ==
  /\ Running(s)
  /\ search' = [search EXCEPT ![s] = "finished"]
  /\ UNCHANGED <<vars, memory, serving>>

\* The client is gone or an exception escapes: the generator ends where it
\* stands, and nothing on its way out sets the event.
Abandon(s) ==
  /\ search[s] = "admitted" \/ Running(s)
  /\ search' = [search EXCEPT ![s] = "abandoned"]
  /\ UNCHANGED <<vars, memory, serving>>

\* The event is set, or 300 seconds have passed since the sentinel got its slot.
\* A search may well take longer (a SpiderFoot scan is given 600 seconds).
SentinelReturns(s) ==
  /\ Answer(s, "result")
  /\ UNCHANGED <<search, memory, serving>>

SentinelStep(s) ==
  \/ (Start(s) \/ Unwind(s)) /\ UNCHANGED <<search, memory, serving>>
  \/ SentinelReturns(s)

-----------------------------------------------------------------------------
(***************************************************************************)
(* Shutdown: the server closes or cancels the open responses; then the     *)
(* lifespan cancels watchdog and purge and calls cancel_all.               *)
(***************************************************************************)
StopServing ==
  /\ serving
  /\ serving' = FALSE
  /\ search' = [s \in Searches |->
       IF search[s] = "admitted" \/ Running(s) THEN "abandoned" ELSE search[s]]
  /\ UNCHANGED <<vars, memory>>

Drain ==
  /\ ~ serving
  /\ CancelAll \/ CancelAllReturns
  /\ UNCHANGED <<search, memory, serving>>

SearchStep(s) ==
  Admit(s) \/ BeginTracked(s) \/ BeginUntracked(s) \/ EndSearch(s) \/ Abandon(s)

AdmissionNext ==
  \/ \E s \in Searches : SearchStep(s) \/ SentinelStep(s)
  \/ Watchdog
  \/ MemoryChanges
  \/ StopServing
  \/ Drain

AdmissionSpec == AdmissionInit /\ [][AdmissionNext]_admissionVars

\* The event loop runs the sentinels, whose wait is bounded by its timeout, and
\* the watchdog every 30 seconds.  Nothing is assumed of searches and clients.
AdmissionFairSpec ==
  /\ AdmissionSpec
  /\ \A s \in Searches : WF_admissionVars(SentinelStep(s))
  /\ WF_admissionVars(Watchdog)
  /\ WF_admissionVars(Drain)

-----------------------------------------------------------------------------
(***************************************************************************)
(* Properties.                                                             *)
(***************************************************************************)

\* While the watchdog has lowered the ceiling, no step takes the registry past
\* it, whatever mode admitted the search (soft gate in submit).
DegradedRegistryStaysBelowCeiling ==
  [][Cardinality(registry') > Cardinality(registry) /\ ceiling < MaxConcurrent
       => Cardinality(registry') <= ceiling]_admissionVars

\* Every sentinel leaves the registry, also one whose client went away before
\* the search was over; a registry that only grew would close the soft gate.
SentinelsLeave == \A s \in Searches : s \in registry ~> s \notin registry

\* When memory stays low and the server up, mode and ceiling return to normal
\* for good.
DegradationEnds ==
  <>[](memory < THRESHOLD_RESTORE_PCT /\ serving)
    => <>[](mode = "normal" /\ ceiling = MaxConcurrent)

\* Nothing keeps the server degraded: sentinels leave, whatever becomes of their
\* clients, and mode and ceiling return to normal when memory does.
AdmissionRecovers == SentinelsLeave /\ DegradationEnds

=============================================================================
