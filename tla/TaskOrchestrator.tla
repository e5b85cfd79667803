-------------------------- MODULE TaskOrchestrator --------------------------
(***************************************************************************)
(* One TaskOrchestrator of api/orchestrator.py: the tasks it runs under    *)
(* two nested asyncio semaphores, its registry, its result queue and the   *)
(* one reader of results().                                                *)
(*                                                                         *)
(* asyncio.Semaphore is fair: a release hands the slot to the first waiter *)
(* before any later acquire.  A semaphore of n slots is therefore the      *)
(* sequence of the tasks that acquired it, in order, of which the first n  *)
(* hold a slot and the rest wait.                                          *)
(***************************************************************************)
EXTENDS Integers, FiniteSets, SequencesExt

CONSTANTS
  Modules,        \* the names that may be submitted, each at most once
  OathnetModules, \* those submitted with is_oathnet
  MaxConcurrent,  \* max_concurrent
  MaxOathnet,     \* max_oathnet
  Foreign         \* names whose tasks are put in the registry by others

ASSUME ModulesAssumption == OathnetModules \subseteq Modules
ASSUME FinitelyManyModules == IsFiniteSet(Modules)
ASSUME LimitsAssumption ==
  /\ MaxConcurrent \in Nat \ {0}
  /\ MaxOathnet \in Nat \ {0}

VARIABLES
  phase,      \* of the task of every module
  oathnet,    \* _oathnet_sem
  global,     \* _global_sem
  registry,   \* the keys of _registry
  queue,      \* _result_queue
  expected,   \* _expected
  ceiling,    \* _max_concurrent, the soft gate
  mode,       \* _degradation_mode
  cancelAll,  \* the call of cancel_all: where it stands
  cancelling, \* the tasks it waits for
  reader      \* the call of results(): where it stands and what it still awaits

taskVars == <<phase, oathnet, global, registry, queue, expected>>
gateVars == <<ceiling, mode>>
cancelVars == <<cancelAll, cancelling>>
vars == <<taskVars, gateVars, cancelVars, reader>>

Phases == {"new", "created", "started", "answered", "cancelled"}

DegradationModes == {"normal", "reduced", "critical"}

Outcomes == {"result", "exception"}

TypeOK ==
  /\ phase \in [Modules -> Phases]
  /\ oathnet \in Seq(OathnetModules) /\ IsInjective(oathnet)
  /\ global \in Seq(Modules) /\ IsInjective(global)
  /\ registry \subseteq Modules \union Foreign
  /\ queue \in Seq([name: Modules, outcome: Outcomes])
  /\ expected \in Nat
  /\ ceiling \in 0..MaxConcurrent
  /\ mode \in DegradationModes
  /\ cancelAll \in {"none", "gathering", "returned"}
  /\ cancelling \subseteq Modules
  /\ reader \in [at: {"none", "reading", "ended"}, left: Nat]
  /\ reader.at = "reading" => reader.left > 0

\* The constructor, and what others have put in the registry by then.
Init ==
  /\ phase = [m \in Modules |-> "new"]
  /\ oathnet = <<>>
  /\ global = <<>>
  /\ registry = Foreign
  /\ queue = <<>>
  /\ expected = 0
  /\ ceiling = MaxConcurrent
  /\ mode = "normal"
  /\ cancelAll = "none"
  /\ cancelling = {}
  /\ reader = [at |-> "none", left |-> 0]

-----------------------------------------------------------------------------
(***************************************************************************)
(* Semaphores.                                                             *)
(***************************************************************************)
Holders(sem, slots) == {sem[i] : i \in DOMAIN sem \cap 1..slots}

Released(sem, m) ==
  IF m \in ToSet(sem)
  THEN RemoveAt(sem, CHOOSE i \in DOMAIN sem : sem[i] = m)
  ELSE sem

\* A cancelled waiter leaves the semaphore at once, a cancelled holder when it
\* unwinds.  cancel_all cancels every waiter there is.
WithoutWaiters(sem, slots) ==
  SubSeq(sem, 1, IF Len(sem) < slots THEN Len(sem) ELSE slots)

Alive == {m \in Modules : phase[m] \in {"created", "started"}}

-----------------------------------------------------------------------------
(***************************************************************************)
(* The caller.                                                             *)
(***************************************************************************)
GateIsOpenOffByOne ==                     \* variant: the entry that fills the gate is let in
  ceiling < MaxConcurrent => Cardinality(registry) <= ceiling

GateIsOpen == ceiling < MaxConcurrent => Cardinality(registry) < ceiling

\* Nobody submits while cancel_all waits: its one caller is the shutdown, which
\* comes after the last request.
Submit(m) ==
  /\ phase[m] = "new"
  /\ cancelAll # "gathering"
  /\ GateIsOpen
  /\ phase' = [phase EXCEPT ![m] = "created"]
  /\ registry' = registry \union {m}
  /\ expected' = expected + 1
  /\ UNCHANGED <<oathnet, global, queue, gateVars, cancelVars, reader>>

\* results() is iterated once, after the first submit.
Results ==
  /\ reader.at = "none"
  /\ expected > 0
  /\ reader' = [at |-> "reading", left |-> expected]
  /\ UNCHANGED <<taskVars, gateVars, cancelVars>>

NextResult ==
  /\ reader.at = "reading"
  /\ queue # <<>>
  /\ queue' = Tail(queue)
  /\ reader' = [at |-> IF reader.left = 1 THEN "ended" ELSE "reading",
                left |-> reader.left - 1]
  /\ UNCHANGED <<phase, oathnet, global, registry, expected, gateVars, cancelVars>>

-----------------------------------------------------------------------------
(***************************************************************************)
(* The task of a module: _guarded and _run_module.                         *)
(***************************************************************************)
StartGlobalFirst(m) ==                    \* variant: the semaphores taken the other way round
  /\ phase[m] = "created"
  /\ m \notin cancelling
  /\ phase' = [phase EXCEPT ![m] = "started"]
  /\ global' = Append(global, m)
  /\ oathnet' = IF m \in OathnetModules /\ Len(global) < MaxConcurrent
                THEN Append(oathnet, m) ELSE oathnet
  /\ UNCHANGED <<registry, queue, expected, gateVars, cancelVars, reader>>

\* The first step: up to the first acquire that has to wait, or into the module.
Start(m) ==
  /\ phase[m] = "created"
  /\ m \notin cancelling
  /\ phase' = [phase EXCEPT ![m] = "started"]
  /\ oathnet' = IF m \in OathnetModules THEN Append(oathnet, m) ELSE oathnet
  /\ global' = IF m \in OathnetModules => Len(oathnet) < MaxOathnet
               THEN Append(global, m) ELSE global
  /\ UNCHANGED <<registry, queue, expected, gateVars, cancelVars, reader>>

\* A task that waited for the OathNet semaphore goes on to the global one.
AcquireGlobal(m) ==
  /\ phase[m] = "started"
  /\ m \notin cancelling
  /\ m \in Holders(oathnet, MaxOathnet) \ ToSet(global)
  /\ global' = Append(global, m)
  /\ UNCHANGED <<phase, oathnet, registry, queue, expected, gateVars, cancelVars, reader>>

Put(m, outcome) == Append(queue, [name |-> m, outcome |-> outcome])

AnswerResultsOnly(m, outcome) ==          \* variant: exceptions are only logged
  /\ m \in Holders(global, MaxConcurrent)
  /\ m \notin cancelling
  /\ phase' = [phase EXCEPT ![m] = "answered"]
  /\ queue' = IF outcome = "result" THEN Put(m, outcome) ELSE queue
  /\ registry' = registry \ {m}
  /\ global' = Released(global, m)
  /\ oathnet' = Released(oathnet, m)
  /\ UNCHANGED <<expected, gateVars, cancelVars, reader>>

AnswerWithoutFinally(m, outcome) ==       \* variant: an exception keeps the slots
  /\ m \in Holders(global, MaxConcurrent)
  /\ phase[m] = "started" /\ m \notin cancelling
  /\ phase' = [phase EXCEPT ![m] = "answered"]
  /\ queue' = Put(m, outcome)
  /\ registry' = registry \ {m}
  /\ IF outcome = "result"
     THEN global' = Released(global, m) /\ oathnet' = Released(oathnet, m)
     ELSE UNCHANGED <<global, oathnet>>
  /\ UNCHANGED <<expected, gateVars, cancelVars, reader>>

\* The module returns or raises.  Nothing suspends between the put, the pop
\* from the registry and the release of both semaphores.
Answer(m, outcome) ==
  /\ m \in Holders(global, MaxConcurrent)
  /\ m \notin cancelling
  /\ phase' = [phase EXCEPT ![m] = "answered"]
  /\ queue' = Put(m, outcome)
  /\ registry' = registry \ {m}
  /\ global' = Released(global, m)
  /\ oathnet' = Released(oathnet, m)
  /\ UNCHANGED <<expected, gateVars, cancelVars, reader>>

UnwindHoldingOathnet(m) ==                \* variant: the outer semaphore is not released
  /\ m \in cancelling
  /\ phase' = [phase EXCEPT ![m] = "cancelled"]
  /\ cancelling' = cancelling \ {m}
  /\ registry' = IF m \in Holders(global, MaxConcurrent) THEN registry \ {m} ELSE registry
  /\ global' = Released(global, m)
  /\ UNCHANGED <<oathnet, queue, expected, gateVars, cancelAll, reader>>

\* CancelledError at the await of the task.  Only a task that had entered its
\* module takes its entry out of the registry.
Unwind(m) ==
  /\ m \in cancelling
  /\ phase' = [phase EXCEPT ![m] = "cancelled"]
  /\ cancelling' = cancelling \ {m}
  /\ registry' = IF m \in Holders(global, MaxConcurrent) THEN registry \ {m} ELSE registry
  /\ global' = Released(global, m)
  /\ oathnet' = Released(oathnet, m)
  /\ UNCHANGED <<queue, expected, gateVars, cancelAll, reader>>

-----------------------------------------------------------------------------
(***************************************************************************)
(* cancel_all: the registered tasks that are not done are cancelled and    *)
(* gathered; then the registry and the queue are emptied.                  *)
(***************************************************************************)
TasksToCancelRunning == registry \intersect Holders(global, MaxConcurrent)
                                          \* variant: tasks that hold no slot are forgotten

TasksToCancel == registry \intersect Alive

CancelAll ==
  /\ cancelAll = "none"
  /\ cancelAll' = "gathering"
  /\ cancelling' = TasksToCancel
  /\ oathnet' = WithoutWaiters(oathnet, MaxOathnet)
  /\ global' = WithoutWaiters(global, MaxConcurrent)
  /\ UNCHANGED <<phase, registry, queue, expected, gateVars, reader>>

CancelAllReturns ==
  /\ cancelAll = "gathering"
  /\ cancelling = {}
  /\ cancelAll' = "returned"
  /\ registry' = {}
  /\ queue' = <<>>
  /\ UNCHANGED <<phase, oathnet, global, expected, gateVars, cancelling, reader>>

-----------------------------------------------------------------------------
TaskStep(m) ==
  \/ Start(m)
  \/ AcquireGlobal(m)
  \/ \E outcome \in Outcomes : Answer(m, outcome)
  \/ Unwind(m)

Work ==
  \/ \E m \in Modules : Submit(m) \/ TaskStep(m)
  \/ Results
  \/ NextResult

Next == Work \/ CancelAll \/ CancelAllReturns

Spec == Init /\ [][Next]_vars

\* The event loop runs every ready task, and every module comes to an end:
\* its calls have timeouts.
TaskFairness == \A m \in Modules : WF_vars(TaskStep(m))

FairSpec == Spec /\ TaskFairness /\ WF_vars(NextResult) /\ WF_vars(CancelAllReturns)

-----------------------------------------------------------------------------
(***************************************************************************)
(* Properties.                                                             *)
(***************************************************************************)

\* However many OathNet modules there are and whoever dies on the way, at most
\* MaxOathnet of them hold or queue for a global slot, so that a fast module
\* never waits behind more (class docstring: "preventing them from
\* monopolizing all concurrent slots").
OathnetLeavesRoom ==
  Cardinality(ToSet(global) \intersect OathnetModules) <= MaxOathnet

\* A module that runs under the OathNet limit holds a slot of each semaphore,
\* and only tasks that are alive hold or await one: no order of answers and
\* cancellations loses a slot.
SlotsBelongToTheLiving ==
  /\ ToSet(oathnet) \union ToSet(global) \subseteq {m \in Modules : phase[m] = "started"}
  /\ ToSet(global) \intersect OathnetModules \subseteq Holders(oathnet, MaxOathnet)

\* When cancel_all returns no task it found is left behind, whether it was
\* running, waiting for either semaphore or not even started.
CancelAllLeavesNoTask ==
  [][CancelAllReturns => Alive = {} /\ global = <<>> /\ oathnet = <<>>]_vars

\* results() waits only for what is still to come, as long as nobody calls
\* cancel_all: a module that raises puts its exception in the queue.
NeverWaitsInVain ==
  cancelAll = "none" /\ reader.at = "reading" =>
    reader.left <= Cardinality(Alive) + Len(queue)

\* A reader of results() gets to the end, whatever the modules raise, unless
\* cancel_all is called.
ResultsReturn == reader.at = "reading" ~> (reader.at = "ended" \/ cancelAll # "none")

\* Under both semaphores every submitted module gets its turn, or is cancelled.
EveryModuleGetsItsTurn ==
  \A m \in Modules : phase[m] = "created" ~> phase[m] \in {"answered", "cancelled"}

\* Nobody waits for ever: neither the reader nor a module.
EverybodyIsServed == ResultsReturn /\ EveryModuleGetsItsTurn

-----------------------------------------------------------------------------
(***************************************************************************)
(* The inductive invariants.                                               *)
(***************************************************************************)

\* cancel_all finds every live task in the registry and waits for each of them.
CancelReachesEveryTask ==
  IF cancelAll = "gathering" THEN Alive = cancelling
  ELSE Alive \subseteq registry /\ cancelling = {}

IInv == TypeOK /\ SlotsBelongToTheLiving /\ CancelReachesEveryTask

\* Until cancel_all is called every submitted module is owed exactly one result.
EveryResultIsAccountedFor ==
  cancelAll = "none" =>
    /\ reader.at = "none" => expected = Cardinality(Alive) + Len(queue)
    /\ reader.at = "reading" => reader.left \in 1..(Cardinality(Alive) + Len(queue))

=============================================================================
