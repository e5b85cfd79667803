---------------------------- MODULE SearchWorker ----------------------------
(***************************************************************************)
(* The v2 search jobs of one server process (api/routes/search_v2.py): the *)
(* route that creates a job, the asyncio task that executes it (_worker,   *)
(* _execute_job), the hourly purge, and the life of the process itself.    *)
(*                                                                         *)
(* Tasks interleave only where the code awaits, so an action is the code   *)
(* from one await to the next.  Nothing resumes a job: a task that dies    *)
(* leaves its row to the TTL.                                              *)
(***************************************************************************)
EXTENDS JobStore, SearchOrchestrator

CONSTANTS
  Plan,         \* _connectors_for(target_type): the connectors of a job, in order
  Answers,      \* the outcome statuses the connectors of the instance answer with
  MaxFaults,    \* bound on failing calls
  MaxStops      \* bound on crashes and shutdowns

ASSUME PlanAssumption ==
  /\ Plan \in Seq(Connectors)
  /\ Plan # <<>>
  /\ \A i, k \in DOMAIN Plan : Plan[i] = Plan[k] => i = k

ASSUME AnswersAssumption == Answers \subseteq ConnectorStatus \ {"pending", "running"}

ASSUME BoundsAssumption == MaxFaults \in Nat /\ MaxStops \in Nat

VARIABLES
  server,       \* "up", "draining" (pool closed, loop still running), "down"
  worker,       \* the task of every job and its local variables
  faults,       \* failing calls so far
  stops         \* crashes and shutdowns so far

workerVars == <<server, worker, faults, stops>>
vars == <<storeVars, workerVars>>

-----------------------------------------------------------------------------
(***************************************************************************)
(* A task: the await it is suspended at, the event being emitted, seq and  *)
(* results.  append_event awaits twice, its SELECT and then its INSERT.    *)
(***************************************************************************)
Awaits ==
  {"get_job", "mark_running", "append_select", "append_insert",
   "connector", "mark_done", "mark_failed"}

Task ==
  [at: Awaits \union {"none", "ended"}, emitting: EventTypes \union {None},
   seq: Nat, results: Seq([connector: Connectors, status: ConnectorStatus])]

NoTask == [at |-> "none", emitting |-> None, seq |-> 0, results |-> <<>>]

\* _job_workers: the jobs whose task has not finished.
JobWorkers == {j \in Jobs : worker[j].at \in Awaits}

TypeOK ==
  /\ StoreTypeOK
  /\ server \in {"up", "draining", "down"}
  /\ worker \in [Jobs -> Task]
  /\ faults \in Nat
  /\ stops \in Nat

Init ==
  /\ StoreInit
  /\ server = "up"
  /\ worker = [j \in Jobs |-> NoTask]
  /\ faults = 0
  /\ stops = 0

-----------------------------------------------------------------------------
(***************************************************************************)
(* A call to the database.  Once db.shutdown has run every call raises:    *)
(* RuntimeError, or InterfaceError while the pool is closing.              *)
(***************************************************************************)
DbReply(reply) ==
  IF server = "up"
    THEN /\ reply \in Replies
         /\ reply # "ok" => faults < MaxFaults
         /\ faults' = IF reply = "ok" THEN faults ELSE faults + 1
    ELSE /\ reply \in {"error", "lost"}
         /\ UNCHANGED faults

\* The statement takes effect exactly if the reply says it committed.
Executed(reply, statement) == IF Committed(reply) THEN statement ELSE UNCHANGED storeVars

SetTask(j, task) == worker' = [worker EXCEPT ![j] = task]

\* Leaving _execute_job by an exception: _worker handles the ones it lists by
\* mark_failed, and any other ends the task.
Unwound(task, escapes) == [task EXCEPT !.at = IF escapes THEN "ended" ELSE "mark_failed"]

\* The task after a call of the store: it goes on if the call returned and found
\* the row it wanted (accepted), and unwinds otherwise.
AfterCall(task, reply, accepted, next) ==
  IF reply = "ok" /\ accepted THEN next ELSE Unwound(task, Escapes(reply))

\* seq += 1; await _emit_event(...)
Emitting(task, type) ==
  [at |-> "append_select", emitting |-> type, seq |-> task.seq + 1,
   results |-> task.results]

\* The head of the loop over connector_plan, and what follows the loop.
NextConnectorButLast(task) ==             \* variant: the last connector is skipped
  Emitting(task, IF Len(task.results) + 1 < Len(Plan) THEN "connector_started" ELSE "summary")

NextConnector(task) ==
  Emitting(task, IF Len(task.results) < Len(Plan) THEN "connector_started" ELSE "summary")

\* What the task does when append_event has returned.
AfterEvent(task) ==
  CASE task.emitting \in {"job_started", "connector_result"} -> NextConnector(task)
    [] task.emitting = "connector_started" -> [task EXCEPT !.at = "connector"]
    [] task.emitting = "summary" -> [task EXCEPT !.at = "mark_done"]
    [] OTHER -> [task EXCEPT !.at = "ended"]

\* The row append_event inserts, with the payload of its event type.
EventRowOf(j, task) ==
  LET n == Len(task.results)
  IN  [job |-> j, seq |-> task.seq, type |-> task.emitting,
       connector |-> CASE task.emitting = "connector_started" -> Plan[n + 1]
                       [] task.emitting = "connector_result" -> task.results[n].connector
                       [] OTHER -> None,
       status |-> CASE task.emitting = "connector_result" -> task.results[n].status
                    [] task.emitting \in {"summary", "job_done"} -> OverallStatus(task.results)
                    [] OTHER -> None]

-----------------------------------------------------------------------------
(***************************************************************************)
(* POST /api/v2/search: create_job, then _spawn_worker.  The row of a      *)
(* failed call may exist all the same, and has no task.                    *)
(***************************************************************************)
CreateSearch(j, reply) ==
  /\ server = "up"
  /\ worker[j].at = "none"
  /\ status[j] = "absent"
  /\ j \notin expired
  /\ DbReply(reply)
  /\ Executed(reply, InsertJob(j))
  /\ SetTask(j, [NoTask EXCEPT !.at = IF reply = "ok" THEN "get_job" ELSE "none"])
  /\ UNCHANGED <<server, stops>>

(***************************************************************************)
(* The steps of a task.                                                    *)
(***************************************************************************)
GetJob(j) ==
  /\ worker[j].at = "get_job"
  /\ \E reply \in Replies :
       /\ DbReply(reply)
       /\ SetTask(j, AfterCall(worker[j], reply, Live(j),
                               [worker[j] EXCEPT !.at = "mark_running"]))
  /\ UNCHANGED <<storeVars, server, stops>>

MarkJobRunning(j) ==
  /\ worker[j].at = "mark_running"
  /\ \E reply \in Replies :
       /\ DbReply(reply)
       /\ Executed(reply, MarkRunning(j))
       /\ SetTask(j, AfterCall(worker[j], reply, Matches(j, RunnableFrom),
                               Emitting(worker[j], "job_started")))
  /\ UNCHANGED <<server, stops>>

\* append_event: the owner's unexpired job must exist ...
AppendSelect(j) ==
  /\ worker[j].at = "append_select"
  /\ \E reply \in Replies :
       /\ DbReply(reply)
       /\ SetTask(j, AfterCall(worker[j], reply, Live(j),
                               [worker[j] EXCEPT !.at = "append_insert"]))
  /\ UNCHANGED <<storeVars, server, stops>>

\* ... and only then, in a transaction of its own, is the event inserted.
AppendInsertBestEffort(j) ==              \* variant: a failed append is only logged
  /\ worker[j].at = "append_insert"
  /\ \E reply \in Replies :
       /\ DbReply(reply)
       /\ Executed(reply, InsertEvent(EventRowOf(j, worker[j])))
  /\ SetTask(j, AfterEvent(worker[j]))
  /\ UNCHANGED <<server, stops>>

AppendInsert(j) ==
  /\ worker[j].at = "append_insert"
  /\ \E reply \in Replies :
       /\ DbReply(reply)
       /\ Executed(reply, InsertEvent(EventRowOf(j, worker[j])))
       /\ SetTask(j, AfterCall(worker[j], reply, Insertable(j, worker[j].seq),
                               AfterEvent(worker[j])))
  /\ UNCHANGED <<server, stops>>

\* The connector's answer; an exception _execute_job lists becomes an ERROR result.
ConnectorAnswers(j) ==
  /\ worker[j].at = "connector"
  /\ \E st \in Answers \union {"error"} :
       LET result == [connector |-> Plan[Len(worker[j].results) + 1], status |-> st]
       IN  SetTask(j, Emitting([worker[j] EXCEPT !.results = Append(@, result)],
                               "connector_result"))
  /\ UNCHANGED <<storeVars, server, faults, stops>>

\* A connector raising what neither run_connector nor the worker lists (OSError).
ConnectorEscapes(j) ==
  /\ worker[j].at = "connector"
  /\ faults < MaxFaults
  /\ faults' = faults + 1
  /\ SetTask(j, Unwound(worker[j], TRUE))
  /\ UNCHANGED <<storeVars, server, stops>>

MarkJobDone(j) ==
  /\ worker[j].at = "mark_done"
  /\ \E reply \in Replies :
       /\ DbReply(reply)
       /\ Executed(reply, MarkDone(j, OverallStatus(worker[j].results)))
       /\ SetTask(j, AfterCall(worker[j], reply, Matches(j, FinishableFrom),
                               Emitting(worker[j], "job_done")))
  /\ UNCHANGED <<server, stops>>

\* The handler of _worker: whatever mark_failed raises, the task is over.
MarkJobFailed(j) ==
  /\ worker[j].at = "mark_failed"
  /\ \E reply \in Replies :
       /\ DbReply(reply)
       /\ Executed(reply, MarkFailed(j))
  /\ SetTask(j, [worker[j] EXCEPT !.at = "ended"])
  /\ UNCHANGED <<server, stops>>

TaskStep(j) ==
  \/ GetJob(j)
  \/ MarkJobRunning(j)
  \/ AppendSelect(j)
  \/ AppendInsert(j)
  \/ ConnectorAnswers(j)
  \/ ConnectorEscapes(j)
  \/ MarkJobDone(j)
  \/ MarkJobFailed(j)

-----------------------------------------------------------------------------
(***************************************************************************)
(* The process.  The lifespan's shutdown closes the pool without touching  *)
(* _job_workers; the event loop then cancels the tasks it still holds, and *)
(* exits when they have ended.                                             *)
(***************************************************************************)
Shutdown ==
  /\ server = "up"
  /\ stops < MaxStops
  /\ server' = "draining"
  /\ stops' = stops + 1
  /\ UNCHANGED <<storeVars, worker, faults>>

\* CancelledError at any await: _worker tries mark_failed, then re-raises.
Cancel(j) ==
  /\ server = "draining"
  /\ j \in JobWorkers
  /\ SetTask(j, [worker[j] EXCEPT !.at = IF @ = "mark_failed" THEN "ended" ELSE "mark_failed"])
  /\ UNCHANGED <<storeVars, server, faults, stops>>

LoseTasks ==
  worker' = [j \in Jobs |-> IF j \in JobWorkers THEN [worker[j] EXCEPT !.at = "ended"]
                            ELSE worker[j]]

Exit ==
  /\ server = "draining"
  /\ JobWorkers = {}
  /\ server' = "down"
  /\ UNCHANGED <<storeVars, worker, faults, stops>>

Crash ==
  /\ server = "up"
  /\ stops < MaxStops
  /\ server' = "down"
  /\ stops' = stops + 1
  /\ LoseTasks
  /\ UNCHANGED <<storeVars, faults>>

Restart ==
  /\ server = "down"
  /\ server' = "up"
  /\ UNCHANGED <<storeVars, worker, faults, stops>>

\* blacklist_purge_loop -> _purge_expired_jobs, which catches what the call raises.
Purge ==
  /\ server = "up"
  /\ Purgeable # {}
  /\ PurgeExpired
  /\ UNCHANGED workerVars

Clock(j) == Expire(j) /\ UNCHANGED workerVars

Next ==
  \/ \E j \in Jobs, reply \in Replies : CreateSearch(j, reply)
  \/ \E j \in Jobs : TaskStep(j) \/ Cancel(j) \/ Clock(j)
  \/ Shutdown \/ Exit \/ Crash \/ Restart \/ Purge

(***************************************************************************)
(* The event loop runs every ready task and the process manager restarts   *)
(* the server.  Nobody has to post a search, stop the server or call the   *)
(* clock.                                                                  *)
(***************************************************************************)
Fairness ==
  /\ \A j \in Jobs : WF_vars(TaskStep(j)) /\ WF_vars(Cancel(j))
  /\ WF_vars(Exit)
  /\ WF_vars(Restart)

Spec == Init /\ [][Next]_vars

FairSpec == Spec /\ Fairness
-----------------------------------------------------------------------------
(***************************************************************************)
(* Properties.                                                             *)
(***************************************************************************)
LogLength == 2 * Len(Plan) + 3

\* The events of a job are numbered 1, 2, 3, ... without a hole, whatever call
\* failed and wherever the task died: seq is a local counter of _execute_job
\* and the client resumes from the last number it saw.
GapFreeLog ==
  /\ \A j \in Jobs : \E n \in 0..LogLength : SeqsOf(j) = 1..n
  /\ \A e, f \in events : e.job = f.job /\ e.seq = f.seq => e = f

\* A job_done event is only ever read beside a row that says done with the same
\* overall status: mark_done precedes the event and nothing overwrites its row,
\* not even the mark_failed that follows an INSERT whose answer was lost.
JobDoneIsTrue ==
  \A e \in events :
    e.type = "job_done" => status[e.job] = "done" /\ overall[e.job] = e.status

\* What a replayed log says overall follows from the connector results in the
\* same log: none is missing from it, counted twice or added afterwards.
SummaryMatchesLog ==
  \A e \in events : e.type \in {"summary", "job_done"} =>
    \E answered \in [DOMAIN Plan -> {r \in EventsOf(e.job) : r.type = "connector_result"}] :
      /\ \A i \in DOMAIN Plan : answered[i].connector = Plan[i] /\ answered[i].seq < e.seq
      /\ e.status = OverallStatus(answered)

\* No row of search_events survives the purge of its job, although append_event
\* looks the job up in one transaction and inserts in the next.
NoOrphanEvent == \A e \in events : status[e.job] # "absent"

\* A finished job keeps its status and result until it is purged, and it is
\* purged only after its TTL.
TerminalIsFinal ==
  [][\A j \in Jobs : status[j] \in Terminal =>
       \/ status'[j] = status[j] /\ overall'[j] = overall[j]
       \/ status'[j] = "absent" /\ j \in expired]_vars

\* The jobs of the database and their tasks implement the lifecycle.
Phase(j) ==
  IF status[j] # "absent" THEN status[j]
  ELSE IF j \in expired THEN "gone" ELSE "none"

Lifecycle == INSTANCE JobLifecycle
  WITH Length <- LogLength,
       phase <- [j \in Jobs |-> Phase(j)],
       published <- [j \in Jobs |-> Cardinality(SeqsOf(j))]

ImplementsLifecycle == Lifecycle!Spec

(***************************************************************************)
(* The inductive invariant behind the safety properties.                   *)
(***************************************************************************)
Appending == {"append_select", "append_insert"}

\* Where a task stands: its event, its counter and its results move together.
Position(t) ==
  LET n == Len(t.results)
      N == Len(Plan)
  IN  /\ n <= N
      /\ t.seq <= LogLength
      /\ t.at \in {"none", "get_job", "mark_running"} => t.seq = 0 /\ n = 0
      /\ t.at \in Appending =>
           \/ t.emitting = "job_started" /\ n = 0 /\ t.seq = 1
           \/ t.emitting = "connector_started" /\ n < N /\ t.seq = 2 * n + 2
           \/ t.emitting = "connector_result" /\ n > 0 /\ t.seq = 2 * n + 1
           \/ t.emitting = "summary" /\ n = N /\ t.seq = 2 * n + 2
           \/ t.emitting = "job_done" /\ n = N /\ t.seq = 2 * n + 3
      /\ t.at = "connector" =>
           t.emitting = "connector_started" /\ n < N /\ t.seq = 2 * n + 2
      /\ t.at = "mark_done" => n = N /\ t.seq = 2 * n + 2

\* How many events of its job a task may have left in the log.
Written(t) ==
  CASE t.at \in Appending -> {t.seq - 1}
    [] t.at \in {"mark_failed", "ended"} -> {t.seq - 1, t.seq}
    [] OTHER -> {t.seq}

LogMatchesTask(j) ==
  status[j] # "absent" => \E n \in Written(worker[j]) : SeqsOf(j) = 1..n

\* job_done is being appended only to a job marked done with the same result.
AnnouncesDone(j) ==
  (worker[j].at \in Appending /\ worker[j].emitting = "job_done" /\ status[j] # "absent")
    => status[j] = "done" /\ overall[j] = OverallStatus(worker[j].results)

\* The row, the log and the task of one job agree.
Consistent(j) ==
  /\ Position(worker[j])
  /\ \A e \in EventsOf(j) : status[j] # "absent"
  /\ \A e, f \in EventsOf(j) : e.seq = f.seq => e = f
  /\ LogMatchesTask(j)
  /\ AnnouncesDone(j)
  /\ \A e \in EventsOf(j) :
       e.type = "job_done" => status[j] = "done" /\ overall[j] = e.status

IInv == TypeOK /\ \A j \in Jobs : Consistent(j)

\* A task between mark_running and mark_done.
Working(t) ==
  \/ t.at \in {"connector", "mark_done"}
  \/ t.at \in Appending /\ t.emitting # "job_done"

\* Its row says so, for as long as there is one.
RunsWhileWorking(j) == Working(worker[j]) /\ status[j] # "absent" => status[j] = "running"

Closing == {"summary", "job_done"}

\* The log of a job tells what its task has got from the connectors so far: the
\* i-th answer is event 2i + 1, and what closes the log sums up all of them.
LogTellsResults(j) ==
  LET results == worker[j].results
  IN  /\ \A i \in DOMAIN results : results[i].connector = Plan[i]
      /\ \A e \in EventsOf(j), i \in DOMAIN results : e.seq = 2 * i + 1 =>
           /\ e.type = "connector_result"
           /\ e.connector = Plan[i] /\ e.status = results[i].status
      /\ \A e \in EventsOf(j) : e.type \in Closing =>
           /\ Len(results) = Len(Plan)
           /\ e.seq = IF e.type = "summary" THEN LogLength - 1 ELSE LogLength
           /\ e.status = OverallStatus(results)

ResultsInv == \A j \in Jobs : RunsWhileWorking(j) /\ LogTellsResults(j)

\* A job that is queued reaches a terminal status, unless its TTL passes first,
\* a call fails or the server stops.
QueuedJobSettles ==
  \A j \in Jobs :
    status[j] = "queued" ~>
      (status[j] \in Terminal \/ j \in expired \/ faults > 0 \/ stops > 0)
=============================================================================
