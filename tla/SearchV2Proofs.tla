---------------------------- MODULE SearchV2Proofs ----------------------------
(***************************************************************************)
(* Theorems about the jobs of the v2 search, in three parts.  The first is *)
(* about SearchWorker, for every set of jobs, every plan of distinct       *)
(* connectors and every bound on faults and stops.  The second shows that  *)
(* its jobs implement JobLifecycle and that their logs tell what their     *)
(* connectors answered; both rest on one view of the steps: whatever       *)
(* action is taken, each job makes one of eight moves.  The third is about *)
(* SearchV2: all of this still holds when pages and streams are added, and *)
(* a page handles the whole log of its job, in order and without a hole,   *)
(* across every broken connection and every restart of the server.         *)
(***************************************************************************)
EXTENDS SearchV2, SequenceTheorems, FiniteSetTheorems, TLAPS

-----------------------------------------------------------------------------
(***************************************************************************)
(* Lemmas about the operators.                                             *)
(***************************************************************************)

\* The G3 rule always answers with one of the statuses of the column.
LEMMA OverallStatusType ==
  ASSUME NEW results
  PROVE  OverallStatus(results) \in ConnectorStatus
BY DEF OverallStatus, ConnectorStatus

\* The plan is a sequence of at least one connector.
LEMMA PlanFacts ==
  /\ Len(Plan) \in Nat \ {0}
  /\ \A n \in Nat : n < Len(Plan) => Plan[n + 1] \in Connectors
BY PlanAssumption

\* A task about to append has a well-formed row for it.
LEMMA EventRowOfType ==
  ASSUME NEW j \in Jobs, NEW t \in Task, Position(t), t.at \in Appending
  PROVE  /\ EventRowOf(j, t) \in EventRow
         /\ EventRowOf(j, t).job = j
         /\ EventRowOf(j, t).seq = t.seq
         /\ EventRowOf(j, t).type = t.emitting
         /\ t.emitting = "job_done" => EventRowOf(j, t).status = OverallStatus(t.results)
<1> DEFINE n == Len(t.results)
<1>1. n \in Nat /\ t.seq \in Nat \ {0} /\ t.emitting \in EventTypes
  BY PlanFacts DEF Position, Task, EventTypes
<1>2. t.emitting = "connector_started" => Plan[n + 1] \in Connectors
  BY <1>1, PlanFacts DEF Position, Appending
<1>3. ASSUME t.emitting = "connector_result"
      PROVE  t.results[n].connector \in Connectors /\ t.results[n].status \in ConnectorStatus
  <2>1. n \in 1..Len(t.results)
    BY <1>1, <1>3 DEF Position, Appending
  <2>2. t.results \in Seq([connector : Connectors, status : ConnectorStatus])
    BY DEF Task
  <2>3. t.results[n] \in [connector : Connectors, status : ConnectorStatus]
    BY <2>1, <2>2, ElementOfSeq
  <2> QED
    BY <2>3
<1> QED
  BY <1>1, <1>2, <1>3, OverallStatusType DEF EventRowOf, EventRow, EventTypes

-----------------------------------------------------------------------------
(***************************************************************************)
(* The tasks a step can leave behind.                                      *)
(***************************************************************************)

\* Emitting an event moves the task to append_event with the next number.
LEMMA EmittingTask ==
  ASSUME NEW t \in Task, NEW type \in EventTypes
  PROVE  /\ Emitting(t, type) \in Task
         /\ Emitting(t, type).at = "append_select"
         /\ Emitting(t, type).emitting = type
         /\ Emitting(t, type).seq = t.seq + 1
         /\ Emitting(t, type).results = t.results
<1>1. Emitting(t, type) = [at |-> "append_select", emitting |-> type,
                           seq |-> t.seq + 1, results |-> t.results]
  BY DEF Emitting
<1>2. "append_select" \in Awaits
  BY DEF Awaits
<1>3. t.seq + 1 \in Nat /\ t.results \in Seq([connector : Connectors, status : ConnectorStatus])
  BY DEF Task
<1> QED
  BY <1>1, <1>2, <1>3 DEF Task

\* Every exception leaves a well-placed task that appends nothing more.
LEMMA UnwoundTask ==
  ASSUME NEW t \in Task, Position(t), NEW escapes
  PROVE  /\ Unwound(t, escapes) \in Task
         /\ Position(Unwound(t, escapes))
         /\ Unwound(t, escapes).at \in {"mark_failed", "ended"}
         /\ Unwound(t, escapes).seq = t.seq
BY DEF Unwound, Task, Position, Awaits, Appending

\* So does the end of append_event: the next event, connector or statement.
LEMMA AfterEventTask ==
  ASSUME NEW t \in Task, Position(t), t.at \in Appending
  PROVE  /\ AfterEvent(t) \in Task
         /\ Position(AfterEvent(t))
         /\ AfterEvent(t).at \in Appending =>
              AfterEvent(t).seq = t.seq + 1 /\ AfterEvent(t).emitting # "job_done"
         /\ AfterEvent(t).at \notin Appending =>
              AfterEvent(t).seq = t.seq /\ AfterEvent(t).at \in {"connector", "mark_done", "ended"}
<1> DEFINE n == Len(t.results)
<1>1. n \in Nat /\ t.seq \in Nat
  BY DEF Task
<1>2. CASE t.emitting \in {"job_started", "connector_result"}
  <2> DEFINE type == IF n < Len(Plan) THEN "connector_started" ELSE "summary"
             next == AfterEvent(t)
  <2>1. next = Emitting(t, type)
    BY <1>2 DEF AfterEvent, NextConnector
  <2>2. type \in EventTypes /\ type # "job_done"
    BY DEF EventTypes
  <2>3. /\ next \in Task /\ next.at = "append_select" /\ next.emitting = type
        /\ next.seq = t.seq + 1 /\ next.results = t.results
    BY <2>1, <2>2, EmittingTask
  <2>4. t.seq = 2 * n + 1 /\ n <= Len(Plan)
    BY <1>1, <1>2 DEF Position, Appending
  <2>5. Position(next)
    BY <1>1, <2>3, <2>4, PlanFacts DEF Position, Appending, LogLength
  <2> QED
    BY <2>2, <2>3, <2>5 DEF Appending
<1>3. CASE t.emitting = "connector_started"
  <2>1. AfterEvent(t) = [t EXCEPT !.at = "connector"]
    BY <1>3 DEF AfterEvent
  <2> QED
    BY <1>1, <1>3, <2>1, PlanFacts DEF Task, Position, Awaits, Appending, LogLength
<1>4. CASE t.emitting = "summary"
  <2>1. AfterEvent(t) = [t EXCEPT !.at = "mark_done"]
    BY <1>4 DEF AfterEvent
  <2> QED
    BY <1>1, <1>4, <2>1, PlanFacts DEF Task, Position, Awaits, Appending, LogLength
<1>5. CASE t.emitting = "job_done"
  <2>1. AfterEvent(t) = [t EXCEPT !.at = "ended"]
    BY <1>5 DEF AfterEvent
  <2> QED
    BY <1>1, <1>5, <2>1, PlanFacts DEF Task, Position, Awaits, Appending, LogLength
<1> QED
  BY <1>1, <1>2, <1>3, <1>4, <1>5 DEF Position, Appending

\* A task that dies is well placed.
LEMMA DyingTask ==
  ASSUME NEW t \in Task, Position(t), NEW at \in {"mark_failed", "ended"}
  PROVE  /\ [t EXCEPT !.at = at] \in Task
         /\ Position([t EXCEPT !.at = at])
         /\ [t EXCEPT !.at = at].at = at
         /\ [t EXCEPT !.at = at].seq = t.seq
BY DEF Task, Position, Awaits, Appending

-----------------------------------------------------------------------------
(***************************************************************************)
(* The effect of a step on the store.                                      *)
(***************************************************************************)

\* A call to the database counts its faults.
LEMMA DbReplyType ==
  ASSUME TypeOK, NEW reply, DbReply(reply)
  PROVE  faults' \in Nat
BY BoundsAssumption DEF TypeOK, DbReply

\* A guarded update that starts from "queued" or "running" touches no other job
\* and no finished one.
LEMMA UpdateEffect ==
  ASSUME TypeOK, NEW j \in Jobs, NEW from \in SUBSET {"queued", "running"},
         NEW to \in JobStatus, NEW result \in ConnectorStatus \union {None},
         Update(j, from, to, result)
  PROVE  /\ StoreTypeOK'
         /\ events' = events
         /\ \A k \in Jobs \ {j} : status'[k] = status[k] /\ overall'[k] = overall[k]
         /\ Matches(j, from) => status'[j] = to /\ overall'[j] = result
         /\ status[j] \notin from => status'[j] = status[j] /\ overall'[j] = overall[j]
         /\ status'[j] = "absent" <=> status[j] = "absent"
BY DEF TypeOK, StoreTypeOK, Update, Matches, Live, JobStatus

-----------------------------------------------------------------------------
(***************************************************************************)
(* A step of one job leaves the others alone.                              *)
(***************************************************************************)
LEMMA OtherJobs ==
  ASSUME IInv, NEW j \in Jobs, NEW task \in Task, SetTask(j, task),
         \A k \in Jobs \ {j} :
           /\ status'[k] = status[k] /\ overall'[k] = overall[k]
           /\ EventsOf(k)' = EventsOf(k),
         Consistent(j)'
  PROVE  /\ worker' \in [Jobs -> Task]
         /\ \A k \in Jobs : Consistent(k)'
<1>1. worker' \in [Jobs -> Task] /\ \A k \in Jobs \ {j} : worker'[k] = worker[k]
  BY DEF IInv, TypeOK, SetTask
<1>2. ASSUME NEW k \in Jobs \ {j}
      PROVE  Consistent(k)'
  <2>1. Consistent(k)
    BY DEF IInv
  <2> QED
    BY <1>1, <2>1 DEF Consistent, LogMatchesTask, AnnouncesDone, SeqsOf
<1> QED
  BY <1>1, <1>2

\* A step that only moves the task of a job keeps the job consistent if the new
\* task still accounts for the log and does not start to announce job_done.
LEMMA MovedTask ==
  ASSUME IInv, NEW j \in Jobs, NEW task \in Task, SetTask(j, task),
         UNCHANGED storeVars,
         Position(task),
         Written(worker[j]) \subseteq Written(task),
         task.at \in Appending /\ task.emitting = "job_done" =>
           /\ worker[j].at \in Appending /\ worker[j].emitting = "job_done"
           /\ task.results = worker[j].results
  PROVE  /\ worker' \in [Jobs -> Task]
         /\ \A k \in Jobs : Consistent(k)'
<1>1. worker'[j] = task
  BY DEF IInv, TypeOK, SetTask
<1>2. Consistent(j)
  BY DEF IInv
<1>3. \A k \in Jobs : EventsOf(k)' = EventsOf(k) /\ SeqsOf(k)' = SeqsOf(k)
  BY DEF EventsOf, SeqsOf, storeVars
<1>4. Consistent(j)'
  BY <1>1, <1>2, <1>3 DEF Consistent, LogMatchesTask, AnnouncesDone, storeVars
<1> QED
  BY <1>3, <1>4, OtherJobs DEF storeVars

-----------------------------------------------------------------------------
(***************************************************************************)
(* One lemma per action of the specification: it preserves IInv.           *)
(***************************************************************************)
LEMMA NewTask ==
  ASSUME NEW at \in {"none", "get_job"}
  PROVE  /\ [NoTask EXCEPT !.at = at] \in Task
         /\ Position([NoTask EXCEPT !.at = at])
         /\ Written([NoTask EXCEPT !.at = at]) = {0}
         /\ [NoTask EXCEPT !.at = at].at = at
<1> DEFINE task == [NoTask EXCEPT !.at = at]
           Results == Seq([connector : Connectors, status : ConnectorStatus])
<1>1. task = [at |-> at, emitting |-> None, seq |-> 0, results |-> <<>>]
  BY DEF NoTask
<1>2. <<>> \in Results /\ Len(<<>>) = 0
  OBVIOUS
<1>3. at \in Awaits \union {"none", "ended"}
  BY DEF Awaits
<1>4. task \in Task
  <2>1. None \in EventTypes \union {None}
    OBVIOUS
  <2> HIDE DEF Results, task
  <2>2. task \in [at : Awaits \union {"none", "ended"}, emitting : EventTypes \union {None},
                 seq : Nat, results : Results]
    BY <1>1, <1>2, <1>3, <2>1
  <2> QED
    BY <2>2 DEF Task, Results
<1>5. task.at = at /\ task.seq = 0 /\ Len(task.results) = 0
  BY <1>1, <1>2
<1> HIDE DEF task
<1>6. Position(task)
  BY <1>5, PlanFacts DEF Position, Appending, LogLength
<1> QED
  BY <1>4, <1>5, <1>6 DEF Written, Appending, task

LEMMA CreateSearchStep ==
  ASSUME IInv, NEW j \in Jobs, NEW reply \in Replies, CreateSearch(j, reply)
  PROVE  IInv'
<1> DEFINE task == [NoTask EXCEPT !.at = IF reply = "ok" THEN "get_job" ELSE "none"]
<1>1. /\ task \in Task /\ Position(task)
      /\ Written(task) = {0} /\ task.at \notin Appending
  BY NewTask DEF NoTask, Appending
<1>2. SetTask(j, task) /\ status[j] = "absent" /\ Consistent(j)
  BY DEF CreateSearch, IInv
<1>3. worker'[j] = task
  BY <1>2 DEF IInv, TypeOK, SetTask
<1>4. /\ events' = events /\ overall' = overall /\ expired' = expired
      /\ status' = status \/ status' = [status EXCEPT ![j] = "queued"]
  BY DEF CreateSearch, Executed, InsertJob, storeVars
<1>5. EventsOf(j) = {} /\ \A k \in Jobs : EventsOf(k)' = EventsOf(k)
  BY <1>2, <1>4 DEF Consistent, EventsOf
<1>6. SeqsOf(j)' = {} /\ 1..0 = {}
  BY <1>5 DEF SeqsOf
<1>7. Consistent(j)'
  BY <1>1, <1>3, <1>5, <1>6 DEF Consistent, LogMatchesTask, AnnouncesDone
<1>8. StoreTypeOK' /\ \A k \in Jobs \ {j} : status'[k] = status[k]
  BY <1>4 DEF IInv, TypeOK, StoreTypeOK, JobStatus
<1>9. worker' \in [Jobs -> Task] /\ \A k \in Jobs : Consistent(k)'
  BY <1>1, <1>2, <1>4, <1>5, <1>7, <1>8, OtherJobs
<1>10. faults' \in Nat /\ server' = server /\ stops' = stops
  BY DbReplyType DEF CreateSearch, IInv
<1> QED
  BY <1>8, <1>9, <1>10 DEF IInv, TypeOK

\* The steps that only move a task: its two reads, the connector and a cancel.
LEMMA MoveStep ==
  ASSUME IInv, NEW j \in Jobs, NEW task \in Task, SetTask(j, task), Position(task),
         UNCHANGED storeVars, faults' \in Nat, stops' = stops, server' = server,
         Written(worker[j]) \subseteq Written(task),
         task.at \in Appending /\ task.emitting = "job_done" =>
           /\ worker[j].at \in Appending /\ worker[j].emitting = "job_done"
           /\ task.results = worker[j].results
  PROVE  IInv'
<1>1. worker' \in [Jobs -> Task] /\ \A k \in Jobs : Consistent(k)'
  BY MovedTask
<1>2. StoreTypeOK'
  BY DEF IInv, TypeOK, StoreTypeOK, storeVars
<1> QED
  BY <1>1, <1>2 DEF IInv, TypeOK

\* A call that does not go on unwinds the task; it may leave the log one event
\* longer or not.
LEMMA UnwindStep ==
  ASSUME IInv, NEW j \in Jobs, NEW escapes, SetTask(j, Unwound(worker[j], escapes)),
         UNCHANGED storeVars, faults' \in Nat, stops' = stops, server' = server,
         worker[j].at \in Awaits
  PROVE  IInv'
<1> DEFINE t == worker[j]
           task == Unwound(t, escapes)
<1>1. t \in Task /\ Position(t)
  BY DEF IInv, TypeOK, Consistent
<1>2. /\ task \in Task /\ Position(task) /\ task.at \in {"mark_failed", "ended"}
      /\ task.seq = t.seq
  BY <1>1, UnwoundTask
<1>3. Written(t) \subseteq Written(task) /\ task.at \notin Appending
  BY <1>2 DEF Written, Appending
<1> QED
  BY <1>2, <1>3, MoveStep

LEMMA GetJobStep ==
  ASSUME IInv, NEW j \in Jobs, GetJob(j)
  PROVE  IInv'
<1> DEFINE t == worker[j]
           task == [t EXCEPT !.at = "mark_running"]
<1>1. t \in Task /\ Position(t) /\ t.at = "get_job" /\ t.at \in Awaits
  BY DEF IInv, TypeOK, Consistent, GetJob, Awaits
<1>2. PICK reply \in Replies : DbReply(reply) /\ SetTask(j, AfterCall(t, reply, Live(j), task))
  BY DEF GetJob
<1>3. faults' \in Nat /\ UNCHANGED storeVars /\ stops' = stops /\ server' = server
  BY <1>2, DbReplyType DEF GetJob, IInv
<1>4. CASE reply = "ok" /\ Live(j)
  <2>1. SetTask(j, task)
    BY <1>2, <1>4 DEF AfterCall
  <2>2. task \in Task /\ Position(task) /\ task.at = "mark_running" /\ task.seq = t.seq
    BY <1>1 DEF Task, Position, Awaits, Appending
  <2>3. Written(t) \subseteq Written(task) /\ task.at \notin Appending
    BY <1>1, <2>2 DEF Written, Appending
  <2> QED
    BY <1>3, <2>1, <2>2, <2>3, MoveStep
<1>5. CASE ~(reply = "ok" /\ Live(j))
  BY <1>1, <1>2, <1>3, <1>5, UnwindStep DEF AfterCall
<1> QED
  BY <1>4, <1>5

LEMMA AppendSelectStep ==
  ASSUME IInv, NEW j \in Jobs, AppendSelect(j)
  PROVE  IInv'
<1> DEFINE t == worker[j]
           task == [t EXCEPT !.at = "append_insert"]
<1>1. t \in Task /\ Position(t) /\ t.at = "append_select" /\ t.at \in Awaits
  BY DEF IInv, TypeOK, Consistent, AppendSelect, Awaits
<1>2. PICK reply \in Replies : DbReply(reply) /\ SetTask(j, AfterCall(t, reply, Live(j), task))
  BY DEF AppendSelect
<1>3. faults' \in Nat /\ UNCHANGED storeVars /\ stops' = stops /\ server' = server
  BY <1>2, DbReplyType DEF AppendSelect, IInv
<1>4. CASE reply = "ok" /\ Live(j)
  <2>1. SetTask(j, task)
    BY <1>2, <1>4 DEF AfterCall
  <2>2. /\ task \in Task /\ Position(task) /\ task.at = "append_insert"
        /\ task.seq = t.seq /\ task.emitting = t.emitting /\ task.results = t.results
    BY <1>1 DEF Task, Position, Awaits, Appending
  <2>3. Written(t) \subseteq Written(task) /\ t.at \in Appending
    BY <1>1, <2>2 DEF Written, Appending
  <2> QED
    BY <1>3, <2>1, <2>2, <2>3, MoveStep
<1>5. CASE ~(reply = "ok" /\ Live(j))
  BY <1>1, <1>2, <1>3, <1>5, UnwindStep DEF AfterCall
<1> QED
  BY <1>4, <1>5

LEMMA ConnectorEscapesStep ==
  ASSUME IInv, NEW j \in Jobs, ConnectorEscapes(j)
  PROVE  IInv'
<1>1. worker[j].at \in Awaits /\ faults' \in Nat
  BY DEF ConnectorEscapes, Awaits, IInv, TypeOK
<1> QED
  BY <1>1, UnwindStep DEF ConnectorEscapes

LEMMA ConnectorAnswersStep ==
  ASSUME IInv, NEW j \in Jobs, ConnectorAnswers(j)
  PROVE  IInv'
<1> DEFINE t == worker[j]
           n == Len(t.results)
<1>1. t \in Task /\ Position(t) /\ t.at = "connector"
  BY DEF IInv, TypeOK, Consistent, ConnectorAnswers
<1>2. n \in Nat /\ n < Len(Plan) /\ t.seq \in Nat /\ t.seq = 2 * n + 2
  BY <1>1 DEF Task, Position
<1>3. PICK st \in Answers \union {"error"} :
        SetTask(j, Emitting([t EXCEPT !.results =
                               Append(@, [connector |-> Plan[n + 1], status |-> st])],
                            "connector_result"))
  BY DEF ConnectorAnswers
<1> DEFINE result == [connector |-> Plan[n + 1], status |-> st]
           grown == [t EXCEPT !.results = Append(@, result)]
           task == Emitting(grown, "connector_result")
<1>4. result \in [connector : Connectors, status : ConnectorStatus]
  BY <1>2, PlanFacts, AnswersAssumption DEF ConnectorStatus
<1>5. /\ Append(t.results, result) \in Seq([connector : Connectors, status : ConnectorStatus])
      /\ Len(Append(t.results, result)) = n + 1
  BY <1>1, <1>4 DEF Task
<1>6. /\ grown \in Task /\ grown.seq = t.seq
      /\ grown.results = Append(t.results, result)
  BY <1>1, <1>5 DEF Task
<1> HIDE DEF result, grown
<1>7. /\ task \in Task /\ task.at = "append_select" /\ task.emitting = "connector_result"
      /\ task.seq = t.seq + 1 /\ task.results = Append(t.results, result)
  BY <1>6, EmittingTask DEF EventTypes
<1> HIDE DEF task
<1>8. Position(task)
  BY <1>2, <1>5, <1>7, PlanFacts DEF Position, Appending, LogLength
<1>9. Written(t) = {t.seq} /\ Written(task) = {t.seq}
  BY <1>1, <1>2, <1>7 DEF Written, Appending
<1> QED
  BY <1>3, <1>7, <1>8, <1>9, MoveStep DEF ConnectorAnswers, task, grown, result, IInv, TypeOK

LEMMA CancelStep ==
  ASSUME IInv, NEW j \in Jobs, Cancel(j)
  PROVE  IInv'
<1> DEFINE t == worker[j]
           at == IF t.at = "mark_failed" THEN "ended" ELSE "mark_failed"
           task == [t EXCEPT !.at = at]
<1>1. t \in Task /\ Position(t) /\ t.at \in Awaits /\ SetTask(j, task)
  BY DEF IInv, TypeOK, Consistent, Cancel, JobWorkers
<1>2. task \in Task /\ Position(task) /\ task.at = at /\ task.seq = t.seq
  BY <1>1, DyingTask
<1>3. Written(t) \subseteq Written(task) /\ task.at \notin Appending
  BY <1>2 DEF Written, Appending
<1> QED
  BY <1>1, <1>2, <1>3, MoveStep DEF Cancel, IInv, TypeOK

\* The statements that write the status column, before the task moves on.
LEMMA MarkStep ==
  ASSUME IInv, NEW j \in Jobs, NEW from \in SUBSET {"queued", "running"},
         NEW to \in JobStatus, NEW result \in ConnectorStatus \union {None},
         NEW reply, Executed(reply, Update(j, from, to, result)),
         NEW task \in Task, SetTask(j, task), Position(task),
         faults' \in Nat, stops' = stops, server' = server,
         Written(worker[j]) \subseteq Written(task),
         task.at \in Appending /\ task.emitting = "job_done" =>
           status'[j] = "done" /\ overall'[j] = OverallStatus(task.results)
  PROVE  IInv'
<1>1. /\ StoreTypeOK'
      /\ events' = events
      /\ \A k \in Jobs \ {j} : status'[k] = status[k] /\ overall'[k] = overall[k]
      /\ status[j] \notin from => status'[j] = status[j] /\ overall'[j] = overall[j]
      /\ status'[j] = "absent" <=> status[j] = "absent"
  <2>1. CASE Committed(reply)
    BY <2>1, UpdateEffect DEF Executed, IInv
  <2>2. CASE ~Committed(reply)
    BY <2>2 DEF Executed, storeVars, IInv, TypeOK, StoreTypeOK
  <2> QED
    BY <2>1, <2>2
<1>2. worker'[j] = task /\ Consistent(j)
  BY DEF IInv, TypeOK, SetTask
<1>3. \A k \in Jobs : EventsOf(k)' = EventsOf(k) /\ SeqsOf(k)' = SeqsOf(k)
  BY <1>1 DEF EventsOf, SeqsOf
<1>4. status[j] = "done" => status'[j] = status[j] /\ overall'[j] = overall[j]
  BY <1>1
<1>5. Consistent(j)'
  BY <1>1, <1>2, <1>3, <1>4 DEF Consistent, LogMatchesTask, AnnouncesDone
<1>6. worker' \in [Jobs -> Task] /\ \A k \in Jobs : Consistent(k)'
  BY <1>1, <1>3, <1>5, OtherJobs
<1> QED
  BY <1>1, <1>6 DEF IInv, TypeOK

LEMMA MarkJobRunningStep ==
  ASSUME IInv, NEW j \in Jobs, MarkJobRunning(j)
  PROVE  IInv'
<1> DEFINE t == worker[j]
           task == Emitting(t, "job_started")
           goesOn == Matches(j, RunnableFrom)
<1>1. t \in Task /\ Position(t) /\ t.at = "mark_running" /\ overall[j] \in ConnectorStatus \union {None}
  BY DEF IInv, TypeOK, StoreTypeOK, Consistent, MarkJobRunning
<1>2. PICK reply \in Replies :
        /\ DbReply(reply)
        /\ Executed(reply, MarkRunning(j))
        /\ SetTask(j, AfterCall(t, reply, goesOn, task))
  BY DEF MarkJobRunning
<1>3. /\ faults' \in Nat /\ stops' = stops /\ server' = server
      /\ Executed(reply, Update(j, RunnableFrom, "running", overall[j]))
      /\ RunnableFrom \in SUBSET {"queued", "running"} /\ "running" \in JobStatus
  BY <1>2, DbReplyType DEF MarkJobRunning, IInv, MarkRunning, RunnableFrom, JobStatus
<1>4. t.seq = 0 /\ Len(t.results) = 0 /\ Written(t) = {0}
  BY <1>1 DEF Position, Written, Appending
<1>5. CASE reply = "ok" /\ goesOn
  <2>1. SetTask(j, task)
    BY <1>2, <1>5 DEF AfterCall
  <2>2. /\ task \in Task /\ task.at = "append_select" /\ task.emitting = "job_started"
        /\ task.seq = t.seq + 1 /\ task.results = t.results
    BY <1>1, EmittingTask DEF EventTypes
  <2> HIDE DEF task
  <2>3. Position(task) /\ Written(task) = {0}
    BY <1>4, <2>2, PlanFacts DEF Position, Written, Appending, LogLength
  <2>4. Written(t) \subseteq Written(task) /\ task.emitting # "job_done"
    BY <1>4, <2>2, <2>3
  <2> QED
    BY <1>1, <1>3, <2>1, <2>2, <2>3, <2>4, MarkStep
<1>6. CASE ~(reply = "ok" /\ goesOn)
  <2> DEFINE unwound == Unwound(t, Escapes(reply))
  <2>1. SetTask(j, unwound)
    BY <1>2, <1>6 DEF AfterCall
  <2>2. /\ unwound \in Task /\ Position(unwound) /\ unwound.seq = t.seq
        /\ unwound.at \in {"mark_failed", "ended"}
    BY <1>1, UnwoundTask
  <2>3. Written(t) \subseteq Written(unwound) /\ unwound.at \notin Appending
    BY <1>4, <2>2 DEF Written, Appending
  <2> HIDE DEF unwound
  <2> QED
    BY <1>1, <1>3, <2>1, <2>2, <2>3, MarkStep
<1> QED
  BY <1>5, <1>6

LEMMA MarkJobDoneStep ==
  ASSUME IInv, NEW j \in Jobs, MarkJobDone(j)
  PROVE  IInv'
<1> DEFINE t == worker[j]
           result == OverallStatus(t.results)
           task == Emitting(t, "job_done")
           goesOn == Matches(j, FinishableFrom)
<1>1. /\ t \in Task /\ Position(t) /\ t.at = "mark_done" /\ TypeOK
      /\ result \in ConnectorStatus \union {None}
  BY OverallStatusType DEF IInv, TypeOK, Consistent, MarkJobDone
<1>2. PICK reply \in Replies :
        /\ DbReply(reply)
        /\ Executed(reply, MarkDone(j, result))
        /\ SetTask(j, AfterCall(t, reply, goesOn, task))
  BY DEF MarkJobDone
<1>3. /\ faults' \in Nat /\ stops' = stops /\ server' = server
      /\ Executed(reply, Update(j, FinishableFrom, "done", result))
      /\ FinishableFrom \in SUBSET {"queued", "running"} /\ "done" \in JobStatus
  BY <1>2, DbReplyType DEF MarkJobDone, IInv, MarkDone, FinishableFrom, JobStatus
<1>4. /\ t.seq \in Nat /\ Len(t.results) = Len(Plan) /\ t.seq = 2 * Len(Plan) + 2
      /\ Written(t) = {t.seq}
  BY <1>1 DEF Task, Position, Written, Appending
<1>5. CASE reply = "ok" /\ goesOn
  <2>1. SetTask(j, task)
    BY <1>2, <1>5 DEF AfterCall
  <2>2. /\ task \in Task /\ task.at = "append_select" /\ task.emitting = "job_done"
        /\ task.seq = t.seq + 1 /\ task.results = t.results
    BY <1>1, EmittingTask DEF EventTypes
  <2>3. status'[j] = "done" /\ overall'[j] = result
    BY <1>1, <1>3, <1>5, UpdateEffect DEF Executed, Committed
  <2> HIDE DEF task
  <2>4. Position(task) /\ Written(task) = {t.seq}
    BY <1>4, <2>2, PlanFacts DEF Position, Written, Appending, LogLength
  <2> QED
    BY <1>1, <1>3, <1>4, <2>1, <2>2, <2>3, <2>4, MarkStep
<1>6. CASE ~(reply = "ok" /\ goesOn)
  <2> DEFINE unwound == Unwound(t, Escapes(reply))
  <2>1. SetTask(j, unwound)
    BY <1>2, <1>6 DEF AfterCall
  <2>2. /\ unwound \in Task /\ Position(unwound) /\ unwound.seq = t.seq
        /\ unwound.at \in {"mark_failed", "ended"}
    BY <1>1, UnwoundTask
  <2>3. Written(t) \subseteq Written(unwound) /\ unwound.at \notin Appending
    BY <1>4, <2>2 DEF Written, Appending
  <2> HIDE DEF unwound, result
  <2> QED
    BY <1>1, <1>3, <2>1, <2>2, <2>3, MarkStep
<1> QED
  BY <1>5, <1>6

LEMMA MarkJobFailedStep ==
  ASSUME IInv, NEW j \in Jobs, MarkJobFailed(j)
  PROVE  IInv'
<1> DEFINE t == worker[j]
           task == [t EXCEPT !.at = "ended"]
<1>1. /\ t \in Task /\ Position(t) /\ t.at = "mark_failed" /\ TypeOK
      /\ overall[j] \in ConnectorStatus \union {None}
  BY DEF IInv, TypeOK, StoreTypeOK, Consistent, MarkJobFailed
<1>2. PICK reply \in Replies : DbReply(reply) /\ Executed(reply, MarkFailed(j))
  BY DEF MarkJobFailed
<1>3. /\ faults' \in Nat /\ stops' = stops /\ server' = server /\ SetTask(j, task)
      /\ Executed(reply, Update(j, FinishableFrom, "failed", overall[j]))
      /\ FinishableFrom \in SUBSET {"queued", "running"} /\ "failed" \in JobStatus
  BY <1>2, DbReplyType DEF MarkJobFailed, IInv, MarkFailed, FinishableFrom, JobStatus
<1>4. task \in Task /\ Position(task) /\ task.at = "ended" /\ task.seq = t.seq
  BY <1>1, DyingTask
<1>5. Written(t) \subseteq Written(task) /\ task.at \notin Appending
  BY <1>1, <1>4 DEF Written, Appending
<1> HIDE DEF task
<1> QED
  BY <1>1, <1>3, <1>4, <1>5, MarkStep

\* An event that is inserted is the next of its job's log; one that is refused
\* belongs to a job that was purged.
LEMMA InsertEffect ==
  ASSUME IInv, NEW j \in Jobs, worker[j].at = "append_insert",
         InsertEvent(EventRowOf(j, worker[j]))
  PROVE  /\ events' \subseteq EventRow
         /\ \A k \in Jobs \ {j} : EventsOf(k)' = EventsOf(k)
         /\ status' = status /\ overall' = overall /\ expired' = expired
         /\ Insertable(j, worker[j].seq) <=> status[j] # "absent"
         /\ Insertable(j, worker[j].seq) =>
              /\ EventsOf(j)' = EventsOf(j) \union {EventRowOf(j, worker[j])}
              /\ SeqsOf(j)' = 1..worker[j].seq
              /\ \A e \in EventsOf(j) : e.seq # worker[j].seq
         /\ ~Insertable(j, worker[j].seq) => EventsOf(j)' = EventsOf(j)
<1> DEFINE t == worker[j]
           row == EventRowOf(j, t)
<1>1. t \in Task /\ Position(t) /\ t.at \in Appending /\ Consistent(j)
  BY DEF IInv, TypeOK, Consistent, Appending
<1>2. row \in EventRow /\ row.job = j /\ row.seq = t.seq
  BY <1>1, EventRowOfType
<1>3. t.seq \in Nat \ {0}
  BY <1>1, PlanFacts DEF Task, Position, Appending
<1>4. status[j] # "absent" => SeqsOf(j) = 1..(t.seq - 1)
  BY <1>1 DEF Consistent, LogMatchesTask, Written
<1>5. Insertable(j, t.seq) <=> status[j] # "absent"
  BY <1>3, <1>4 DEF Insertable
<1> HIDE DEF row
<1>6. events' = IF Insertable(j, t.seq) THEN events \union {row} ELSE events
  BY <1>2 DEF InsertEvent, row
<1>7. ASSUME Insertable(j, t.seq)
      PROVE  /\ EventsOf(j)' = EventsOf(j) \union {row}
             /\ SeqsOf(j)' = 1..t.seq
             /\ \A e \in EventsOf(j) : e.seq # t.seq
  <2>1. EventsOf(j)' = EventsOf(j) \union {row}
    BY <1>2, <1>6, <1>7 DEF EventsOf
  <2>2. SeqsOf(j)' = SeqsOf(j) \union {t.seq}
    BY <1>2, <2>1 DEF SeqsOf
  <2>3. SeqsOf(j)' = 1..t.seq
    BY <1>3, <1>4, <1>5, <1>7, <2>2
  <2> QED
    BY <1>7, <2>1, <2>3 DEF Insertable, SeqsOf
<1>8. \A k \in Jobs \ {j} : EventsOf(k)' = EventsOf(k)
  BY <1>2, <1>6 DEF EventsOf
<1>9. events' \subseteq EventRow
  BY <1>2, <1>6 DEF IInv, TypeOK, StoreTypeOK
<1>10. status' = status /\ overall' = overall /\ expired' = expired
  BY DEF InsertEvent
<1>11. ~Insertable(j, t.seq) => EventsOf(j)' = EventsOf(j)
  BY <1>6 DEF EventsOf
<1> QED
  BY <1>5, <1>7, <1>8, <1>9, <1>10, <1>11 DEF row

LEMMA AppendInsertStep ==
  ASSUME IInv, NEW j \in Jobs, AppendInsert(j)
  PROVE  IInv'
<1> DEFINE t == worker[j]
           row == EventRowOf(j, t)
           goesOn == Insertable(j, t.seq)
<1>1. /\ t \in Task /\ Position(t) /\ t.at = "append_insert"
      /\ t.at \in Appending /\ t.at \in Awaits /\ Consistent(j)
  BY DEF IInv, TypeOK, Consistent, AppendInsert, Appending, Awaits
<1>2. PICK reply \in Replies :
        /\ DbReply(reply)
        /\ Executed(reply, InsertEvent(row))
        /\ SetTask(j, AfterCall(t, reply, goesOn, AfterEvent(t)))
  BY DEF AppendInsert
<1> DEFINE task == worker'[j]
<1>3. faults' \in Nat /\ stops' = stops /\ server' = server
  BY <1>2, DbReplyType DEF AppendInsert, IInv
<1>4. task = AfterCall(t, reply, goesOn, AfterEvent(t)) /\ SetTask(j, task)
  BY <1>2 DEF SetTask, IInv, TypeOK
<1>5. /\ task \in Task /\ Position(task)
      /\ task.at \in Appending =>
           task.seq = t.seq + 1 /\ task.emitting # "job_done"
      /\ task.at \notin Appending => task.seq = t.seq
      /\ ~(reply = "ok" /\ goesOn) => task.at \in {"mark_failed", "ended"}
  <2>1. CASE reply = "ok" /\ goesOn
    BY <1>1, <1>4, <2>1, AfterEventTask DEF AfterCall
  <2>2. CASE ~(reply = "ok" /\ goesOn)
    BY <1>1, <1>4, <2>2, UnwoundTask DEF AfterCall, Appending
  <2> QED
    BY <2>1, <2>2
<1>6. t.seq \in Nat /\ t.seq \in Written(task)
  BY <1>1, <1>5 DEF Written, Task
<1> HIDE DEF task
<1>7. CASE ~Committed(reply)
  <2>1. UNCHANGED storeVars /\ Written(t) \subseteq Written(task) /\ task.at \notin Appending
    BY <1>1, <1>2, <1>5, <1>7 DEF Executed, Committed, Written, Appending
  <2> QED
    BY <1>3, <1>4, <1>5, <2>1, MoveStep
<1>8. CASE Committed(reply)
  <2>1. InsertEvent(row)
    BY <1>2, <1>8 DEF Executed
  <2>2. /\ events' \subseteq EventRow
        /\ \A k \in Jobs \ {j} : EventsOf(k)' = EventsOf(k)
        /\ status' = status /\ overall' = overall /\ expired' = expired
        /\ goesOn <=> status[j] # "absent"
        /\ goesOn => /\ EventsOf(j)' = EventsOf(j) \union {row}
                     /\ SeqsOf(j)' = 1..t.seq
                     /\ \A e \in EventsOf(j) : e.seq # t.seq
        /\ ~goesOn => EventsOf(j)' = EventsOf(j)
    BY <1>1, <2>1, InsertEffect
  <2>3. /\ row.seq = t.seq /\ row.type = t.emitting
        /\ t.emitting = "job_done" => row.status = OverallStatus(t.results)
    BY <1>1, EventRowOfType
  <2>4. StoreTypeOK'
    BY <2>2 DEF IInv, TypeOK, StoreTypeOK
  <2> HIDE DEF row, goesOn
  <2>5. CASE goesOn
    <3>1. LogMatchesTask(j)'
      BY <1>6, <2>2, <2>5 DEF LogMatchesTask, task
    <3>2. AnnouncesDone(j)'
      BY <1>5 DEF AnnouncesDone, task
    <3>3. row.type = "job_done" => status[j] = "done" /\ overall[j] = row.status
      BY <1>1, <2>2, <2>3, <2>5 DEF Consistent, AnnouncesDone
    <3>4. \A e, f \in EventsOf(j)' : e.seq = f.seq => e = f
      BY <1>1, <2>2, <2>3, <2>5 DEF Consistent
    <3>5. Consistent(j)'
      BY <1>1, <1>5, <2>2, <2>5, <3>1, <3>2, <3>3, <3>4 DEF Consistent, task
    <3> QED
      BY <1>3, <1>4, <1>5, <2>2, <2>4, <3>5, OtherJobs DEF IInv, TypeOK
  <2>6. CASE ~goesOn
    <3>1. Consistent(j)'
      BY <1>1, <1>5, <2>2, <2>6 DEF Consistent, LogMatchesTask, AnnouncesDone, task
    <3> QED
      BY <1>3, <1>4, <1>5, <2>2, <2>4, <3>1, OtherJobs DEF IInv, TypeOK
  <2> QED
    BY <2>5, <2>6
<1> QED
  BY <1>7, <1>8

LEMMA TaskStepStep ==
  ASSUME IInv, NEW j \in Jobs, TaskStep(j)
  PROVE  IInv'
BY GetJobStep, MarkJobRunningStep, AppendSelectStep, AppendInsertStep, ConnectorAnswersStep,
   ConnectorEscapesStep, MarkJobDoneStep, MarkJobFailedStep
   DEF TaskStep

\* The steps of the process that move no task.
LEMMA ServerStep ==
  ASSUME IInv, Shutdown \/ Exit \/ Restart
  PROVE  IInv'
<1>1. UNCHANGED <<storeVars, worker>> /\ TypeOK'
  BY DEF Shutdown, Exit, Restart, IInv, TypeOK, StoreTypeOK, storeVars
<1> QED
  BY <1>1 DEF IInv, Consistent, LogMatchesTask, AnnouncesDone, EventsOf, SeqsOf, storeVars

LEMMA CrashStep ==
  ASSUME IInv, Crash
  PROVE  IInv'
<1>1. ASSUME NEW j \in Jobs
      PROVE  worker'[j] \in Task /\ Consistent(j)'
  <2> DEFINE t == worker[j]
             task == worker'[j]
  <2>1. t \in Task /\ Consistent(j) /\ Position(t)
    BY DEF IInv, TypeOK, Consistent
  <2>2. IF t.at \in Awaits THEN task = [t EXCEPT !.at = "ended"] ELSE task = t
    BY DEF Crash, LoseTasks, JobWorkers
  <2>3. EventsOf(j)' = EventsOf(j) /\ SeqsOf(j)' = SeqsOf(j)
    BY DEF Crash, EventsOf, SeqsOf, storeVars
  <2>4. CASE t.at \in Awaits
    <3>1. task \in Task /\ Position(task) /\ task.at = "ended" /\ task.seq = t.seq
      BY <2>1, <2>2, <2>4, DyingTask
    <3>2. Written(t) \subseteq Written(task) /\ task.at \notin Appending
      BY <3>1 DEF Written, Appending
    <3> QED
      BY <2>1, <2>3, <3>1, <3>2 DEF Consistent, LogMatchesTask, AnnouncesDone, Crash, storeVars
  <2>5. CASE t.at \notin Awaits
    BY <2>1, <2>2, <2>3, <2>5 DEF Consistent, LogMatchesTask, AnnouncesDone, Crash, storeVars
  <2> QED
    BY <2>4, <2>5
<1>2. worker' \in [Jobs -> Task]
  <2>1. worker' = [j \in Jobs |-> worker'[j]]
    BY DEF Crash, LoseTasks
  <2> QED
    BY <1>1, <2>1
<1> QED
  BY <1>1, <1>2 DEF Crash, IInv, TypeOK, StoreTypeOK, storeVars

\* The cascade deletes the log with its job, so that no event is orphaned.
LEMMA PurgeStep ==
  ASSUME IInv, Purge
  PROVE  IInv'
<1>1. TypeOK'
  BY DEF Purge, PurgeExpired, IInv, TypeOK, StoreTypeOK, workerVars
<1>2. ASSUME NEW j \in Jobs
      PROVE  Consistent(j)'
  <2>1. Consistent(j) /\ worker'[j] = worker[j]
    BY DEF IInv, Purge, workerVars
  <2>2. CASE j \in Purgeable
    <3>1. status'[j] = "absent" /\ EventsOf(j)' = {}
      BY <2>2 DEF Purge, PurgeExpired, EventsOf
    <3> QED
      BY <2>1, <3>1 DEF Consistent, LogMatchesTask, AnnouncesDone
  <2>3. CASE j \notin Purgeable
    <3>1. /\ status'[j] = status[j] /\ overall'[j] = overall[j]
          /\ EventsOf(j)' = EventsOf(j)
      BY <2>3 DEF Purge, PurgeExpired, EventsOf
    <3> QED
      BY <2>1, <3>1 DEF Consistent, LogMatchesTask, AnnouncesDone, SeqsOf
  <2> QED
    BY <2>2, <2>3
<1> QED
  BY <1>1, <1>2 DEF IInv

LEMMA ClockStep ==
  ASSUME IInv, NEW j \in Jobs, Clock(j)
  PROVE  IInv'
<1>1. TypeOK' /\ UNCHANGED <<status, overall, events, worker>>
  BY DEF Clock, Expire, IInv, TypeOK, StoreTypeOK, workerVars
<1> QED
  BY <1>1 DEF IInv, Consistent, LogMatchesTask, AnnouncesDone, EventsOf, SeqsOf

LEMMA StutteringStep ==
  ASSUME IInv, UNCHANGED vars
  PROVE  IInv'
BY DEF IInv, TypeOK, StoreTypeOK, Consistent, LogMatchesTask, AnnouncesDone,
       EventsOf, SeqsOf, vars, storeVars, workerVars

-----------------------------------------------------------------------------
(***************************************************************************)
(* The theorems.                                                           *)
(***************************************************************************)
LEMMA InitialState ==
  ASSUME Init
  PROVE  IInv
<1>1. NoTask \in Task /\ Position(NoTask) /\ NoTask.at = "none"
  <2>1. [NoTask EXCEPT !.at = "none"] = NoTask
    BY DEF NoTask
  <2> QED
    BY <2>1, NewTask
<1>2. TypeOK
  BY <1>1 DEF Init, StoreInit, TypeOK, StoreTypeOK
<1>3. ASSUME NEW j \in Jobs
      PROVE  Consistent(j)
  BY <1>1 DEF Init, StoreInit, Consistent, LogMatchesTask, AnnouncesDone, EventsOf
<1> QED
  BY <1>2, <1>3 DEF IInv

\* The row, the log and the task of every job agree in every reachable state.
THEOREM Invariance == Spec => []IInv
<1>1. Init => IInv
  BY InitialState
<1>2. IInv /\ [Next]_vars => IInv'
  <2> SUFFICES ASSUME IInv, [Next]_vars
               PROVE  IInv'
    OBVIOUS
  <2>1. ASSUME NEW j \in Jobs, NEW reply \in Replies, CreateSearch(j, reply)
        PROVE  IInv'
    BY <2>1, CreateSearchStep
  <2>2. ASSUME NEW j \in Jobs, TaskStep(j) \/ Cancel(j) \/ Clock(j)
        PROVE  IInv'
    BY <2>2, TaskStepStep, CancelStep, ClockStep
  <2>3. CASE Shutdown \/ Exit \/ Crash \/ Restart \/ Purge
    BY <2>3, ServerStep, CrashStep, PurgeStep
  <2>4. CASE UNCHANGED vars
    BY <2>4, StutteringStep
  <2> QED
    BY <2>1, <2>2, <2>3, <2>4 DEF Next
<1> QED
  BY <1>1, <1>2, PTL DEF Spec

\* Types: the columns of both tables, and the locals of every task, keep the
\* values the code gives them.
THEOREM TypeCorrect == Spec => []TypeOK
BY Invariance, PTL DEF IInv

\* A consistent state has a log without holes.
LEMMA GapFreeStates ==
  ASSUME IInv
  PROVE  GapFreeLog
<1>1. ASSUME NEW j \in Jobs
      PROVE  \E n \in 0..LogLength : SeqsOf(j) = 1..n
  <2> DEFINE t == worker[j]
  <2>1. Consistent(j) /\ t \in Task /\ Position(t)
    BY DEF IInv, TypeOK, Consistent
  <2>2. CASE status[j] = "absent"
    <3>1. SeqsOf(j) = {} /\ 1..0 = {} /\ 0 \in 0..LogLength
      BY <2>1, <2>2, PlanFacts DEF Consistent, SeqsOf, LogLength
    <3> QED
      BY <3>1
  <2>3. CASE status[j] # "absent"
    <3>1. PICK n \in Written(t) : SeqsOf(j) = 1..n
      BY <2>1, <2>3 DEF Consistent, LogMatchesTask
    <3>2. /\ t.seq \in Nat /\ t.seq <= LogLength
          /\ LogLength \in Nat /\ n \in {t.seq - 1, t.seq}
      BY <2>1, PlanFacts DEF Task, Position, Written, LogLength
    <3>3. CASE n = -1
      <4>1. 1..n = 1..0 /\ 0 \in 0..LogLength
        BY <3>2, <3>3
      <4> QED
        BY <3>1, <4>1
    <3>4. CASE n # -1
      BY <3>1, <3>2, <3>4
    <3> QED
      BY <3>3, <3>4
  <2> QED
    BY <2>2, <2>3
<1>2. ASSUME NEW e \in events, NEW f \in events, e.job = f.job, e.seq = f.seq
      PROVE  e = f
  <2>1. e.job \in Jobs /\ e \in EventsOf(e.job) /\ f \in EventsOf(e.job)
    BY <1>2 DEF IInv, TypeOK, StoreTypeOK, EventRow, EventsOf
  <2> QED
    BY <1>2, <2>1 DEF IInv, Consistent
<1> QED
  BY <1>1, <1>2 DEF GapFreeLog

\* The events of every job are numbered 1, 2, 3, ... without hole or repetition,
\* whatever append fails or whenever the process dies (_execute_job, append_event).
THEOREM LogIsGapFree == Spec => []GapFreeLog
BY GapFreeStates, Invariance, PTL

\* A job_done event is only read beside a row that says done with the same
\* overall status (mark_done, then append_event in _execute_job).
THEOREM DoneEventIsTrue == Spec => []JobDoneIsTrue
<1>1. IInv => JobDoneIsTrue
  BY DEF IInv, TypeOK, StoreTypeOK, EventRow, Consistent, EventsOf, JobDoneIsTrue
<1> QED
  BY <1>1, Invariance, PTL

\* The purge and append_event never leave an event without its job.
THEOREM EventsHaveTheirJob == Spec => []NoOrphanEvent
<1>1. IInv => NoOrphanEvent
  BY DEF IInv, TypeOK, StoreTypeOK, EventRow, Consistent, EventsOf, NoOrphanEvent
<1> QED
  BY <1>1, Invariance, PTL

\* No step changes the status or the result of a finished job, except the purge
\* of an expired one.
THEOREM FinishedJobsStay == Spec => TerminalIsFinal
<1> DEFINE Stays == \A j \in Jobs : status[j] \in Terminal =>
                      \/ status'[j] = status[j] /\ overall'[j] = overall[j]
                      \/ status'[j] = "absent" /\ j \in expired
<1>1. IInv /\ [Next]_vars => [Stays]_vars
  <2> SUFFICES ASSUME IInv, Next, NEW j \in Jobs, status[j] \in Terminal
               PROVE  \/ status'[j] = status[j] /\ overall'[j] = overall[j]
                      \/ status'[j] = "absent" /\ j \in expired
    OBVIOUS
  <2>1. ASSUME NEW k \in Jobs, NEW reply \in Replies, CreateSearch(k, reply)
        PROVE  status'[j] = status[j] /\ overall'[j] = overall[j]
    BY <2>1 DEF CreateSearch, Executed, InsertJob, storeVars, Terminal, IInv, TypeOK, StoreTypeOK
  <2>2. ASSUME NEW k \in Jobs, NEW from \in SUBSET {"queued", "running"}, NEW to,
               NEW result, NEW reply, Executed(reply, Update(k, from, to, result))
        PROVE  status'[j] = status[j] /\ overall'[j] = overall[j]
    BY <2>2 DEF Executed, Update, Matches, storeVars, Terminal, IInv, TypeOK, StoreTypeOK
  <2>3. ASSUME NEW k \in Jobs, TaskStep(k) \/ Cancel(k) \/ Clock(k)
        PROVE  status'[j] = status[j] /\ overall'[j] = overall[j]
    <3>1. RunnableFrom \in SUBSET {"queued", "running"}
          /\ FinishableFrom \in SUBSET {"queued", "running"}
      BY DEF RunnableFrom, FinishableFrom
    <3>2. CASE MarkJobRunning(k) \/ MarkJobDone(k) \/ MarkJobFailed(k)
      BY <2>2, <3>1, <3>2 DEF MarkJobRunning, MarkJobDone, MarkJobFailed,
         MarkRunning, MarkDone, MarkFailed
    <3>3. CASE UNCHANGED <<status, overall>>
      BY <3>3
    <3>4. CASE AppendInsert(k)
      BY <3>4 DEF AppendInsert, Executed, InsertEvent, storeVars
    <3> QED
      BY <2>3, <3>2, <3>3, <3>4 DEF TaskStep, GetJob, AppendSelect, ConnectorAnswers,
         ConnectorEscapes, Cancel, Clock, Expire, storeVars
  <2>4. CASE Shutdown \/ Exit \/ Crash \/ Restart
    BY <2>4 DEF Shutdown, Exit, Crash, Restart, storeVars
  <2>5. CASE Purge
    BY <2>5 DEF Purge, PurgeExpired, Purgeable
  <2> QED
    BY <2>1, <2>3, <2>4, <2>5 DEF Next
<1> QED
  BY <1>1, Invariance, PTL DEF Spec, TerminalIsFinal

-----------------------------------------------------------------------------
(***************************************************************************)
(* The moves of one job.                                                   *)
(***************************************************************************)

\* Nothing a watcher of the job or its results could see.
Quiet(k) ==
  /\ status'[k] = status[k]
  /\ Phase(k)' = Phase(k)
  /\ EventsOf(k)' = EventsOf(k)
  /\ worker'[k].results = worker[k].results
  /\ Working(worker'[k]) => Working(worker[k])

Created(k) ==
  /\ Phase(k) = "none"
  /\ status[k] = "absent" /\ status'[k] = "queued"
  /\ EventsOf(k) = {} /\ EventsOf(k)' = {}
  /\ worker'[k].results = worker[k].results
  /\ ~Working(worker'[k])

Started(k) ==
  /\ status[k] = "queued" /\ status'[k] = "running"
  /\ EventsOf(k)' = EventsOf(k)
  /\ worker'[k].results = worker[k].results

Appended(k) ==
  /\ worker[k].at = "append_insert"
  /\ status[k] # "absent" /\ status'[k] = status[k]
  /\ EventsOf(k)' = EventsOf(k) \union {EventRowOf(k, worker[k])}
  /\ SeqsOf(k)' = 1..worker[k].seq
  /\ worker'[k].results = worker[k].results
  /\ Working(worker'[k]) => Working(worker[k])

Answered(k) ==
  /\ worker[k].at = "connector" /\ Working(worker[k])
  /\ status'[k] = status[k]
  /\ Phase(k)' = Phase(k)
  /\ EventsOf(k)' = EventsOf(k)
  /\ \E st \in ConnectorStatus :
       worker'[k].results =
         Append(worker[k].results,
                [connector |-> Plan[Len(worker[k].results) + 1], status |-> st])

Finished(k) ==
  /\ worker[k].at = "mark_done"
  /\ status[k] \in {"queued", "running"} /\ status'[k] = "done"
  /\ EventsOf(k)' = EventsOf(k)
  /\ worker'[k].results = worker[k].results
  /\ ~Working(worker'[k])

Failed(k) ==
  /\ status[k] \in {"queued", "running"} /\ status'[k] = "failed"
  /\ EventsOf(k)' = EventsOf(k)
  /\ worker'[k].results = worker[k].results
  /\ ~Working(worker'[k])

Forgotten(k) ==
  /\ status[k] # "absent" /\ status'[k] = "absent"
  /\ Phase(k)' = "gone"
  /\ EventsOf(k)' = {}
  /\ worker'[k].results = worker[k].results
  /\ Working(worker'[k]) => Working(worker[k])

\* The moves of a task, Quiet among them.
Moves(j) ==
  Quiet(j) \/ Started(j) \/ Appended(j) \/ Answered(j) \/ Finished(j) \/ Failed(j)

OthersQuiet(j) == \A k \in Jobs \ {j} : Quiet(k)

\* One job moves and the others do not.
Alone(j) == Moves(j) /\ OthersQuiet(j)

-----------------------------------------------------------------------------
(***************************************************************************)
(* Every action is such a move.                                            *)
(***************************************************************************)
LEMMA OthersAreQuiet ==
  ASSUME IInv, NEW j \in Jobs, NEW task, SetTask(j, task), expired' = expired,
         NEW k \in Jobs \ {j}, status'[k] = status[k], EventsOf(k)' = EventsOf(k)
  PROVE  Quiet(k)
<1>1. worker'[k] = worker[k]
  BY DEF IInv, TypeOK, SetTask
<1>2. Phase(k)' = Phase(k)
  BY DEF Phase
<1> QED
  BY <1>1, <1>2 DEF Quiet

\* A step of one task that leaves the store alone and learns nothing.
LEMMA TaskMove ==
  ASSUME IInv, NEW j \in Jobs, NEW task, SetTask(j, task), UNCHANGED storeVars,
         task.results = worker[j].results, Working(task) => Working(worker[j])
  PROVE  Alone(j)
<1>1. worker'[j] = task
  BY DEF IInv, TypeOK, SetTask
<1>2. \A k \in Jobs : EventsOf(k)' = EventsOf(k) /\ status'[k] = status[k] /\ Phase(k)' = Phase(k)
  BY DEF EventsOf, Phase, storeVars
<1>3. Quiet(j)
  BY <1>1, <1>2 DEF Quiet
<1> QED
  BY <1>2, <1>3, OthersAreQuiet DEF Alone, OthersQuiet, Moves, storeVars

LEMMA UnwoundMove ==
  ASSUME NEW t \in Task, NEW escapes
  PROVE  Unwound(t, escapes).results = t.results /\ ~Working(Unwound(t, escapes))
BY DEF Unwound, Working, Appending, Task

LEMMA CreateSearchMove ==
  ASSUME IInv, NEW j \in Jobs, NEW reply \in Replies, CreateSearch(j, reply)
  PROVE  (Quiet(j) \/ Created(j)) /\ OthersQuiet(j)
<1> DEFINE task == [NoTask EXCEPT !.at = IF reply = "ok" THEN "get_job" ELSE "none"]
<1>1. /\ SetTask(j, task) /\ status[j] = "absent" /\ j \notin expired
      /\ Consistent(j) /\ worker[j].at = "none" /\ worker[j] \in Task
  BY DEF CreateSearch, IInv, TypeOK
<1>2. task.results = <<>> /\ task.at \in {"none", "get_job"} /\ ~Working(task)
  BY DEF NoTask, Working, Appending
<1>3. worker[j].results = <<>>
  <2>1. Len(worker[j].results) = 0
    BY <1>1 DEF Consistent, Position
  <2>2. worker[j].results \in Seq([connector : Connectors, status : ConnectorStatus])
    BY <1>1 DEF Task
  <2> QED
    BY <2>1, <2>2
<1> HIDE DEF task
<1>4. CASE UNCHANGED storeVars
  <2>1. worker'[j] = task
    BY <1>1 DEF IInv, TypeOK, SetTask
  <2>2. \A k \in Jobs : EventsOf(k)' = EventsOf(k) /\ status'[k] = status[k] /\ Phase(k)' = Phase(k)
    BY <1>4 DEF EventsOf, Phase, storeVars
  <2>3. Quiet(j)
    BY <1>2, <1>3, <2>1, <2>2 DEF Quiet
  <2> QED
    BY <1>1, <1>4, <2>2, <2>3, OthersAreQuiet DEF OthersQuiet, storeVars
<1>5. CASE InsertJob(j)
  <2>1. /\ worker'[j] = task /\ status'[j] = "queued" /\ expired' = expired
        /\ \A k \in Jobs \ {j} : status'[k] = status[k]
        /\ \A k \in Jobs : EventsOf(k)' = EventsOf(k)
    BY <1>1, <1>5 DEF IInv, TypeOK, StoreTypeOK, SetTask, InsertJob, EventsOf
  <2>2. EventsOf(j) = {} /\ Phase(j) = "none"
    BY <1>1 DEF Consistent, EventsOf, Phase
  <2>3. Created(j)
    BY <1>1, <1>2, <1>3, <2>1, <2>2 DEF Created
  <2> QED
    BY <1>1, <2>1, <2>3, OthersAreQuiet DEF OthersQuiet
<1> QED
  BY <1>4, <1>5 DEF CreateSearch, Executed

LEMMA ReadMove ==
  ASSUME IInv, NEW j \in Jobs, GetJob(j) \/ AppendSelect(j)
  PROVE  Alone(j)
<1> DEFINE t == worker[j]
           next == [t EXCEPT !.at = IF @ = "get_job" THEN "mark_running" ELSE "append_insert"]
<1>1. t \in Task /\ t.at \in {"get_job", "append_select"} /\ UNCHANGED storeVars
  BY DEF IInv, TypeOK, GetJob, AppendSelect
<1>2. PICK reply \in Replies : SetTask(j, AfterCall(t, reply, Live(j), next))
  BY <1>1 DEF GetJob, AppendSelect
<1>3. /\ next.results = t.results /\ next.emitting = t.emitting
      /\ next.at = IF t.at = "get_job" THEN "mark_running" ELSE "append_insert"
  BY <1>1 DEF Task
<1>4. Working(next) => Working(t)
  BY <1>1, <1>3 DEF Working, Appending
<1> HIDE DEF next
<1> QED
  BY <1>1, <1>2, <1>3, <1>4, TaskMove, UnwoundMove DEF AfterCall

LEMMA ConnectorEscapesMove ==
  ASSUME IInv, NEW j \in Jobs, ConnectorEscapes(j)
  PROVE  Alone(j)
BY TaskMove, UnwoundMove DEF ConnectorEscapes, IInv, TypeOK

LEMMA CancelMove ==
  ASSUME IInv, NEW j \in Jobs, Cancel(j)
  PROVE  Alone(j)
<1> DEFINE at == IF worker[j].at = "mark_failed" THEN "ended" ELSE "mark_failed"
           task == [worker[j] EXCEPT !.at = at]
<1>1. worker[j] \in Task /\ SetTask(j, task) /\ UNCHANGED storeVars
  BY DEF IInv, TypeOK, Cancel
<1>2. task.results = worker[j].results /\ ~Working(task)
  BY <1>1 DEF Task, Working, Appending
<1> QED
  BY <1>1, <1>2, TaskMove

LEMMA ConnectorAnswersMove ==
  ASSUME IInv, NEW j \in Jobs, ConnectorAnswers(j)
  PROVE  Alone(j)
<1> DEFINE t == worker[j]
<1>1. t \in Task /\ t.at = "connector" /\ UNCHANGED storeVars
  BY DEF IInv, TypeOK, ConnectorAnswers
<1>2. PICK st \in Answers \union {"error"} :
        SetTask(j, Emitting([t EXCEPT !.results =
                     Append(@, [connector |-> Plan[Len(t.results) + 1], status |-> st])],
                     "connector_result"))
  BY DEF ConnectorAnswers
<1> DEFINE grown == Append(t.results, [connector |-> Plan[Len(t.results) + 1], status |-> st])
           task == Emitting([t EXCEPT !.results = grown], "connector_result")
<1>3. SetTask(j, task) /\ st \in ConnectorStatus
  BY <1>2, AnswersAssumption DEF ConnectorStatus
<1> HIDE DEF grown
<1>4. task.results = grown
  BY <1>1 DEF Emitting, Task
<1> HIDE DEF task
<1>5. \A k \in Jobs : EventsOf(k)' = EventsOf(k) /\ status'[k] = status[k] /\ Phase(k)' = Phase(k)
  BY <1>1 DEF EventsOf, Phase, storeVars
<1>6. worker'[j] = task
  BY <1>3 DEF IInv, TypeOK, SetTask
<1>7. Answered(j)
  BY <1>1, <1>3, <1>4, <1>5, <1>6 DEF Answered, Working, grown
<1> QED
  BY <1>1, <1>3, <1>5, <1>7, OthersAreQuiet DEF Alone, OthersQuiet, Moves, storeVars

\* A guarded update either takes effect on the one row it matches or on none.
LEMMA UpdateMove ==
  ASSUME IInv, NEW j \in Jobs, NEW from \in SUBSET {"queued", "running"},
         NEW to \in JobStatus, NEW result, NEW reply,
         Executed(reply, Update(j, from, to, result))
  PROVE  /\ \A k \in Jobs \ {j} : status'[k] = status[k]
         /\ \A k \in Jobs : EventsOf(k)' = EventsOf(k)
         /\ expired' = expired
         /\ \/ Committed(reply) /\ Matches(j, from) /\ status[j] \in from /\ status'[j] = to
            \/ ~(Committed(reply) /\ Matches(j, from)) /\ status' = status
BY DEF IInv, TypeOK, StoreTypeOK, Executed, Update, Matches, EventsOf, storeVars, JobStatus

\* What the three statements on the status column have in common: if the row
\* was updated the job makes a visible move, otherwise the task unwinds.
LEMMA MarkMove ==
  ASSUME IInv, NEW j \in Jobs, NEW from \in SUBSET {"queued", "running"},
         NEW to \in JobStatus, NEW result, NEW reply,
         Executed(reply, Update(j, from, to, result)),
         NEW task, SetTask(j, task), task.results = worker[j].results,
         status' = status => ~Working(task),
         status[j] \in from /\ status'[j] = to => Moves(j)
  PROVE  Alone(j)
<1>1. worker'[j] = task
  BY DEF IInv, TypeOK, SetTask
<1>2. /\ \A k \in Jobs \ {j} : status'[k] = status[k]
      /\ \A k \in Jobs : EventsOf(k)' = EventsOf(k)
      /\ expired' = expired
      /\ (status[j] \in from /\ status'[j] = to) \/ status' = status
  BY UpdateMove
<1>3. \A k \in Jobs \ {j} : Quiet(k)
  BY <1>2, OthersAreQuiet
<1>4. ASSUME status' = status
      PROVE  Quiet(j)
  <2>1. Phase(j)' = Phase(j)
    BY <1>2, <1>4 DEF Phase
  <2> QED
    BY <1>1, <1>2, <1>4, <2>1 DEF Quiet
<1> QED
  BY <1>2, <1>3, <1>4 DEF Alone, OthersQuiet, Moves

LEMMA MarkJobRunningMove ==
  ASSUME IInv, NEW j \in Jobs, MarkJobRunning(j)
  PROVE  Alone(j)
<1> DEFINE t == worker[j]
           next == Emitting(t, "job_started")
<1>1. t \in Task
  BY DEF IInv, TypeOK
<1>2. PICK reply \in Replies :
        /\ Executed(reply, Update(j, RunnableFrom, "running", overall[j]))
        /\ SetTask(j, AfterCall(t, reply, Matches(j, RunnableFrom), next))
  BY DEF MarkJobRunning, MarkRunning
<1> DEFINE task == AfterCall(t, reply, Matches(j, RunnableFrom), next)
<1>3. RunnableFrom \in SUBSET {"queued", "running"} /\ "running" \in JobStatus
  BY DEF RunnableFrom, JobStatus
<1>4. next.results = t.results
  BY DEF Emitting
<1> HIDE DEF next
<1>5. task.results = t.results
  BY <1>1, <1>4, UnwoundMove DEF AfterCall
<1>6. ASSUME status' = status
      PROVE  ~Working(task)
  <2>1. ~(Committed(reply) /\ Matches(j, RunnableFrom))
    <3>1. \/ Matches(j, RunnableFrom) /\ status[j] = "queued" /\ status'[j] = "running"
          \/ ~(Committed(reply) /\ Matches(j, RunnableFrom))
      BY <1>2, <1>3, UpdateMove DEF RunnableFrom
    <3> QED
      BY <1>6, <3>1
  <2> QED
    BY <1>1, <2>1, UnwoundMove DEF AfterCall, Committed
<1> HIDE DEF task
<1>7. worker'[j] = task
  BY <1>2 DEF IInv, TypeOK, SetTask, task
<1>8. EventsOf(j)' = EventsOf(j)
  BY <1>2, <1>3, UpdateMove
<1>9. status[j] \in RunnableFrom /\ status'[j] = "running" => Moves(j)
  BY <1>5, <1>7, <1>8 DEF Moves, Started, RunnableFrom
<1>10. SetTask(j, task)
  BY <1>2 DEF task
<1> QED
  BY <1>2, <1>3, <1>5, <1>6, <1>9, <1>10, MarkMove

LEMMA MarkJobDoneMove ==
  ASSUME IInv, NEW j \in Jobs, MarkJobDone(j)
  PROVE  Alone(j)
<1> DEFINE t == worker[j]
           next == Emitting(t, "job_done")
           result == OverallStatus(t.results)
<1>1. t \in Task /\ t.at = "mark_done"
  BY DEF IInv, TypeOK, MarkJobDone
<1> HIDE DEF result
<1>2. PICK reply \in Replies :
        /\ Executed(reply, Update(j, FinishableFrom, "done", result))
        /\ SetTask(j, AfterCall(t, reply, Matches(j, FinishableFrom), next))
  BY DEF MarkJobDone, MarkDone, result
<1> DEFINE task == AfterCall(t, reply, Matches(j, FinishableFrom), next)
<1>3. FinishableFrom \in SUBSET {"queued", "running"} /\ "done" \in JobStatus
  BY DEF FinishableFrom, JobStatus
<1>4. next.results = t.results /\ ~Working(next)
  BY DEF Emitting, Working, Appending
<1> HIDE DEF next
<1>5. task.results = t.results /\ ~Working(task)
  BY <1>1, <1>4, UnwoundMove DEF AfterCall
<1> HIDE DEF task
<1>6. worker'[j] = task
  BY <1>2 DEF IInv, TypeOK, SetTask, task
<1>7. EventsOf(j)' = EventsOf(j)
  BY <1>2, <1>3, UpdateMove
<1>8. status[j] \in FinishableFrom /\ status'[j] = "done" => Moves(j)
  BY <1>1, <1>5, <1>6, <1>7 DEF Moves, Finished, FinishableFrom
<1>9. SetTask(j, task)
  BY <1>2 DEF task
<1> QED
  BY <1>2, <1>3, <1>5, <1>8, <1>9, MarkMove

LEMMA MarkJobFailedMove ==
  ASSUME IInv, NEW j \in Jobs, MarkJobFailed(j)
  PROVE  Alone(j)
<1> DEFINE t == worker[j]
           task == [t EXCEPT !.at = "ended"]
<1>1. t \in Task
  BY DEF IInv, TypeOK
<1>2. PICK reply \in Replies : Executed(reply, Update(j, FinishableFrom, "failed", overall[j]))
  BY DEF MarkJobFailed, MarkFailed
<1>3. FinishableFrom \in SUBSET {"queued", "running"} /\ "failed" \in JobStatus
  BY DEF FinishableFrom, JobStatus
<1>4. SetTask(j, task) /\ task.results = t.results /\ ~Working(task)
  BY <1>1 DEF MarkJobFailed, Task, Working, Appending
<1> HIDE DEF task
<1>5. worker'[j] = task
  BY <1>4 DEF IInv, TypeOK, SetTask
<1>6. EventsOf(j)' = EventsOf(j)
  BY <1>2, <1>3, UpdateMove
<1>7. status[j] \in FinishableFrom /\ status'[j] = "failed" => Moves(j)
  BY <1>4, <1>5, <1>6 DEF Moves, Failed, FinishableFrom
<1> QED
  BY <1>2, <1>3, <1>4, <1>7, MarkMove

LEMMA AppendInsertMove ==
  ASSUME IInv, NEW j \in Jobs, AppendInsert(j)
  PROVE  Alone(j)
<1> DEFINE t == worker[j]
           row == EventRowOf(j, t)
           goesOn == Insertable(j, t.seq)
<1>1. /\ t \in Task /\ Position(t) /\ t.at = "append_insert" /\ t.at \in Appending
  BY DEF IInv, TypeOK, Consistent, AppendInsert, Appending
<1>2. PICK reply \in Replies :
        /\ Executed(reply, InsertEvent(row))
        /\ SetTask(j, AfterCall(t, reply, goesOn, AfterEvent(t)))
  BY DEF AppendInsert
<1> DEFINE task == AfterCall(t, reply, goesOn, AfterEvent(t))
<1>3. AfterEvent(t).results = t.results /\ (Working(AfterEvent(t)) => Working(t))
  BY <1>1 DEF AfterEvent, NextConnector, Emitting, Working, Appending, Task
<1>4. task.results = t.results /\ (Working(task) => Working(t))
  BY <1>1, <1>3, UnwoundMove DEF AfterCall
<1> HIDE DEF task, row, goesOn
<1>5. SetTask(j, task) /\ worker'[j] = task
  BY <1>2 DEF IInv, TypeOK, SetTask, task
<1>6. CASE ~Committed(reply)
  BY <1>2, <1>4, <1>5, <1>6, TaskMove DEF Executed
<1>7. CASE Committed(reply)
  <2>1. InsertEvent(row)
    BY <1>2, <1>7 DEF Executed
  <2>2. /\ \A k \in Jobs \ {j} : EventsOf(k)' = EventsOf(k)
        /\ status' = status /\ expired' = expired
        /\ goesOn <=> status[j] # "absent"
        /\ goesOn => EventsOf(j)' = EventsOf(j) \union {row} /\ SeqsOf(j)' = 1..t.seq
        /\ ~goesOn => EventsOf(j)' = EventsOf(j)
    BY <1>1, <2>1, InsertEffect DEF row, goesOn
  <2>3. \A k \in Jobs \ {j} : Quiet(k)
    BY <1>5, <2>2, OthersAreQuiet
  <2>4. CASE goesOn
    <3>1. Appended(j)
      BY <1>1, <1>4, <1>5, <2>2, <2>4 DEF Appended, row
    <3> QED
      BY <2>3, <3>1 DEF Alone, OthersQuiet, Moves
  <2>5. CASE ~goesOn
    <3>1. Phase(j)' = Phase(j)
      BY <2>2 DEF Phase
    <3>2. Quiet(j)
      BY <1>4, <1>5, <2>2, <2>5, <3>1 DEF Quiet
    <3> QED
      BY <2>3, <3>2 DEF Alone, OthersQuiet, Moves
  <2> QED
    BY <2>4, <2>5
<1> QED
  BY <1>6, <1>7

LEMMA TaskStepMove ==
  ASSUME IInv, NEW j \in Jobs, TaskStep(j)
  PROVE  Alone(j)
BY ReadMove, MarkJobRunningMove, AppendInsertMove, ConnectorAnswersMove,
   ConnectorEscapesMove, MarkJobDoneMove, MarkJobFailedMove DEF TaskStep

\* The clock, the process and a stuttering step show nothing about any job.
LEMMA QuietStep ==
  ASSUME IInv, Shutdown \/ Exit \/ Crash \/ Restart \/ UNCHANGED vars
                 \/ \E j \in Jobs : Clock(j)
  PROVE  \A k \in Jobs : Quiet(k)
<1> SUFFICES ASSUME NEW k \in Jobs
             PROVE  Quiet(k)
  OBVIOUS
<1>1. worker[k] \in Task
  BY DEF IInv, TypeOK
<1>2. CASE UNCHANGED vars \/ Shutdown \/ Exit \/ Restart
  BY <1>2 DEF Quiet, Phase, EventsOf, vars, storeVars, workerVars, Shutdown, Exit, Restart
<1>3. CASE Crash
  <2>1. UNCHANGED storeVars
    BY <1>3 DEF Crash
  <2>2. IF worker[k].at \in Awaits THEN worker'[k] = [worker[k] EXCEPT !.at = "ended"]
        ELSE worker'[k] = worker[k]
    BY <1>3 DEF Crash, LoseTasks, JobWorkers
  <2>3. worker'[k].results = worker[k].results /\ (Working(worker'[k]) => Working(worker[k]))
    BY <1>1, <2>2 DEF Task, Working, Appending
  <2> QED
    BY <2>1, <2>3 DEF Quiet, Phase, EventsOf, storeVars
<1>4. ASSUME NEW j \in Jobs, Clock(j)
      PROVE  Quiet(k)
  <2>1. /\ worker'[k] = worker[k] /\ status'[k] = status[k]
        /\ EventsOf(k)' = EventsOf(k)
    BY <1>4 DEF Clock, Expire, EventsOf, workerVars
  <2>2. status[j] # "absent" /\ expired' = expired \union {j} /\ status' = status
    BY <1>4 DEF Clock, Expire
  <2>3. Phase(k)' = Phase(k)
    BY <2>2 DEF Phase
  <2> QED
    BY <2>1, <2>3 DEF Quiet
<1> QED
  BY <1>2, <1>3, <1>4

LEMMA PurgeMove ==
  ASSUME IInv, Purge
  PROVE  /\ Purgeable # {} /\ Purgeable \subseteq Jobs
         /\ \A k \in Purgeable : Forgotten(k)
         /\ \A k \in Jobs \ Purgeable : Quiet(k)
<1>1. ASSUME NEW k \in Purgeable
      PROVE  Forgotten(k)
  <2>1. k \in Jobs /\ k \in expired /\ expired' = expired /\ status[k] # "absent"
    BY DEF Purge, PurgeExpired, Purgeable, IInv, TypeOK, StoreTypeOK
  <2>2. status'[k] = "absent" /\ EventsOf(k)' = {} /\ worker' = worker
    BY <1>1, <2>1 DEF Purge, PurgeExpired, EventsOf, workerVars
  <2> QED
    BY <2>1, <2>2 DEF Forgotten, Phase
<1>2. ASSUME NEW k \in Jobs \ Purgeable
      PROVE  Quiet(k)
  <2>1. status'[k] = status[k] /\ EventsOf(k)' = EventsOf(k) /\ worker' = worker
    BY <1>2 DEF Purge, PurgeExpired, EventsOf, workerVars
  <2>2. expired' = expired
    BY DEF Purge, PurgeExpired
  <2>3. Phase(k)' = Phase(k)
    BY <2>1, <2>2 DEF Phase
  <2> QED
    BY <2>1, <2>3 DEF Quiet
<1>3. Purgeable # {} /\ Purgeable \subseteq Jobs
  BY DEF Purge, Purgeable, IInv, TypeOK, StoreTypeOK
<1> QED
  BY <1>1, <1>2, <1>3

\* What any step can do.
LEMMA NextMove ==
  ASSUME IInv, [Next]_vars
  PROVE  \/ \A k \in Jobs : Quiet(k)
         \/ \E j \in Jobs : (Moves(j) \/ Created(j)) /\ OthersQuiet(j)
         \/ /\ Purgeable # {} /\ Purgeable \subseteq Jobs
            /\ \A k \in Purgeable : Forgotten(k)
            /\ \A k \in Jobs \ Purgeable : Quiet(k)
BY CreateSearchMove, TaskStepMove, CancelMove, QuietStep, PurgeMove DEF Next, Alone, Moves

-----------------------------------------------------------------------------
(***************************************************************************)
(* The log tells what the connectors answered.                             *)
(***************************************************************************)
LEMMA RunsMove ==
  ASSUME NEW k \in Jobs, RunsWhileWorking(k), Moves(k) \/ Created(k) \/ Forgotten(k)
  PROVE  RunsWhileWorking(k)'
BY DEF RunsWhileWorking, Moves, Quiet, Created, Started, Appended, Answered, Finished, Failed,
       Forgotten

\* The numbers of a job's events do not pass the counter of its task.
LEMMA SeqBound ==
  ASSUME IInv, NEW k \in Jobs, NEW e \in EventsOf(k)
  PROVE  /\ e.seq \in Nat \ {0} /\ worker[k].seq \in Nat
         /\ e.seq <= worker[k].seq
         /\ worker[k].at \in Appending => e.seq < worker[k].seq
<1>1. Consistent(k) /\ worker[k] \in Task /\ events \subseteq EventRow
  BY DEF IInv, TypeOK, StoreTypeOK
<1>2. e \in EventRow /\ e.seq \in SeqsOf(k) /\ status[k] # "absent"
  BY <1>1 DEF EventsOf, SeqsOf, Consistent
<1>3. PICK n \in Written(worker[k]) : SeqsOf(k) = 1..n
  BY <1>1, <1>2 DEF Consistent, LogMatchesTask
<1>4. worker[k].seq \in Nat /\ e.seq \in Nat \ {0}
  BY <1>1, <1>2 DEF Task, EventRow
<1>5. /\ n \in {worker[k].seq - 1, worker[k].seq}
      /\ worker[k].at \in Appending => n = worker[k].seq - 1
  BY DEF Written, Appending
<1>6. n \in Int /\ e.seq <= n
  BY <1>2, <1>3, <1>4, <1>5
<1> QED
  BY <1>4, <1>5, <1>6

LEMMA ResultsType ==
  ASSUME IInv, NEW k \in Jobs
  PROVE  /\ worker[k].results \in Seq([connector : Connectors, status : ConnectorStatus])
         /\ Len(worker[k].results) \in Nat
         /\ Len(worker[k].results) <= Len(Plan)
         /\ DOMAIN worker[k].results = 1..Len(worker[k].results)
         /\ worker[k].seq \in Nat
<1>1. worker[k] \in Task /\ Position(worker[k])
  BY DEF IInv, TypeOK, Consistent
<1> QED
  BY <1>1 DEF Task, Position

\* The row being appended tells the last result, or sums all of them up.
LEMMA AppendedRow ==
  ASSUME IInv, NEW k \in Jobs, LogTellsResults(k), worker[k].at = "append_insert",
         NEW row, row = EventRowOf(k, worker[k])
  PROVE  /\ \A i \in 1..Len(worker[k].results) : row.seq = 2 * i + 1 =>
              /\ row.type = "connector_result"
              /\ row.connector = Plan[i] /\ row.status = worker[k].results[i].status
         /\ row.type \in Closing =>
              /\ Len(worker[k].results) = Len(Plan)
              /\ row.seq = IF row.type = "summary" THEN LogLength - 1 ELSE LogLength
              /\ row.status = OverallStatus(worker[k].results)
<1> DEFINE t == worker[k]
           n == Len(t.results)
<1>1. /\ t \in Task /\ Position(t) /\ t.at \in Appending
      /\ n \in Nat /\ DOMAIN t.results = 1..n
  BY ResultsType DEF IInv, TypeOK, Consistent, Appending
<1>2. /\ row.seq = t.seq /\ row.type = t.emitting
      /\ t.emitting = "connector_result" =>
           row.connector = t.results[n].connector /\ row.status = t.results[n].status
      /\ t.emitting \in Closing => row.status = OverallStatus(t.results)
  BY DEF EventRowOf, Closing
<1>3. ASSUME NEW i \in 1..n, row.seq = 2 * i + 1
      PROVE  /\ row.type = "connector_result"
             /\ row.connector = Plan[i] /\ row.status = t.results[i].status
  <2>1. i \in Int /\ i >= 1 /\ i <= n /\ t.seq = 2 * i + 1
    BY <1>2, <1>3
  <2> HIDE DEF n
  <2>2. t.emitting = "connector_result" /\ t.seq = 2 * n + 1
    BY <1>1, <2>1 DEF Position, n
  <2>3. i = n
    BY <1>1, <2>1, <2>2
  <2>4. t.results[n].connector = Plan[n]
    BY <1>1, <1>3, <2>3 DEF LogTellsResults, n
  <2> QED
    BY <1>2, <2>2, <2>3, <2>4 DEF n
<1>4. ASSUME row.type \in Closing
      PROVE  /\ n = Len(Plan)
             /\ row.seq = IF row.type = "summary" THEN LogLength - 1 ELSE LogLength
             /\ row.status = OverallStatus(t.results)
  <2> DEFINE N == Len(Plan)
  <2>1. t.emitting \in Closing /\ N \in Nat
    BY <1>2, <1>4, PlanFacts
  <2>2. n = N /\ t.seq = IF t.emitting = "summary" THEN 2 * n + 2 ELSE 2 * n + 3
    BY <1>1, <2>1 DEF Position, Closing
  <2> HIDE DEF n, N
  <2>3. 2 * n + 2 = LogLength - 1 /\ 2 * n + 3 = LogLength
    BY <1>1, <2>1, <2>2 DEF LogLength, N
  <2> QED
    BY <1>2, <2>1, <2>2, <2>3 DEF N
<1> QED
  BY <1>3, <1>4

\* A connector answers while the log is still short of its result.
LEMMA AnswerPrecedesItsEvent ==
  ASSUME IInv, NEW k \in Jobs, worker[k].at = "connector"
  PROVE  /\ Len(worker[k].results) < Len(Plan)
         /\ \A e \in EventsOf(k) : e.seq < 2 * (Len(worker[k].results) + 1) + 1
<1> DEFINE n == Len(worker[k].results)
<1>1. Position(worker[k]) /\ n \in Nat
  BY ResultsType DEF IInv, Consistent
<1>2. n < Len(Plan) /\ worker[k].seq = 2 * n + 2
  BY <1>1 DEF Position
<1>3. ASSUME NEW e \in EventsOf(k)
      PROVE  e.seq < 2 * (n + 1) + 1
  <2>1. e.seq \in Nat /\ e.seq <= 2 * n + 2
    BY <1>2, SeqBound
  <2> HIDE DEF n
  <2> QED
    BY <1>1, <2>1
<1> QED
  BY <1>2, <1>3

LEMMA TellsMove ==
  ASSUME IInv, NEW k \in Jobs, LogTellsResults(k), Moves(k) \/ Created(k) \/ Forgotten(k)
  PROVE  LogTellsResults(k)'
<1> DEFINE results == worker[k].results
           n == Len(results)
<1>1. n \in Nat /\ DOMAIN results = 1..n
  BY ResultsType
<1>2. ASSUME worker'[k].results = results, EventsOf(k)' \subseteq EventsOf(k)
      PROVE  LogTellsResults(k)'
  BY <1>2 DEF LogTellsResults
<1>3. CASE Appended(k)
  <2> DEFINE row == EventRowOf(k, worker[k])
  <2>1. /\ worker'[k].results = results
        /\ EventsOf(k)' = EventsOf(k) \union {row} /\ worker[k].at = "append_insert"
    BY <1>3 DEF Appended
  <2>2. /\ \A i \in DOMAIN results : row.seq = 2 * i + 1 =>
             /\ row.type = "connector_result"
             /\ row.connector = Plan[i] /\ row.status = results[i].status
        /\ row.type \in Closing =>
             /\ Len(results) = Len(Plan)
             /\ row.seq = IF row.type = "summary" THEN LogLength - 1 ELSE LogLength
             /\ row.status = OverallStatus(results)
    BY <1>1, <2>1, AppendedRow
  <2> HIDE DEF row
  <2> QED
    BY <2>1, <2>2 DEF LogTellsResults
<1>4. CASE Answered(k)
  <2>1. PICK st \in ConnectorStatus :
          worker'[k].results = Append(results, [connector |-> Plan[n + 1], status |-> st])
    BY <1>4 DEF Answered
  <2> DEFINE result == [connector |-> Plan[n + 1], status |-> st]
             grown == Append(results, result)
  <2>2. worker[k].at = "connector" /\ EventsOf(k)' = EventsOf(k) /\ worker'[k].results = grown
    BY <1>4, <2>1 DEF Answered
  <2>3. result.connector = Plan[n + 1]
    OBVIOUS
  <2> HIDE DEF result
  <2>4. /\ Len(grown) = n + 1 /\ grown[n + 1] = result
        /\ \A i \in 1..n : grown[i] = results[i]
        /\ DOMAIN grown = 1..(n + 1)
    BY ResultsType
  <2>5. n < Len(Plan) /\ \A e \in EventsOf(k) : e.seq < 2 * (n + 1) + 1
    BY <2>2, AnswerPrecedesItsEvent
  <2> HIDE DEF grown
  <2>6. ASSUME NEW i \in DOMAIN grown
        PROVE  grown[i].connector = Plan[i]
    <3>1. CASE i = n + 1
      BY <2>3, <2>4, <3>1
    <3>2. CASE i # n + 1
      <4>1. i \in 1..n
        BY <1>1, <2>4, <3>2
      <4> QED
        BY <1>1, <2>4, <4>1 DEF LogTellsResults
    <3> QED
      BY <3>1, <3>2
  <2>7. ASSUME NEW e \in EventsOf(k), NEW i \in DOMAIN grown, e.seq = 2 * i + 1
        PROVE  /\ e.type = "connector_result"
               /\ e.connector = Plan[i] /\ e.status = grown[i].status
    <3>1. i # n + 1
      BY <2>5, <2>7
    <3>2. i \in 1..n
      BY <1>1, <2>4, <3>1
    <3> QED
      BY <1>1, <2>4, <2>7, <3>2 DEF LogTellsResults
  <2>8. \A e \in EventsOf(k) : e.type \notin Closing
    BY <2>5, PlanFacts DEF LogTellsResults
  <2> QED
    BY <2>2, <2>6, <2>7, <2>8 DEF LogTellsResults
<1>5. CASE Quiet(k) \/ Created(k) \/ Started(k) \/ Finished(k) \/ Failed(k) \/ Forgotten(k)
  BY <1>2, <1>5 DEF Quiet, Created, Started, Finished, Failed, Forgotten
<1> QED
  BY <1>3, <1>4, <1>5 DEF Moves

LEMMA ResultsStep ==
  ASSUME IInv, ResultsInv, NEW k \in Jobs, Moves(k) \/ Created(k) \/ Forgotten(k)
  PROVE  RunsWhileWorking(k)' /\ LogTellsResults(k)'
BY RunsMove, TellsMove DEF ResultsInv

LEMMA InitialResults ==
  ASSUME Init
  PROVE  ResultsInv
<1> SUFFICES ASSUME NEW k \in Jobs
             PROVE  RunsWhileWorking(k) /\ LogTellsResults(k)
  BY DEF ResultsInv
<1>1. EventsOf(k) = {} /\ worker[k] = NoTask
  BY DEF Init, StoreInit, EventsOf
<1>2. NoTask.results = <<>> /\ ~Working(NoTask)
  BY DEF NoTask, Working, Appending
<1> QED
  BY <1>1, <1>2 DEF RunsWhileWorking, LogTellsResults

\* A task reports running for as long as it works, and what it has in hand is
\* what the log of its job tells.
THEOREM ResultsInvariance == Spec => []ResultsInv
<1>1. Init => ResultsInv
  BY InitialResults
<1>2. IInv /\ ResultsInv /\ [Next]_vars => ResultsInv'
  <2> SUFFICES ASSUME IInv, ResultsInv, [Next]_vars, NEW k \in Jobs
               PROVE  RunsWhileWorking(k)' /\ LogTellsResults(k)'
    BY DEF ResultsInv
  <2>1. Moves(k) \/ Created(k) \/ Forgotten(k)
    BY NextMove DEF OthersQuiet, Moves
  <2> QED
    BY <2>1, ResultsStep
<1> QED
  BY <1>1, <1>2, Invariance, PTL DEF Spec

\* The rule reads nothing of a result but its connector and its status.
LEMMA OverallStatusReads ==
  ASSUME NEW r, NEW s, DOMAIN r = DOMAIN s,
         \A i \in DOMAIN r : r[i].connector = s[i].connector /\ r[i].status = s[i].status
  PROVE  OverallStatus(r) = OverallStatus(s)
<1>1. ASSUME NEW st
      PROVE  At(r, st) = At(s, st)
  BY DEF At
<1>2. Quorum(r) <=> Quorum(s)
  BY <1>1 DEF Quorum, At
<1>3. ASSUME NEW st
      PROVE  All(r, st) <=> All(s, st)
  BY <1>1 DEF All
<1> QED
  BY <1>1, <1>2, <1>3 DEF OverallStatus

LEMMA SummaryStates ==
  ASSUME IInv, ResultsInv
  PROVE  SummaryMatchesLog
<1>1. ASSUME NEW e \in events, e.type \in Closing
      PROVE  \E answered \in [DOMAIN Plan -> {r \in EventsOf(e.job) : r.type = "connector_result"}] :
               /\ \A i \in DOMAIN Plan :
                    answered[i].connector = Plan[i] /\ answered[i].seq < e.seq
               /\ e.status = OverallStatus(answered)
  <2> DEFINE k == e.job
             results == worker[k].results
             N == Len(Plan)
             Results == {r \in EventsOf(k) : r.type = "connector_result"}
  <2>1. k \in Jobs /\ e \in EventsOf(k) /\ e \in EventRow
    BY <1>1 DEF IInv, TypeOK, StoreTypeOK, EventRow, EventsOf
  <2> HIDE DEF k
  <2>2. LogTellsResults(k) /\ Consistent(k) /\ N \in Nat
    BY <1>1, <2>1, PlanFacts DEF ResultsInv, IInv
  <2>3. /\ Len(results) = N /\ e.seq >= 2 * N + 2 /\ e.seq \in Nat
        /\ e.status = OverallStatus(results)
    BY <1>1, <2>1, <2>2 DEF LogTellsResults, LogLength, EventRow
  <2>4. DOMAIN results = 1..N /\ DOMAIN Plan = 1..N
    BY <1>1, <2>1, <2>3, ResultsType, PlanAssumption
  <2>5. PICK n \in Written(worker[k]) : SeqsOf(k) = 1..n
    BY <1>1, <2>1, <2>2 DEF Consistent, LogMatchesTask
  <2>6. n \in Int /\ e.seq <= n
    <3>1. worker[k].seq \in Nat /\ e.seq \in SeqsOf(k)
      BY <1>1, <2>1, ResultsType DEF SeqsOf
    <3> QED
      BY <2>3, <2>5, <3>1 DEF Written
  <2> HIDE DEF results, N
  <2>7. ASSUME NEW i \in 1..N
        PROVE  \E r \in EventsOf(k) : r.seq = 2 * i + 1
    <3>1. i \in Nat /\ i >= 1 /\ i <= N
      BY <2>2
    <3>2. 2 * i + 1 \in 1..n
      BY <2>2, <2>3, <2>6, <3>1
    <3> QED
      BY <2>5, <3>2 DEF SeqsOf
  <2> DEFINE answered == [i \in 1..N |-> CHOOSE r \in EventsOf(k) : r.seq = 2 * i + 1]
  <2>8. ASSUME NEW i \in 1..N
        PROVE  /\ answered[i] \in Results
               /\ answered[i].connector = results[i].connector
               /\ answered[i].connector = Plan[i]
               /\ answered[i].status = results[i].status
               /\ answered[i].seq < e.seq
    <3>1. answered[i] \in EventsOf(k) /\ answered[i].seq = 2 * i + 1
      BY <2>7
    <3> HIDE DEF answered
    <3>2. /\ answered[i].type = "connector_result" /\ answered[i].connector = Plan[i]
          /\ answered[i].status = results[i].status /\ results[i].connector = Plan[i]
      BY <2>2, <2>4, <3>1 DEF LogTellsResults, results
    <3>3. answered[i].seq < e.seq
      BY <2>2, <2>3, <3>1
    <3> QED
      BY <3>1, <3>2, <3>3
  <2>9. DOMAIN answered = DOMAIN results
    BY <2>4
  <2>10. answered \in [DOMAIN Plan -> Results]
    BY <2>4, <2>8
  <2> HIDE DEF answered, Results
  <2>11. OverallStatus(answered) = OverallStatus(results)
    BY <2>4, <2>8, <2>9, OverallStatusReads
  <2>12. \A i \in DOMAIN Plan : answered[i].connector = Plan[i] /\ answered[i].seq < e.seq
    BY <2>4, <2>8
  <2> QED
    BY <2>3, <2>10, <2>11, <2>12 DEF Results, k
<1> QED
  BY <1>1 DEF SummaryMatchesLog, Closing

\* The summary and the job_done event of a log follow from the connector results
\* in the same log, one for each connector of the plan (_execute_job keeps its
\* results in memory and writes each of them as an event of its own).
THEOREM SummaryIsOfTheLog == Spec => []SummaryMatchesLog
BY SummaryStates, Invariance, ResultsInvariance, PTL

-----------------------------------------------------------------------------
(***************************************************************************)
(* The refinement of JobLifecycle.                                         *)
(***************************************************************************)
LEMMA CardinalityUpTo ==
  ASSUME NEW n \in Nat
  PROVE  Cardinality(1..n) = n
BY FS_Interval

\* The last event of a job is published of a done job, the others of a running one.
LEMMA PublishedBefore ==
  ASSUME IInv, ResultsInv, NEW j \in Jobs, Appended(j)
  PROVE  LET done == Cardinality(SeqsOf(j))
         IN  /\ done \in Nat
             /\ Cardinality(SeqsOf(j)') = done + 1
             /\ \/ status[j] = "running" /\ done < LogLength - 1
                \/ status[j] = "done" /\ done = LogLength - 1
<1> DEFINE t == worker[j]
           n == Len(t.results)
           N == Len(Plan)
<1>1. /\ Consistent(j) /\ RunsWhileWorking(j) /\ Position(t) /\ t.at \in Appending
      /\ t.seq \in Nat /\ n \in Nat /\ N \in Nat /\ status[j] # "absent"
      /\ SeqsOf(j)' = 1..t.seq
  BY ResultsType, PlanFacts DEF IInv, ResultsInv, Consistent, Appended, Appending
<1>2. SeqsOf(j) = 1..(t.seq - 1)
  BY <1>1 DEF Consistent, LogMatchesTask, Written, Appending
<1>3. t.emitting # "job_done" => status[j] = "running"
  BY <1>1 DEF RunsWhileWorking, Working
<1>4. t.emitting = "job_done" => status[j] = "done"
  BY <1>1 DEF Consistent, AnnouncesDone
<1>5. /\ t.seq >= 1
      /\ t.emitting # "job_done" => t.seq - 1 < LogLength - 1
      /\ t.emitting = "job_done" => t.seq - 1 = LogLength - 1
  BY <1>1 DEF Position, LogLength
<1>6. t.seq - 1 \in Nat
  BY <1>1, <1>5
<1>7. Cardinality(SeqsOf(j)) = t.seq - 1 /\ Cardinality(SeqsOf(j)') = t.seq
  BY <1>1, <1>2, <1>6, CardinalityUpTo
<1> QED
  BY <1>1, <1>3, <1>4, <1>5, <1>6, <1>7

\* A job is marked done when all but its closing event is in the log.
LEMMA FinishedWhen ==
  ASSUME IInv, ResultsInv, NEW j \in Jobs, Finished(j)
  PROVE  status[j] = "running" /\ Cardinality(SeqsOf(j)) = LogLength - 1
<1> DEFINE t == worker[j]
<1>1. /\ Consistent(j) /\ RunsWhileWorking(j) /\ t.at = "mark_done" /\ Position(t)
      /\ status[j] # "absent" /\ t.seq \in Nat
  BY ResultsType DEF IInv, ResultsInv, Consistent, Finished
<1>2. status[j] = "running"
  BY <1>1 DEF RunsWhileWorking, Working
<1>3. SeqsOf(j) = 1..t.seq
  BY <1>1 DEF Consistent, LogMatchesTask, Written, Appending
<1>4. t.seq = LogLength - 1
  <2>1. t.seq = 2 * Len(Plan) + 2 /\ Len(Plan) \in Nat
    BY <1>1, PlanFacts DEF Position
  <2> QED
    BY <2>1 DEF LogLength
<1> QED
  BY <1>1, <1>2, <1>3, <1>4, CardinalityUpTo

LEMMA QuietShows ==
  ASSUME NEW k, Quiet(k)
  PROVE  Phase(k)' = Phase(k) /\ Cardinality(SeqsOf(k))' = Cardinality(SeqsOf(k))
BY DEF Quiet, SeqsOf

\* The move of one job is an action of JobLifecycle, or none of its business.
LEMMA AloneRefines ==
  ASSUME IInv, ResultsInv, NEW j \in Jobs, Moves(j) \/ Created(j), OthersQuiet(j)
  PROVE  [Lifecycle!Next]_(Lifecycle!vars)
<1>1. \A k \in Jobs \ {j} :
        Phase(k)' = Phase(k) /\ Cardinality(SeqsOf(k))' = Cardinality(SeqsOf(k))
  BY QuietShows DEF OthersQuiet
<1>2. CASE Quiet(j) \/ Answered(j)
  <2>1. \A k \in Jobs : Phase(k)' = Phase(k) /\ Cardinality(SeqsOf(k))' = Cardinality(SeqsOf(k))
    BY <1>1, <1>2 DEF Quiet, Answered, SeqsOf
  <2> QED
    BY <2>1 DEF Lifecycle!vars
<1>3. CASE Created(j)
  <2>1. /\ Phase(j) = "none" /\ Phase(j)' = "queued"
        /\ Cardinality(SeqsOf(j))' = Cardinality(SeqsOf(j))
    BY <1>3 DEF Created, Phase, SeqsOf
  <2>2. Lifecycle!Create(j)
    BY <1>1, <2>1 DEF Lifecycle!Create, Lifecycle!Move
  <2> QED
    BY <2>2 DEF Lifecycle!Next
<1>4. CASE Started(j)
  <2>1. /\ Phase(j) = "queued" /\ Phase(j)' = "running"
        /\ Cardinality(SeqsOf(j))' = Cardinality(SeqsOf(j))
    BY <1>4 DEF Started, Phase, SeqsOf
  <2>2. Lifecycle!Start(j)
    BY <1>1, <2>1 DEF Lifecycle!Start, Lifecycle!Move
  <2> QED
    BY <2>2 DEF Lifecycle!Next
<1>5. CASE Appended(j)
  <2>1. Phase(j) = status[j] /\ Phase(j)' = Phase(j)
    BY <1>5 DEF Appended, Phase
  <2>2. /\ Cardinality(SeqsOf(j)) \in Nat
        /\ Cardinality(SeqsOf(j))' = Cardinality(SeqsOf(j)) + 1
        /\ \/ Phase(j) = "running" /\ Cardinality(SeqsOf(j)) < LogLength - 1
           \/ Phase(j) = "done" /\ Cardinality(SeqsOf(j)) = LogLength - 1
    BY <1>5, <2>1, PublishedBefore
  <2>3. Lifecycle!Publish(j)
    BY <1>1, <2>1, <2>2 DEF Lifecycle!Publish
  <2> QED
    BY <2>3 DEF Lifecycle!Next
<1>6. CASE Finished(j)
  <2>1. /\ Phase(j) = "running" /\ Phase(j)' = "done"
        /\ Cardinality(SeqsOf(j))' = Cardinality(SeqsOf(j))
        /\ Cardinality(SeqsOf(j)) = LogLength - 1
    BY <1>6, FinishedWhen DEF Finished, Phase, SeqsOf
  <2>2. Lifecycle!Finish(j)
    BY <1>1, <2>1 DEF Lifecycle!Finish, Lifecycle!Move
  <2> QED
    BY <2>2 DEF Lifecycle!Next
<1>7. CASE Failed(j)
  <2>1. /\ Phase(j) \in {"queued", "running"} /\ Phase(j)' = "failed"
        /\ Cardinality(SeqsOf(j))' = Cardinality(SeqsOf(j))
    BY <1>7 DEF Failed, Phase, SeqsOf
  <2>2. Lifecycle!Fail(j)
    BY <1>1, <2>1 DEF Lifecycle!Fail, Lifecycle!Move
  <2> QED
    BY <2>2 DEF Lifecycle!Next
<1> QED
  BY <1>2, <1>3, <1>4, <1>5, <1>6, <1>7 DEF Moves

LEMMA PurgeRefines ==
  ASSUME IInv, NEW gone, gone # {}, gone \subseteq Jobs,
         \A k \in gone : Forgotten(k),
         \A k \in Jobs \ gone : Quiet(k)
  PROVE  Lifecycle!Next
<1>1. ASSUME NEW k \in gone
      PROVE  /\ Phase(k) \notin {"none", "gone"} /\ Phase(k)' = "gone"
             /\ Cardinality(SeqsOf(k))' = 0
  <2>1. Phase(k) \in JobStatus
    BY DEF Forgotten, Phase, IInv, TypeOK, StoreTypeOK
  <2>2. Phase(k)' = "gone" /\ SeqsOf(k)' = {}
    BY DEF Forgotten, SeqsOf
  <2> QED
    BY <2>1, <2>2, FS_EmptySet DEF JobStatus
<1>2. \A k \in Jobs \ gone :
        Phase(k)' = Phase(k) /\ Cardinality(SeqsOf(k))' = Cardinality(SeqsOf(k))
  BY QuietShows
<1>3. Lifecycle!Forget(gone)
  BY <1>1, <1>2 DEF Lifecycle!Forget
<1> QED
  BY <1>3 DEF Lifecycle!Next

LEMMA AllQuietRefines ==
  ASSUME \A k \in Jobs : Quiet(k)
  PROVE  UNCHANGED Lifecycle!vars
<1>1. \A k \in Jobs :
        Phase(k)' = Phase(k) /\ Cardinality(SeqsOf(k))' = Cardinality(SeqsOf(k))
  BY QuietShows
<1> QED
  BY <1>1 DEF Lifecycle!vars

LEMMA NextRefines ==
  ASSUME IInv, ResultsInv, [Next]_vars
  PROVE  [Lifecycle!Next]_(Lifecycle!vars)
BY NextMove, AllQuietRefines, AloneRefines, PurgeRefines

LEMMA InitRefines ==
  ASSUME Init
  PROVE  Lifecycle!Init
<1>1. ASSUME NEW j \in Jobs
      PROVE  Phase(j) = "none" /\ SeqsOf(j) = {}
  BY DEF Init, StoreInit, Phase, SeqsOf, EventsOf
<1> QED
  BY <1>1, FS_EmptySet DEF Lifecycle!Init

\* The jobs of the database, their logs and their tasks implement the lifecycle:
\* whoever watches a job sees it created, started, publish its events one by
\* one, finish or fail, and be forgotten, in that order (job_store.py together
\* with _execute_job and the purge).
THEOREM LifecycleImplemented == Spec => ImplementsLifecycle
<1>1. Init => Lifecycle!Init
  BY InitRefines
<1>2. IInv /\ ResultsInv /\ [Next]_vars => [Lifecycle!Next]_(Lifecycle!vars)
  BY NextRefines
<1> QED
  BY <1>1, <1>2, Invariance, ResultsInvariance, PTL DEF Spec, ImplementsLifecycle, Lifecycle!Spec

-----------------------------------------------------------------------------
(***************************************************************************)
(* Rows in the order of their numbers.                                     *)
(***************************************************************************)

\* Rows that are numbered from lo to hi without a hole are hi - lo + 1.
LEMMA CardinalityOfRows ==
  ASSUME NEW rows, NEW lo \in Int, NEW hi \in Int,
         \A e \in rows : e.seq \in lo..hi,
         \A s \in lo..hi : \E e \in rows : e.seq = s,
         \A e, f \in rows : e.seq = f.seq => e = f
  PROVE  Cardinality(rows) = IF lo > hi THEN 0 ELSE hi - lo + 1
<1> DEFINE row == [s \in lo..hi |-> CHOOSE e \in rows : e.seq = s]
<1>1. \A s \in lo..hi : row[s] \in rows /\ row[s].seq = s
  OBVIOUS
<1>2. row \in [lo..hi -> rows]
  BY <1>1
<1> HIDE DEF row
<1>3. \A e \in rows : row[e.seq] = e
  BY <1>1
<1>4. row \in Injection(lo..hi, rows)
  BY <1>1, <1>2 DEF Injection, IsInjective
<1>5. row \in Surjection(lo..hi, rows)
  BY <1>2, <1>3 DEF Surjection
<1>6. ExistsBijection(lo..hi, rows)
  BY <1>4, <1>5 DEF ExistsBijection, Bijection
<1>7. IsFiniteSet(lo..hi) /\ Cardinality(lo..hi) = IF lo > hi THEN 0 ELSE hi - lo + 1
  BY FS_Interval
<1> QED
  BY <1>6, <1>7, FS_Bijection

\* ORDER BY seq puts the row numbered from + i in place i.
LEMMA InOrderOfRows ==
  ASSUME NEW rows, NEW from \in Nat, NEW n \in Int,
         \A e \in rows : e.seq \in (from + 1)..n,
         \A s \in (from + 1)..n : \E e \in rows : e.seq = s,
         \A e, f \in rows : e.seq = f.seq => e = f
  PROVE  /\ Cardinality(rows) \in Nat
         /\ \A i \in 1..Cardinality(rows) : \E e \in rows :
              /\ e.seq = from + i
              /\ InOrder(rows)[i] = [seq |-> e.seq, type |-> e.type]
<1>1. Cardinality(rows) = IF from + 1 > n THEN 0 ELSE n - (from + 1) + 1
  BY CardinalityOfRows
<1>2. ASSUME NEW e \in rows
      PROVE  Rank(rows, e) = e.seq - from
  <2> DEFINE below == {f \in rows : f.seq <= e.seq}
             lo == from + 1
             hi == e.seq
  <2>1. lo \in Int /\ hi \in Int /\ lo <= hi /\ hi <= n /\ hi - lo + 1 = e.seq - from
    BY <1>2
  <2>2. \A f \in below : f.seq \in lo..hi
    BY <2>1
  <2>3. \A s \in lo..hi : \E f \in below : f.seq = s
    <3> SUFFICES ASSUME NEW s \in lo..hi
                 PROVE  \E f \in below : f.seq = s
      OBVIOUS
    <3>1. s \in (from + 1)..n /\ s <= e.seq
      BY <2>1
    <3> QED
      BY <3>1
  <2>4. \A f, g \in below : f.seq = g.seq => f = g
    OBVIOUS
  <2>5. Rank(rows, e) = Cardinality(below)
    BY DEF Rank
  <2> HIDE DEF below, lo, hi
  <2>6. Cardinality(below) = IF lo > hi THEN 0 ELSE hi - lo + 1
    BY <2>1, <2>2, <2>3, <2>4, CardinalityOfRows
  <2> QED
    BY <2>1, <2>5, <2>6
<1>3. Cardinality(rows) \in Nat /\ (from + 1 <= n => Cardinality(rows) = n - from)
  BY <1>1
<1>4. ASSUME NEW i \in 1..Cardinality(rows)
      PROVE  \E e \in rows : /\ e.seq = from + i
                             /\ InOrder(rows)[i] = [seq |-> e.seq, type |-> e.type]
  <2>1. i \in Int /\ from + i \in (from + 1)..n
    BY <1>1, <1>3, <1>4
  <2>2. \E e \in rows : Rank(rows, e) = i
    <3>1. PICK e \in rows : e.seq = from + i
      BY <2>1
    <3>2. Rank(rows, e) = i
      BY <1>2, <2>1, <3>1
    <3> QED
      BY <3>2
  <2> DEFINE e == CHOOSE e \in rows : Rank(rows, e) = i
  <2>3. e \in rows /\ Rank(rows, e) = i
    BY <2>2
  <2>4. InOrder(rows)[i] = [seq |-> e.seq, type |-> e.type]
    BY <1>4 DEF InOrder
  <2> HIDE DEF e
  <2>5. e.seq \in Int /\ e.seq - from = i
    BY <1>2, <2>3
  <2>6. e.seq = from + i
    BY <2>1, <2>5
  <2> QED
    BY <2>3, <2>4, <2>6
<1> QED
  BY <1>3, <1>4

\* What a replay yields: the events behind from, one after the other.
LEMMA ReplayedFrames ==
  ASSUME IInv, ResultsInv, NEW j \in Jobs, NEW from \in Nat,
         NEW frames, frames = InOrder(Replay(j, from))
  PROVE  /\ frames \in Seq(Frame)
         /\ \A i \in 1..Len(frames) :
              /\ frames[i].seq = from + i
              /\ frames[i].type = "job_done" => frames[i].seq = LogLength /\ Over(j)
<1> DEFINE rows == Replay(j, from)
<1>1. \A e \in rows :
        /\ e \in EventsOf(j) /\ e.seq > from
        /\ e.seq \in Nat \ {0} /\ e.type \in EventTypes
        /\ e.type = "job_done" => e.seq = LogLength /\ Over(j)
  <2> SUFFICES ASSUME NEW e \in rows
               PROVE  /\ e \in EventsOf(j) /\ e.seq > from
                      /\ e.seq \in Nat \ {0} /\ e.type \in EventTypes
                      /\ e.type = "job_done" => e.seq = LogLength /\ Over(j)
    OBVIOUS
  <2>1. e \in EventsOf(j) /\ e.seq > from /\ status[j] # "absent"
    BY DEF Replay, Live
  <2>2. e \in EventRow
    BY <2>1 DEF EventsOf, IInv, TypeOK, StoreTypeOK
  <2>3. e.type = "job_done" => e.seq = LogLength
    BY <2>1 DEF ResultsInv, LogTellsResults, Closing
  <2>4. e.type = "job_done" => Over(j)
    BY <2>1 DEF IInv, Consistent, Over, Phase
  <2> QED
    BY <2>1, <2>2, <2>3, <2>4 DEF EventRow
<1>2. PICK n \in 0..LogLength : SeqsOf(j) = 1..n
  BY GapFreeStates DEF GapFreeLog
<1>3. n \in Int
  BY <1>2, PlanFacts DEF LogLength
<1>4. \A e, f \in rows : e.seq = f.seq => e = f
  BY <1>1 DEF IInv, Consistent
<1>5. \A e \in rows : e.seq \in (from + 1)..n
  BY <1>1, <1>2, <1>3 DEF SeqsOf
<1>6. CASE Live(j)
  <2>1. \A s \in (from + 1)..n : \E e \in rows : e.seq = s
    <3> SUFFICES ASSUME NEW s \in (from + 1)..n
                 PROVE  \E e \in rows : e.seq = s
      OBVIOUS
    <3>1. s \in 1..n /\ s > from
      BY <1>3
    <3>2. PICK e \in EventsOf(j) : e.seq = s
      BY <1>2, <3>1 DEF SeqsOf
    <3> QED
      BY <1>6, <3>1, <3>2 DEF Replay
  <2> HIDE DEF rows
  <2>2. /\ Cardinality(rows) \in Nat
        /\ \A i \in 1..Cardinality(rows) : \E e \in rows :
             /\ e.seq = from + i
             /\ InOrder(rows)[i] = [seq |-> e.seq, type |-> e.type]
    BY <1>3, <1>4, <1>5, <2>1, InOrderOfRows
  <2>3. frames = InOrder(rows) /\ DOMAIN frames = 1..Cardinality(rows)
    BY DEF InOrder, rows
  <2>4. ASSUME NEW i \in 1..Cardinality(rows)
        PROVE  /\ frames[i] \in Frame /\ frames[i].seq = from + i
               /\ frames[i].type = "job_done" => frames[i].seq = LogLength /\ Over(j)
    <3>1. PICK e \in rows : e.seq = from + i /\ frames[i] = [seq |-> e.seq, type |-> e.type]
      BY <2>2, <2>3
    <3> QED
      BY <1>1, <3>1 DEF Frame
  <2>5. frames = [i \in 1..Cardinality(rows) |-> frames[i]]
    BY <2>3 DEF InOrder
  <2>6. frames \in Seq(Frame) /\ Len(frames) = Cardinality(rows)
    BY <2>2, <2>3, <2>4, <2>5
  <2> QED
    BY <2>4, <2>6
<1>7. CASE ~Live(j)
  <2>1. Replay(j, from) = {}
    BY <1>7 DEF Replay
  <2>2. frames = <<>>
    BY <2>1, FS_EmptySet DEF InOrder
  <2> QED
    BY <2>2
<1> QED
  BY <1>6, <1>7

-----------------------------------------------------------------------------
(***************************************************************************)
(* The jobs keep their invariants when the pages are added.                *)
(***************************************************************************)

\* What a step may do to the job of a page, as far as the page can tell.
Steady(k) ==
  /\ Over(k) => Over(k)'
  /\ Phase(k) = "none" /\ worker[k].at = "none" =>
       client'[k] # "idle" \/ (Phase(k)' = "none" /\ worker'[k].at = "none")

\* A job that was over stays so.
LEMMA OverStays ==
  ASSUME NEW k \in Jobs, Over(k), Moves(k) \/ Created(k) \/ Forgotten(k)
  PROVE  Over(k)'
<1>1. Phase(k) \in {"done", "gone"}
  BY DEF Over
<1>2. CASE Quiet(k) \/ Answered(k)
  BY <1>1, <1>2 DEF Quiet, Answered, Over
<1>3. CASE Appended(k)
  BY <1>1, <1>3 DEF Appended, Over, Phase
<1>4. CASE Forgotten(k)
  BY <1>4 DEF Forgotten, Over
<1>5. CASE Created(k) \/ Started(k) \/ Finished(k) \/ Failed(k)
  BY <1>1, <1>5 DEF Created, Started, Finished, Failed, Phase
<1> QED
  BY <1>2, <1>3, <1>4, <1>5 DEF Moves

\* A job nobody has posted stays unposted while the server runs.
LEMMA UnpostedStays ==
  ASSUME IInv, NEW k \in Jobs, Phase(k) = "none", worker[k].at = "none",
         \/ \E j \in Jobs : TaskStep(j) \/ Cancel(j) \/ Clock(j)
         \/ Exit \/ Restart \/ Purge \/ Shutdown \/ Crash
  PROVE  Phase(k)' = "none" /\ worker'[k].at = "none"
<1>1. status[k] = "absent" /\ k \notin expired /\ k \notin JobWorkers /\ k \notin Purgeable
  BY DEF Phase, IInv, TypeOK, StoreTypeOK, JobStatus, JobWorkers, Awaits, Purgeable
<1>2. ASSUME NEW j \in Jobs, TaskStep(j) \/ Cancel(j)
      PROVE  Phase(k)' = "none" /\ worker'[k].at = "none"
  <2>1. j # k
    BY <1>1, <1>2 DEF TaskStep, GetJob, MarkJobRunning, AppendSelect, AppendInsert,
       ConnectorAnswers, ConnectorEscapes, MarkJobDone, MarkJobFailed, Cancel
  <2>2. Quiet(k)
    BY <1>2, <2>1, TaskStepMove, CancelMove DEF Alone, OthersQuiet
  <2>3. worker'[k] = worker[k]
    BY <1>2, <2>1 DEF IInv, TypeOK, SetTask, TaskStep, GetJob, MarkJobRunning, AppendSelect,
       AppendInsert, ConnectorAnswers, ConnectorEscapes, MarkJobDone, MarkJobFailed, Cancel
  <2> QED
    BY <2>2, <2>3 DEF Quiet
<1>3. CASE Exit \/ Restart \/ Shutdown
  BY <1>3 DEF Exit, Restart, Shutdown, Phase, storeVars
<1>4. CASE Crash
  BY <1>1, <1>4 DEF Crash, LoseTasks, Phase, storeVars
<1>5. CASE Purge
  BY <1>1, <1>5 DEF Purge, PurgeExpired, Phase, workerVars
<1>6. ASSUME NEW j \in Jobs, Clock(j)
      PROVE  Phase(k)' = "none" /\ worker'[k].at = "none"
  BY <1>1, <1>6 DEF Clock, Expire, Phase, workerVars
<1> QED
  BY <1>2, <1>3, <1>4, <1>5, <1>6

\* A post that is answered by a failure may have created the job all the same.
LEMMA PostRefusedStep ==
  ASSUME IInv, NEW j \in Jobs, InsertJob(j), SetTask(j, [NoTask EXCEPT !.at = "get_job"]),
         Phase(j) = "none", worker[j].at = "none",
         faults' \in Nat, server' = server, stops' = stops
  PROVE  IInv' /\ Created(j) /\ OthersQuiet(j)
<1> DEFINE task == [NoTask EXCEPT !.at = "get_job"]
<1>1. task \in Task /\ Position(task) /\ Written(task) = {0} /\ task.at = "get_job"
  BY NewTask
<1>2. task.results = <<>>
  BY DEF NoTask
<1> HIDE DEF task
<1>3. /\ worker'[j] = task /\ SetTask(j, task) /\ status[j] = "absent"
      /\ status' = [status EXCEPT ![j] = "queued"]
      /\ overall' = overall /\ expired' = expired /\ events' = events
  BY DEF IInv, TypeOK, SetTask, InsertJob, task
<1>4. Consistent(j) /\ StoreTypeOK /\ worker[j] \in Task
  BY DEF IInv, TypeOK
<1>5. EventsOf(j) = {} /\ \A k \in Jobs : EventsOf(k)' = EventsOf(k)
  BY <1>3, <1>4 DEF Consistent, EventsOf
<1>6. SeqsOf(j)' = {} /\ 1..0 = {}
  BY <1>5 DEF SeqsOf
<1>7. Consistent(j)'
  BY <1>1, <1>3, <1>5, <1>6 DEF Consistent, LogMatchesTask, AnnouncesDone, Appending
<1>8. StoreTypeOK' /\ status'[j] = "queued" /\ \A k \in Jobs \ {j} : status'[k] = status[k]
  BY <1>3, <1>4 DEF StoreTypeOK, JobStatus
<1>9. worker' \in [Jobs -> Task] /\ \A k \in Jobs : Consistent(k)'
  BY <1>1, <1>3, <1>5, <1>7, <1>8, OtherJobs
<1>10. IInv'
  BY <1>8, <1>9 DEF IInv, TypeOK
<1>11. worker[j].results = <<>>
  <2>1. Len(worker[j].results) = 0
    BY <1>4 DEF Consistent, Position
  <2>2. worker[j].results \in Seq([connector : Connectors, status : ConnectorStatus])
    BY <1>4 DEF Task
  <2> QED
    BY <2>1, <2>2
<1>12. Created(j)
  BY <1>1, <1>2, <1>3, <1>5, <1>8, <1>11 DEF Created, Working, Appending
<1>13. OthersQuiet(j)
  BY <1>3, <1>5, <1>8, OthersAreQuiet DEF OthersQuiet
<1> QED
  BY <1>10, <1>12, <1>13

\* A step of IInv that is made of moves keeps the other invariant and the jobs
\* that are over.
LEMMA MovesKeep ==
  ASSUME IInv, ResultsInv, \A k \in Jobs : Moves(k) \/ Created(k) \/ Forgotten(k)
  PROVE  ResultsInv' /\ \A k \in Jobs : Over(k) => Over(k)'
<1>1. ASSUME NEW k \in Jobs
      PROVE  RunsWhileWorking(k)' /\ LogTellsResults(k)'
  BY ResultsStep
<1> QED
  BY <1>1, OverStays DEF ResultsInv

\* One step of the worker specification, as the pages see it.
LEMMA NextKeeps ==
  ASSUME IInv, ResultsInv, [Next]_vars
  PROVE  IInv' /\ ResultsInv' /\ \A k \in Jobs : Over(k) => Over(k)'
<1>1. IInv'
  BY CreateSearchStep, TaskStepStep, CancelStep, ClockStep, ServerStep, CrashStep, PurgeStep,
     StutteringStep DEF Next
<1>2. \A k \in Jobs : Moves(k) \/ Created(k) \/ Forgotten(k)
  BY NextMove DEF OthersQuiet, Moves
<1> QED
  BY <1>1, <1>2, MovesKeep

\* The store, the tasks and the process are left alone.
LEMMA StorageKeeps ==
  ASSUME IInv, ResultsInv, Storage, faults' \in Nat
  PROVE  /\ IInv' /\ ResultsInv' /\ \A k \in Jobs : Steady(k)
         /\ UNCHANGED Lifecycle!vars
<1>1. IInv'
  BY DEF Storage, storeVars, IInv, TypeOK, StoreTypeOK, Consistent, LogMatchesTask,
     AnnouncesDone, EventsOf, SeqsOf
<1>2. \A k \in Jobs : /\ Phase(k)' = Phase(k) /\ worker'[k] = worker[k]
                      /\ status'[k] = status[k] /\ EventsOf(k)' = EventsOf(k)
  BY DEF Storage, storeVars, Phase, EventsOf
<1>3. \A k \in Jobs : Quiet(k) /\ Moves(k)
  BY <1>2 DEF Moves, Quiet
<1>4. \A k \in Jobs : Steady(k)
  BY <1>2 DEF Steady, Over
<1> QED
  BY <1>1, <1>3, <1>4, MovesKeep, AllQuietRefines

\* A step of the system that is not the storage's business.
ClientMoves(j) ==
  \/ \E answered \in BOOLEAN : LoadSnapshot(j, answered) \/ Connect(j, answered)
  \/ StreamStep(j) \/ StreamRaises(j) \/ ReceiveFrame(j) \/ ResponseEnds(j) \/ Disconnected(j)
  \/ RetryTimer(j)

\* Every step of the system: what it does to the jobs and what to the pages.
LEMMA SystemStep ==
  ASSUME SystemInv, [SystemNext]_allVars
  PROVE  /\ IInv' /\ ResultsInv' /\ \A k \in Jobs : Steady(k)
         /\ [Lifecycle!Next]_(Lifecycle!vars)
         /\ \/ \E j \in Jobs : ClientMoves(j)
            \/ \E j \in Jobs, created \in BOOLEAN : Posted(j, created)
            \/ UNCHANGED replayVars
            \/ DisconnectAll
<1> USE DEF SystemInv
<1>1. ASSUME NEW j \in Jobs, PostSearch(j)
      PROVE  /\ IInv' /\ ResultsInv' /\ \A k \in Jobs : Steady(k)
             /\ [Lifecycle!Next]_(Lifecycle!vars)
             /\ \E created \in BOOLEAN : Posted(j, created)
  <2>1. PICK reply \in Replies : CreateSearch(j, reply) /\ Posted(j, reply = "ok")
    BY <1>1 DEF PostSearch
  <2>2. [Next]_vars
    BY <2>1 DEF Next
  <2>3. client'[j] # "idle"
    BY <2>1 DEF Posted, SetClient, ReplayTypeOK
  <2>4. ASSUME NEW k \in Jobs \ {j}, Phase(k) = "none", worker[k].at = "none"
        PROVE  Phase(k)' = "none" /\ worker'[k].at = "none"
    <3>1. Quiet(k) /\ worker'[k] = worker[k]
      BY <2>1, CreateSearchMove DEF OthersQuiet, CreateSearch, SetTask, IInv, TypeOK
    <3> QED
      BY <2>4, <3>1 DEF Quiet
  <2>5. \A k \in Jobs : Steady(k)
    BY <2>2, <2>3, <2>4, NextKeeps DEF Steady
  <2> QED
    BY <2>1, <2>2, <2>5, NextKeeps, NextRefines
<1>2. ASSUME NEW j \in Jobs, PostRefused(j)
      PROVE  /\ IInv' /\ ResultsInv' /\ \A k \in Jobs : Steady(k)
             /\ [Lifecycle!Next]_(Lifecycle!vars)
             /\ \E created \in BOOLEAN : Posted(j, created)
  <2>1. Posted(j, FALSE) /\ faults' \in Nat /\ server' = server /\ stops' = stops
    <3>1. Fault \/ faults' = faults
      BY <1>2 DEF PostRefused
    <3>2. faults \in Nat
      BY DEF IInv, TypeOK
    <3>3. faults' \in Nat
      BY <3>1, <3>2 DEF Fault
    <3> QED
      BY <1>2, <3>3 DEF PostRefused
  <2>2. CASE UNCHANGED <<storeVars, worker>>
    BY <2>1, <2>2, StorageKeeps DEF Storage
  <2>3. CASE InsertJob(j) /\ SetTask(j, [NoTask EXCEPT !.at = "get_job"])
    <3>1. Phase(j) = "none" /\ worker[j].at = "none" /\ client'[j] # "idle"
      BY <2>1 DEF Posted, InStep, SetClient, ReplayTypeOK
    <3>2. IInv' /\ Created(j) /\ OthersQuiet(j)
      BY <2>1, <2>3, <3>1, PostRefusedStep
    <3>3. \A k \in Jobs : Moves(k) \/ Created(k) \/ Forgotten(k)
      BY <3>2 DEF OthersQuiet, Moves
    <3>4. ResultsInv' /\ \A k \in Jobs : Over(k) => Over(k)'
      BY <3>3, MovesKeep
    <3>5. ASSUME NEW k \in Jobs \ {j}, Phase(k) = "none", worker[k].at = "none"
          PROVE  Phase(k)' = "none" /\ worker'[k].at = "none"
      <4>1. Quiet(k) /\ worker'[k] = worker[k]
        BY <2>3, <3>2 DEF OthersQuiet, SetTask, IInv, TypeOK
      <4> QED
        BY <3>5, <4>1 DEF Quiet
    <3>6. \A k \in Jobs : Steady(k)
      BY <3>1, <3>4, <3>5 DEF Steady
    <3> QED
      BY <2>1, <3>2, <3>4, <3>6, AloneRefines
  <2> QED
    BY <1>2, <2>2, <2>3 DEF PostRefused
<1>3. ASSUME NEW j \in Jobs,
             ClientStep(j) \/ ServeStream(j) \/ StreamFails(j) \/ ConnectionBreaks(j)
      PROVE  /\ IInv' /\ ResultsInv' /\ \A k \in Jobs : Steady(k)
             /\ UNCHANGED Lifecycle!vars
             /\ ClientMoves(j)
  <2>1. Storage /\ faults' \in Nat /\ ClientMoves(j)
    BY <1>3 DEF ClientStep, ServeStream, StreamFails, ConnectionBreaks, Snapshot, OpenStream,
       ReadFrame, StreamCloses, Retry, Request, Fault, ClientMoves, IInv, TypeOK
  <2> QED
    BY <2>1, StorageKeeps
<1>4. CASE Background \/ Stop
  <2>1. /\ \/ \E j \in Jobs : TaskStep(j) \/ Cancel(j) \/ Clock(j)
           \/ Exit \/ Restart \/ Purge \/ Shutdown \/ Crash
        /\ UNCHANGED replayVars \/ DisconnectAll
    BY <1>4 DEF Background, Stop
  <2>2. [Next]_vars
    BY <2>1 DEF Next
  <2>3. \A k \in Jobs : Steady(k)
    BY <2>1, <2>2, NextKeeps, UnpostedStays DEF Steady
  <2> QED
    BY <2>1, <2>2, <2>3, NextKeeps, NextRefines
<1>5. CASE UNCHANGED allVars
  <2>1. Storage /\ faults' \in Nat /\ UNCHANGED replayVars
    BY <1>5 DEF allVars, vars, workerVars, Storage, storeVars, IInv, TypeOK
  <2> QED
    BY <2>1, StorageKeeps
<1> QED
  BY <1>1, <1>2, <1>3, <1>4, <1>5 DEF SystemNext

-----------------------------------------------------------------------------
(***************************************************************************)
(* The pages.                                                              *)
(***************************************************************************)

\* The flight of one page continues what it has handled.
Continues(j) ==
  client[j] = "streaming" =>
    /\ \A i \in DOMAIN stream[j].wire : stream[j].wire[i].seq = lastSeq[j] + i
    /\ stream[j].last = lastSeq[j] + Len(stream[j].wire)

LEMMA FlightIsOfEach ==
  FlightContinuesClient <=> \A j \in Jobs : Continues(j)
BY DEF FlightContinuesClient, Continues

\* A page that a step leaves alone stays in step.
LEMMA UntouchedPage ==
  ASSUME NEW k \in Jobs, Continues(k), InStep(k), Steady(k),
         stream'[k] = stream[k], client'[k] = client[k], lastSeq'[k] = lastSeq[k]
  PROVE  Continues(k)' /\ InStep(k)'
BY DEF Continues, InStep, Steady

\* So does one whose connection is gone.
LEMMA ParkedPage ==
  ASSUME NEW k \in Jobs, InStep(k), Steady(k),
         stream'[k] = NoStream \/ stream'[k] = stream[k],
         client'[k] \notin {"streaming", "idle", "done"}, lastSeq'[k] = lastSeq[k]
  PROVE  Continues(k)' /\ InStep(k)'
<1>1. NoStream.wire = <<>> /\ DOMAIN NoStream.wire = {}
  BY DEF NoStream
<1>2. Over(k) => Over(k)'
  BY DEF Steady
<1>3. \A i \in DOMAIN stream'[k].wire :
        stream'[k].wire[i].type = "job_done" =>
          stream'[k].wire[i].seq = LogLength /\ Over(k)'
  BY <1>1, <1>2 DEF InStep
<1> QED
  BY <1>3 DEF Continues, InStep

\* The step of one page leaves the others alone.
LEMMA OnePageMoves ==
  ASSUME ReplayTypeOK, NEW j \in Jobs, NEW s \in Stream, NEW c \in ClientState, NEW n \in Nat,
         stream' = [stream EXCEPT ![j] = s],
         client' = [client EXCEPT ![j] = c],
         lastSeq' = [lastSeq EXCEPT ![j] = n]
  PROVE  /\ ReplayTypeOK'
         /\ stream'[j] = s /\ client'[j] = c /\ lastSeq'[j] = n
         /\ \A k \in Jobs \ {j} : /\ stream'[k] = stream[k] /\ client'[k] = client[k]
                                  /\ lastSeq'[k] = lastSeq[k]
BY DEF ReplayTypeOK

\* A step of one page that leaves it well placed.
LEMMA PageStep ==
  ASSUME SystemInv, \A k \in Jobs : Steady(k),
         NEW j \in Jobs, NEW s \in Stream, NEW c \in ClientState, NEW n \in Nat,
         stream' = [stream EXCEPT ![j] = s],
         client' = [client EXCEPT ![j] = c],
         lastSeq' = [lastSeq EXCEPT ![j] = n],
         Continues(j)' /\ InStep(j)'
  PROVE  /\ ReplayTypeOK' /\ FlightContinuesClient'
         /\ \A k \in Jobs : InStep(k)'
<1>1. /\ ReplayTypeOK'
      /\ \A k \in Jobs \ {j} : /\ stream'[k] = stream[k] /\ client'[k] = client[k]
                               /\ lastSeq'[k] = lastSeq[k]
  BY OnePageMoves DEF SystemInv
<1>2. \A k \in Jobs : Continues(k) /\ InStep(k)
  BY FlightIsOfEach DEF SystemInv
<1>3. \A k \in Jobs \ {j} : Continues(k)' /\ InStep(k)'
  BY <1>1, <1>2, UntouchedPage
<1>4. \A k \in Jobs : Continues(k)'
  BY <1>3
<1>5. FlightContinuesClient'
  BY <1>4 DEF FlightContinuesClient, Continues
<1> QED
  BY <1>1, <1>3, <1>5

\* Its stream and its client, as one record each, keep their types.
LEMMA PageTypes ==
  ASSUME ReplayTypeOK, NEW j \in Jobs
  PROVE  /\ stream[j] \in Stream /\ client[j] \in ClientState /\ lastSeq[j] \in Nat
         /\ stream[j].last \in Nat /\ stream[j].wire \in Seq(Frame)
         /\ stream = [stream EXCEPT ![j] = stream[j]]
         /\ client = [client EXCEPT ![j] = client[j]]
         /\ lastSeq = [lastSeq EXCEPT ![j] = lastSeq[j]]
BY DEF ReplayTypeOK, Stream

LEMMA NoStreamType == NoStream \in Stream /\ NoStream.wire = <<>>
<1>1. <<>> \in Seq(Frame)
  OBVIOUS
<1>2. NoStream = [at |-> "off", last |-> 0, wire |-> <<>>]
  BY DEF NoStream
<1> QED
  BY <1>1, <1>2 DEF Stream

\* The generator appends what it replays to what is in flight.
LEMMA YieldingKeeps ==
  ASSUME SystemInv, NEW j \in Jobs, NEW next \in {"poll", "ended"},
         NEW s, s = Yielding(stream[j], InOrder(Replay(j, stream[j].last)), next)
  PROVE  /\ s \in Stream
         /\ client[j] = "streaming" =>
              /\ \A i \in DOMAIN s.wire : s.wire[i].seq = lastSeq[j] + i
              /\ s.last = lastSeq[j] + Len(s.wire)
         /\ \A i \in DOMAIN s.wire :
              s.wire[i].type = "job_done" => s.wire[i].seq = LogLength /\ Over(j)
<1> DEFINE from == stream[j].last
           wire == stream[j].wire
           frames == InOrder(Replay(j, from))
<1>1. from \in Nat /\ wire \in Seq(Frame) /\ lastSeq[j] \in Nat /\ Continues(j) /\ InStep(j)
  BY PageTypes, FlightIsOfEach DEF SystemInv
<1> HIDE DEF frames
<1>2. /\ frames \in Seq(Frame)
      /\ \A i \in 1..Len(frames) :
           /\ frames[i].seq = from + i
           /\ frames[i].type = "job_done" => frames[i].seq = LogLength /\ Over(j)
  BY <1>1, ReplayedFrames DEF SystemInv, frames
<1>3. /\ s.at = next /\ s.wire = wire \o frames
      /\ s.last = IF frames = <<>> THEN from ELSE frames[Len(frames)].seq
      /\ s = [at |-> s.at, wire |-> s.wire, last |-> s.last]
  BY DEF Yielding, frames
<1> HIDE DEF wire, from
<1>4. /\ s.wire \in Seq(Frame) /\ Len(s.wire) = Len(wire) + Len(frames)
      /\ \A i \in 1..Len(s.wire) :
           s.wire[i] = IF i <= Len(wire) THEN wire[i] ELSE frames[i - Len(wire)]
  BY <1>1, <1>2, <1>3, ConcatProperties
<1>5. /\ Len(wire) \in Nat /\ Len(frames) \in Nat
      /\ DOMAIN s.wire = 1..Len(s.wire) /\ DOMAIN wire = 1..Len(wire)
  BY <1>1, <1>2, <1>4, LenProperties
<1>6. s.last \in Nat /\ s.last = from + Len(frames)
  <2>1. CASE frames = <<>>
    BY <1>1, <1>3, <2>1
  <2>2. CASE frames # <<>>
    <3>1. Len(frames) \in 1..Len(frames)
      BY <1>2, <1>5, <2>2, EmptySeq
    <3>2. frames[Len(frames)].seq = from + Len(frames)
      BY <1>2, <3>1
    <3> QED
      BY <1>1, <1>3, <1>5, <2>2, <3>2
  <2> QED
    BY <2>1, <2>2
<1>7. s \in Stream
  BY <1>3, <1>4, <1>6 DEF Stream
<1>8. ASSUME client[j] = "streaming"
      PROVE  /\ \A i \in DOMAIN s.wire : s.wire[i].seq = lastSeq[j] + i
             /\ s.last = lastSeq[j] + Len(s.wire)
  <2>1. /\ \A i \in 1..Len(wire) : wire[i].seq = lastSeq[j] + i
        /\ from = lastSeq[j] + Len(wire)
    BY <1>1, <1>5, <1>8 DEF Continues, wire, from
  <2>2. s.last = lastSeq[j] + Len(s.wire)
    BY <1>1, <1>4, <1>5, <1>6, <2>1
  <2>3. ASSUME NEW i \in DOMAIN s.wire
        PROVE  s.wire[i].seq = lastSeq[j] + i
    <3>1. i \in 1..Len(s.wire) /\ i \in Int
      BY <1>4, <1>5, <2>3
    <3>2. CASE i <= Len(wire)
      <4>1. i \in 1..Len(wire) /\ s.wire[i] = wire[i]
        BY <1>4, <1>5, <3>1, <3>2
      <4> QED
        BY <2>1, <4>1
    <3>3. CASE i > Len(wire)
      <4>1. i - Len(wire) \in 1..Len(frames) /\ s.wire[i] = frames[i - Len(wire)]
        BY <1>4, <1>5, <3>1, <3>3
      <4>2. s.wire[i].seq = from + (i - Len(wire))
        BY <1>2, <4>1
      <4> QED
        BY <1>1, <1>5, <2>1, <3>1, <4>2
    <3> QED
      BY <1>5, <3>1, <3>2, <3>3
  <2> QED
    BY <2>2, <2>3
<1>9. ASSUME NEW i \in DOMAIN s.wire, s.wire[i].type = "job_done"
      PROVE  s.wire[i].seq = LogLength /\ Over(j)
  <2>1. i \in 1..Len(s.wire) /\ i \in Int
    BY <1>4, <1>5, <1>9
  <2>2. CASE i <= Len(wire)
    <3>1. i \in DOMAIN wire /\ s.wire[i] = wire[i]
      BY <1>4, <1>5, <2>1, <2>2
    <3> QED
      BY <1>1, <1>9, <3>1 DEF InStep, wire
  <2>3. CASE i > Len(wire)
    <3>1. i - Len(wire) \in 1..Len(frames) /\ s.wire[i] = frames[i - Len(wire)]
      BY <1>4, <1>5, <2>1, <2>3
    <3> QED
      BY <1>2, <1>9, <3>1
  <2> QED
    BY <1>5, <2>1, <2>2, <2>3
<1> QED
  BY <1>7, <1>8, <1>9

\* A stream that is served, polled or cut: the page itself does not move.
LEMMA ServedPage ==
  ASSUME SystemInv, \A k \in Jobs : Steady(k),
         NEW j \in Jobs, NEW s \in Stream, SetStream(j, s), UNCHANGED <<client, lastSeq>>,
         client[j] = "streaming" =>
           /\ \A i \in DOMAIN s.wire : s.wire[i].seq = lastSeq[j] + i
           /\ s.last = lastSeq[j] + Len(s.wire),
         \A i \in DOMAIN s.wire :
           s.wire[i].type = "job_done" => s.wire[i].seq = LogLength /\ Over(j)
  PROVE  /\ ReplayTypeOK' /\ FlightContinuesClient'
         /\ \A k \in Jobs : InStep(k)'
<1>1. ReplayTypeOK /\ InStep(j) /\ Steady(j)
  BY DEF SystemInv
<1>2. /\ stream' = [stream EXCEPT ![j] = s]
      /\ client' = [client EXCEPT ![j] = client[j]]
      /\ lastSeq' = [lastSeq EXCEPT ![j] = lastSeq[j]]
      /\ client[j] \in ClientState /\ lastSeq[j] \in Nat
  BY <1>1, PageTypes DEF SetStream
<1>3. stream'[j] = s /\ client'[j] = client[j] /\ lastSeq'[j] = lastSeq[j]
  BY <1>1, <1>2 DEF ReplayTypeOK
<1>4. Continues(j)'
  BY <1>3 DEF Continues
<1>5. InStep(j)'
  BY <1>1, <1>3 DEF InStep, Steady
<1> QED
  BY <1>2, <1>4, <1>5, PageStep

LEMMA StreamMoves ==
  ASSUME SystemInv, \A k \in Jobs : Steady(k), NEW j \in Jobs,
         StreamStep(j) \/ StreamRaises(j)
  PROVE  /\ ReplayTypeOK' /\ FlightContinuesClient'
         /\ \A k \in Jobs : InStep(k)'
<1>1. ReplayTypeOK /\ Continues(j) /\ InStep(j) /\ stream[j] \in Stream
  BY PageTypes, FlightIsOfEach DEF SystemInv
<1>2. CASE ReplayEvents(j) \/ FinalReplay(j)
  <2>1. PICK next \in {"poll", "ended"} :
          SetStream(j, Yielding(stream[j], InOrder(Replay(j, stream[j].last)), next))
    BY <1>2 DEF ReplayEvents, FinalReplay
  <2> DEFINE s == Yielding(stream[j], InOrder(Replay(j, stream[j].last)), next)
  <2>2. SetStream(j, s) /\ UNCHANGED <<client, lastSeq>>
    BY <1>2, <2>1 DEF ReplayEvents, FinalReplay
  <2> HIDE DEF s
  <2>3. /\ s \in Stream
        /\ client[j] = "streaming" =>
             /\ \A i \in DOMAIN s.wire : s.wire[i].seq = lastSeq[j] + i
             /\ s.last = lastSeq[j] + Len(s.wire)
        /\ \A i \in DOMAIN s.wire :
             s.wire[i].type = "job_done" => s.wire[i].seq = LogLength /\ Over(j)
    BY YieldingKeeps DEF s
  <2> QED
    BY <2>2, <2>3, ServedPage
<1>3. CASE PollStatus(j) \/ StreamRaises(j)
  <2>1. PICK next \in {"final", "replay", "cut"} : SetStream(j, [stream[j] EXCEPT !.at = next])
    BY <1>3 DEF PollStatus, StreamRaises
  <2> DEFINE s == [stream[j] EXCEPT !.at = next]
  <2>2. SetStream(j, s) /\ UNCHANGED <<client, lastSeq>>
    BY <1>3, <2>1 DEF PollStatus, StreamRaises
  <2>3. s \in Stream /\ s.wire = stream[j].wire /\ s.last = stream[j].last
    BY <1>1 DEF Stream
  <2> HIDE DEF s
  <2> QED
    BY <1>1, <2>2, <2>3, ServedPage DEF Continues, InStep
<1> QED
  BY <1>2, <1>3 DEF StreamStep

\* A frame that is read is the next one, and the last of the log if it says done.
LEMMA ReadMoves ==
  ASSUME SystemInv, NEW j \in Jobs, ReceiveFrame(j)
  PROVE  LET frame == Head(stream[j].wire)
             over == frame.type \in TERMINAL_EVENTS
         IN  /\ lastSeq' = [lastSeq EXCEPT ![j] = lastSeq[j] + 1]
             /\ frame.type = "job_done" => lastSeq[j] + 1 = LogLength /\ Over(j)
             /\ SetStream(j, IF over THEN NoStream
                             ELSE [stream[j] EXCEPT !.wire = Tail(stream[j].wire)])
             /\ SetClient(j, IF ~over THEN "streaming"
                             ELSE IF frame.type = "job_done" THEN "done" ELSE "error")
<1> DEFINE wire == stream[j].wire
           frame == Head(wire)
<1>1. /\ client[j] = "streaming" /\ wire # <<>> /\ wire \in Seq(Frame)
      /\ lastSeq[j] \in Nat /\ Continues(j) /\ InStep(j)
  BY PageTypes, FlightIsOfEach DEF SystemInv, ReceiveFrame
<1>2. frame = wire[1] /\ 1 \in DOMAIN wire
  BY <1>1
<1>3. frame.seq = lastSeq[j] + 1
  BY <1>1, <1>2 DEF Continues
<1>4. frame.type = "job_done" => lastSeq[j] + 1 = LogLength /\ Over(j)
  BY <1>1, <1>2, <1>3 DEF InStep
<1>5. frame.seq > lastSeq[j]
  BY <1>1, <1>3
<1> QED
  BY <1>3, <1>4, <1>5 DEF ReceiveFrame

LEMMA ReadKeeps ==
  ASSUME SystemInv, \A k \in Jobs : Steady(k), NEW j \in Jobs, ReceiveFrame(j)
  PROVE  /\ ReplayTypeOK' /\ FlightContinuesClient'
         /\ \A k \in Jobs : InStep(k)'
<1> DEFINE wire == stream[j].wire
           frame == Head(wire)
           over == frame.type \in TERMINAL_EVENTS
           s == IF over THEN NoStream ELSE [stream[j] EXCEPT !.wire = Tail(wire)]
           c == IF ~over THEN "streaming"
                ELSE IF frame.type = "job_done" THEN "done" ELSE "error"
           n == lastSeq[j] + 1
<1>1. /\ ReplayTypeOK /\ stream[j] \in Stream /\ wire \in Seq(Frame) /\ lastSeq[j] \in Nat
      /\ Continues(j) /\ InStep(j) /\ Steady(j)
      /\ client[j] = "streaming" /\ wire # <<>>
  BY PageTypes, FlightIsOfEach DEF SystemInv, ReceiveFrame
<1>2. /\ lastSeq' = [lastSeq EXCEPT ![j] = n]
      /\ stream' = [stream EXCEPT ![j] = s]
      /\ client' = [client EXCEPT ![j] = c]
      /\ frame.type = "job_done" => n = LogLength /\ Over(j)
  BY ReadMoves DEF SetStream, SetClient
<1>3. /\ Tail(wire) \in Seq(Frame) /\ Len(Tail(wire)) = Len(wire) - 1 /\ Len(wire) \in Nat
      /\ \A i \in 1..(Len(wire) - 1) : Tail(wire)[i] = wire[i + 1]
  BY <1>1, HeadTailProperties, LenProperties
<1>4. s \in Stream /\ c \in ClientState /\ n \in Nat
  <2>1. [stream[j] EXCEPT !.wire = Tail(wire)] \in Stream
    BY <1>1, <1>3 DEF Stream
  <2>2. s \in Stream
    BY <2>1, NoStreamType
  <2>3. c \in ClientState
    BY DEF ClientState
  <2> QED
    BY <1>1, <2>2, <2>3
<1> HIDE DEF s, c, n
<1>5. stream'[j] = s /\ client'[j] = c /\ lastSeq'[j] = n
  BY <1>1, <1>2 DEF ReplayTypeOK
<1>6. CASE over
  <2>1. s = NoStream /\ c = IF frame.type = "job_done" THEN "done" ELSE "error"
    BY <1>6 DEF s, c
  <2>2. DOMAIN s.wire = {}
    BY <2>1, NoStreamType
  <2>3. Continues(j)'
    BY <1>5, <2>1 DEF Continues
  <2>4. InStep(j)'
    BY <1>1, <1>2, <1>5, <2>1, <2>2 DEF InStep, Steady
  <2> QED
    BY <1>2, <1>4, <2>3, <2>4, PageStep
<1>7. CASE ~over
  <2>1. s.wire = Tail(wire) /\ s.last = stream[j].last /\ c = "streaming"
    BY <1>1, <1>7 DEF s, c, Stream
  <2>2. DOMAIN s.wire = 1..(Len(wire) - 1)
    BY <1>3, <2>1, LenProperties
  <2>3. ASSUME NEW i \in DOMAIN s.wire
        PROVE  /\ i + 1 \in DOMAIN wire /\ s.wire[i] = wire[i + 1]
               /\ i \in Int
    BY <1>1, <1>3, <2>1, <2>2, LenProperties
  <2>4. ASSUME NEW i \in DOMAIN s.wire
        PROVE  s.wire[i].seq = n + i
    <3>1. s.wire[i].seq = lastSeq[j] + (i + 1) /\ i \in Int
      BY <1>1, <2>3 DEF Continues
    <3> QED
      BY <1>1, <3>1 DEF n
  <2>5. s.last = n + Len(s.wire)
    <3>1. stream[j].last = lastSeq[j] + Len(wire)
      BY <1>1 DEF Continues
    <3>2. Len(s.wire) = Len(wire) - 1
      BY <1>3, <2>1
    <3> HIDE DEF wire
    <3> QED
      BY <1>1, <1>3, <2>1, <3>1, <3>2 DEF n
  <2>6. Continues(j)'
    BY <1>5, <2>4, <2>5 DEF Continues
  <2>7. \A i \in DOMAIN s.wire :
          s.wire[i].type = "job_done" => s.wire[i].seq = LogLength /\ Over(j)
    BY <1>1, <2>3 DEF InStep
  <2>8. InStep(j)'
    BY <1>1, <1>5, <2>1, <2>7 DEF InStep, Steady
  <2> QED
    BY <1>2, <1>4, <2>6, <2>8, PageStep
<1> QED
  BY <1>6, <1>7

\* The other steps of a page: it connects, loses its stream or waits.
LEMMA ParkingMoves ==
  ASSUME SystemInv, \A k \in Jobs : Steady(k), NEW j \in Jobs,
         NEW c \in ClientState \ {"streaming", "idle", "done"}, SetClient(j, c),
         SetStream(j, NoStream) \/ UNCHANGED stream, UNCHANGED lastSeq
  PROVE  /\ ReplayTypeOK' /\ FlightContinuesClient'
         /\ \A k \in Jobs : InStep(k)'
<1>1. ReplayTypeOK /\ InStep(j) /\ Steady(j) /\ stream[j] \in Stream /\ lastSeq[j] \in Nat
  BY PageTypes DEF SystemInv
<1>2. PICK s \in {NoStream, stream[j]} : stream' = [stream EXCEPT ![j] = s]
  BY <1>1, PageTypes DEF SetStream
<1>3. /\ client' = [client EXCEPT ![j] = c]
      /\ lastSeq' = [lastSeq EXCEPT ![j] = lastSeq[j]]
      /\ s \in Stream
  BY <1>1, <1>2, PageTypes, NoStreamType DEF SetClient
<1>4. stream'[j] = s /\ client'[j] = c /\ lastSeq'[j] = lastSeq[j]
  BY <1>1, <1>2, <1>3 DEF ReplayTypeOK
<1>5. Continues(j)' /\ InStep(j)'
  BY <1>1, <1>2, <1>4, ParkedPage
<1> QED
  BY <1>1, <1>2, <1>3, <1>5, PageStep

LEMMA ConnectMoves ==
  ASSUME SystemInv, \A k \in Jobs : Steady(k), NEW j \in Jobs, NEW answered \in BOOLEAN,
         Connect(j, answered)
  PROVE  /\ ReplayTypeOK' /\ FlightContinuesClient'
         /\ \A k \in Jobs : InStep(k)'
<1>1. ReplayTypeOK /\ lastSeq[j] \in Nat /\ Steady(j)
  BY PageTypes DEF SystemInv
<1>2. CASE answered /\ Live(j)
  <2> DEFINE s == [at |-> "replay", last |-> lastSeq[j], wire |-> <<>>]
  <2>1. /\ stream' = [stream EXCEPT ![j] = s]
        /\ client' = [client EXCEPT ![j] = "streaming"]
        /\ lastSeq' = [lastSeq EXCEPT ![j] = lastSeq[j]]
    BY <1>1, <1>2, PageTypes DEF Connect, SetStream, SetClient
  <2>2. /\ s \in Stream /\ s.wire = <<>> /\ s.last = lastSeq[j]
        /\ "streaming" \in ClientState
    <3>1. <<>> \in Seq(Frame)
      OBVIOUS
    <3> QED
      BY <1>1, <3>1 DEF Stream, ClientState
  <2> HIDE DEF s
  <2>3. stream'[j] = s /\ client'[j] = "streaming" /\ lastSeq'[j] = lastSeq[j]
    BY <1>1, <2>1 DEF ReplayTypeOK
  <2>4. DOMAIN s.wire = {} /\ Len(s.wire) = 0
    BY <2>2
  <2>5. Continues(j)' /\ InStep(j)'
    BY <1>1, <2>2, <2>3, <2>4 DEF Continues, InStep
  <2> QED
    BY <1>1, <2>1, <2>2, <2>5, PageStep
<1>3. CASE ~(answered /\ Live(j))
  BY <1>3, ParkingMoves DEF Connect, ClientState
<1> QED
  BY <1>2, <1>3

LEMMA ClientKeeps ==
  ASSUME SystemInv, \A k \in Jobs : Steady(k), NEW j \in Jobs, ClientMoves(j)
  PROVE  /\ ReplayTypeOK' /\ FlightContinuesClient'
         /\ \A k \in Jobs : InStep(k)'
<1>1. ASSUME NEW answered \in BOOLEAN, LoadSnapshot(j, answered)
      PROVE  /\ ReplayTypeOK' /\ FlightContinuesClient'
             /\ \A k \in Jobs : InStep(k)'
  BY <1>1, ParkingMoves DEF LoadSnapshot, ClientState
<1>2. CASE ResponseEnds(j) \/ Disconnected(j) \/ RetryTimer(j)
  BY <1>2, ParkingMoves DEF ResponseEnds, Disconnected, RetryTimer, ClientState
<1> QED
  BY <1>1, <1>2, ConnectMoves, StreamMoves, ReadKeeps DEF ClientMoves

LEMMA PostedKeeps ==
  ASSUME SystemInv, \A k \in Jobs : Steady(k), NEW j \in Jobs, NEW created \in BOOLEAN,
         Posted(j, created)
  PROVE  /\ ReplayTypeOK' /\ FlightContinuesClient'
         /\ \A k \in Jobs : InStep(k)'
BY ParkingMoves DEF Posted, ClientState

LEMMA DisconnectAllKeeps ==
  ASSUME SystemInv, \A k \in Jobs : Steady(k), DisconnectAll
  PROVE  /\ ReplayTypeOK' /\ FlightContinuesClient'
         /\ \A k \in Jobs : InStep(k)'
<1>1. ReplayTypeOK'
  BY NoStreamType DEF SystemInv, ReplayTypeOK, DisconnectAll, ClientState
<1>2. ASSUME NEW k \in Jobs
      PROVE  Continues(k)' /\ InStep(k)'
  <2>1. /\ stream'[k] = NoStream /\ lastSeq'[k] = lastSeq[k]
        /\ client'[k] = IF client[k] = "streaming" THEN "waiting" ELSE client[k]
    BY DEF DisconnectAll
  <2>2. InStep(k) /\ Steady(k) /\ DOMAIN NoStream.wire = {}
    BY NoStreamType DEF SystemInv
  <2>3. Continues(k)'
    BY <2>1 DEF Continues
  <2> QED
    BY <2>1, <2>2, <2>3 DEF InStep, Steady
<1> QED
  BY <1>1, <1>2 DEF FlightContinuesClient, Continues

LEMMA IdlePagesKeep ==
  ASSUME SystemInv, \A k \in Jobs : Steady(k), UNCHANGED replayVars
  PROVE  /\ ReplayTypeOK' /\ FlightContinuesClient'
         /\ \A k \in Jobs : InStep(k)'
<1>1. stream' = stream /\ client' = client /\ lastSeq' = lastSeq
  BY DEF replayVars
<1>2. \A k \in Jobs : Continues(k) /\ InStep(k)
  BY FlightIsOfEach DEF SystemInv
<1>3. \A k \in Jobs : Continues(k)' /\ InStep(k)'
  BY <1>1, <1>2, UntouchedPage
<1> QED
  BY <1>1, <1>3 DEF FlightContinuesClient, Continues, SystemInv, ReplayTypeOK

-----------------------------------------------------------------------------
(***************************************************************************)
(* The theorems.                                                           *)
(***************************************************************************)
\* Every job, its stream and its page agree in every reachable state.
THEOREM SystemInvariance == SystemSpec => []SystemInv
<1>1. SystemInit => SystemInv
  <2> SUFFICES ASSUME Init, ReplayInit
               PROVE  SystemInv
    BY DEF SystemInit
  <2>1. IInv /\ ResultsInv
    BY InitialState, InitialResults
  <2>2. ReplayTypeOK
    BY NoStreamType DEF ReplayInit, ReplayTypeOK, ClientState
  <2>3. FlightContinuesClient
    BY DEF ReplayInit, FlightContinuesClient
  <2>4. ASSUME NEW j \in Jobs
        PROVE  InStep(j)
    <3>1. Phase(j) = "none" /\ worker[j].at = "none"
      BY DEF Init, StoreInit, Phase, NoTask
    <3>2. client[j] = "idle" /\ DOMAIN stream[j].wire = {}
      BY NoStreamType DEF ReplayInit
    <3> QED
      BY <3>1, <3>2 DEF InStep
  <2> QED
    BY <2>1, <2>2, <2>3, <2>4 DEF SystemInv
<1>2. SystemInv /\ [SystemNext]_allVars => SystemInv'
  BY SystemStep, ClientKeeps, PostedKeeps, DisconnectAllKeeps, IdlePagesKeep DEF SystemInv
<1> QED
  BY <1>1, <1>2, PTL DEF SystemSpec

\* A page that ends with "done" has handled every event of the log, and what is
\* in flight continues what it has handled, wherever the stream broke
\* (_sse_generator with its last_seq, job-replay.js with lastSeq).
THEOREM PagesAreInStep == SystemSpec => []PageIsInStep
<1>1. SystemInv => PageIsInStep
  <2> SUFFICES ASSUME SystemInv
               PROVE  PageIsInStep
    OBVIOUS
  <2>1. ASSUME NEW j \in Jobs, client[j] = "done"
        PROVE  lastSeq[j] = LogLength /\ status[j] \in {"done", "absent"}
    BY <2>1 DEF SystemInv, InStep, Over, Phase, IInv, TypeOK, StoreTypeOK, JobStatus
  <2> QED
    BY <2>1 DEF SystemInv, IInv, PageIsInStep, SystemTypeOK, DoneClientSawEverything
<1> QED
  BY <1>1, SystemInvariance, PTL

\* The page handles event 1, 2, 3, ... of its job, none skipped and none twice
\* (handleEvent of job-replay.js).
THEOREM EventsAreHandledInOrder == SystemSpec => HandledInOrder
<1> DEFINE OneByOne == \A j \in Jobs : lastSeq'[j] \in {lastSeq[j], lastSeq[j] + 1}
<1>1. SystemInv /\ [SystemNext]_allVars => [OneByOne]_allVars
  <2> SUFFICES ASSUME SystemInv, [SystemNext]_allVars, NEW k \in Jobs
               PROVE  lastSeq'[k] \in {lastSeq[k], lastSeq[k] + 1}
    OBVIOUS
  <2>1. lastSeq \in [Jobs -> Nat]
    BY DEF SystemInv, ReplayTypeOK
  <2>2. ASSUME NEW j \in Jobs, ReceiveFrame(j)
        PROVE  lastSeq'[k] \in {lastSeq[k], lastSeq[k] + 1}
    <3>1. lastSeq' = [lastSeq EXCEPT ![j] = lastSeq[j] + 1]
      BY <2>2, ReadMoves
    <3> QED
      BY <2>1, <3>1
  <2>3. ASSUME NEW j \in Jobs, ClientMoves(j), ~ReceiveFrame(j)
        PROVE  lastSeq' = lastSeq
    BY <2>3 DEF ClientMoves, LoadSnapshot, Connect, StreamStep, ReplayEvents, PollStatus,
       FinalReplay, StreamRaises, ResponseEnds, Disconnected, RetryTimer
  <2>4. ASSUME NEW j \in Jobs, NEW created \in BOOLEAN, Posted(j, created)
        PROVE  lastSeq' = lastSeq
    BY <2>4 DEF Posted
  <2>5. CASE UNCHANGED replayVars \/ DisconnectAll
    BY <2>5 DEF replayVars, DisconnectAll
  <2> QED
    BY <2>2, <2>3, <2>4, <2>5, SystemStep
<1> QED
  BY <1>1, SystemInvariance, PTL DEF SystemSpec, HandledInOrder

\* What was proved of the jobs alone holds of the whole system: with the pages,
\* and with posts whose answer is lost, the logs have no holes, end truthfully
\* and sum up what is in them.
THEOREM LogsAreTrue == SystemSpec => [](GapFreeLog /\ JobDoneIsTrue /\ SummaryMatchesLog)
<1>1. IInv => JobDoneIsTrue
  BY DEF IInv, TypeOK, StoreTypeOK, EventRow, Consistent, EventsOf, JobDoneIsTrue
<1>2. SystemInv => GapFreeLog /\ JobDoneIsTrue /\ SummaryMatchesLog
  BY <1>1, GapFreeStates, SummaryStates DEF SystemInv
<1> QED
  BY <1>2, SystemInvariance, PTL

\* And its jobs still implement the lifecycle.
THEOREM SystemImplementsLifecycle == SystemSpec => ImplementsLifecycle
<1>1. SystemInit => Lifecycle!Init
  BY InitRefines DEF SystemInit
<1>2. SystemInv /\ [SystemNext]_allVars => [Lifecycle!Next]_(Lifecycle!vars)
  BY SystemStep
<1> QED
  BY <1>1, <1>2, SystemInvariance, PTL DEF SystemSpec, ImplementsLifecycle, Lifecycle!Spec

=============================================================================
