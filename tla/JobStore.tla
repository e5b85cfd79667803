------------------------------ MODULE JobStore ------------------------------
(***************************************************************************)
(* The persistent half of a v2 search: the tables search_jobs and          *)
(* search_events (migration 0004) and the statements job_store.py runs on  *)
(* them.  A statement is one transaction, hence one atomic effect; what    *)
(* its caller learns of it is a reply of its own, because the answer to a  *)
(* statement that committed may still be lost.                             *)
(*                                                                         *)
(* A job is identified by its UUID, which is never reused.  The clock is   *)
(* abstracted to the one question the statements ask of it: whether NOW()  *)
(* has passed the expires_at of a job (the set "expired").                 *)
(***************************************************************************)
EXTENDS Integers, FiniteSets

CONSTANTS
  Jobs,         \* the UUIDs create_job may draw
  Connectors,   \* connector identifiers
  None          \* the NULL of a column, the absent field of a payload

ASSUME NoneIsNoConnector == None \notin Connectors

VARIABLES
  status,       \* search_jobs.status of every job; "absent" when it has no row
  overall,      \* search_jobs.overall_status
  expired,      \* the jobs whose expires_at has passed
  events        \* the rows of search_events

storeVars == <<status, overall, expired, events>>

(***************************************************************************)
(* Values of the columns.                                                  *)
(***************************************************************************)
ConnectorStatus ==
  {"pending", "running", "found", "likely",
   "not_found", "uncertain", "blocked", "error"}

JobStatus == {"queued", "running", "done", "failed"}

Terminal == {"done", "failed"}

\* The event types the worker writes, out of those the store would accept.
EventTypes ==
  {"job_started", "connector_started", "connector_result", "summary", "job_done"}

\* A row of search_events; its payload is reduced to the connector and the
\* status it carries.
EventRow ==
  [job: Jobs, seq: Nat \ {0}, type: EventTypes,
   connector: Connectors \union {None}, status: ConnectorStatus \union {None}]

EventsOf(j) == {e \in events : e.job = j}

SeqsOf(j) == {e.seq : e \in EventsOf(j)}

StoreTypeOK ==
  /\ status \in [Jobs -> JobStatus \union {"absent"}]
  /\ overall \in [Jobs -> ConnectorStatus \union {None}]
  /\ expired \subseteq Jobs
  /\ events \subseteq EventRow

StoreInit ==
  /\ status = [j \in Jobs |-> "absent"]
  /\ overall = [j \in Jobs |-> None]
  /\ expired = {}
  /\ events = {}

-----------------------------------------------------------------------------
(***************************************************************************)
(* What a caller can learn from a call.  "ok": the statement committed and *)
(* said so.  "error": a DatabaseError or RuntimeError.  "lost": an         *)
(* exception db.py does not translate (OSError, InterfaceError, the        *)
(* TimeoutError of command_timeout).  The last two come in two forms: the  *)
(* statement had committed before the connection broke, or it had not.     *)
(***************************************************************************)
Replies == {"ok", "error", "error_after_commit", "lost", "lost_after_commit"}

Committed(reply) == reply \in {"ok", "error_after_commit", "lost_after_commit"}

Escapes(reply) == reply \in {"lost", "lost_after_commit"}

-----------------------------------------------------------------------------
(***************************************************************************)
(* The statements.  The WHERE clause of every read and update is owner and *)
(* expires_at >= NOW(); the owner is always the one that created the job.  *)
(***************************************************************************)
Live(j) == status[j] # "absent" /\ j \notin expired

\* INSERT INTO search_jobs ... 'queued'
InsertJob(j) ==
  /\ status[j] = "absent"
  /\ status' = [status EXCEPT ![j] = "queued"]
  /\ UNCHANGED <<overall, expired, events>>

\* WHERE status IN (from) AND expires_at >= NOW(), RETURNING id
MatchesAnyStatus(j, from) == Live(j)    \* variant: no status in the WHERE clause

Matches(j, from) == Live(j) /\ status[j] \in from

\* The status column after one guarded UPDATE of job j.
Update(j, from, to, result) ==
  /\ IF Matches(j, from)
       THEN /\ status' = [status EXCEPT ![j] = to]
            /\ overall' = [overall EXCEPT ![j] = result]
       ELSE UNCHANGED <<status, overall>>
  /\ UNCHANGED <<expired, events>>

RunnableFrom == {"queued"}

MarkRunning(j) == Update(j, RunnableFrom, "running", overall[j])

FinishableFromQueued == {"queued"}        \* variant: "running" forgotten
FinishableFromAny == JobStatus            \* variant: a finished job accepted

FinishableFrom == {"queued", "running"}

MarkDoneSwapped(j, result) ==             \* variant: the two status columns swapped
  Update(j, FinishableFrom, result, result)

MarkDone(j, result) == Update(j, FinishableFrom, "done", result)

MarkFailed(j) == Update(j, FinishableFrom, "failed", overall[j])

\* The two constraints an INSERT INTO search_events must meet: the foreign key
\* to search_jobs and UNIQUE (job_id, seq).  The TTL is not one of them.
InsertableUnlinked(j, seq) == seq \notin SeqsOf(j)   \* variant: no foreign key

Insertable(j, seq) == status[j] # "absent" /\ seq \notin SeqsOf(j)

InsertEvent(e) ==
  /\ events' = IF Insertable(e.job, e.seq) THEN events \union {e} ELSE events
  /\ UNCHANGED <<status, overall, expired>>

\* SELECT ... WHERE seq > from ORDER BY seq, through a cursor: the rows of one
\* snapshot.
ReplayPastNext(j, from) ==                \* variant: from_seq is the next one wanted
  IF Live(j) THEN {e \in EventsOf(j) : e.seq > from + 1} ELSE {}

Replay(j, from) == IF Live(j) THEN {e \in EventsOf(j) : e.seq > from} ELSE {}

-----------------------------------------------------------------------------
(***************************************************************************)
(* Time and retention.                                                     *)
(***************************************************************************)
Expire(j) ==
  /\ status[j] # "absent"
  /\ j \notin expired
  /\ expired' = expired \union {j}
  /\ UNCHANGED <<status, overall, events>>

PurgeableFinished ==                      \* variant: finished jobs go before their TTL
  {j \in Jobs : status[j] \in Terminal}

Purgeable == {j \in expired : status[j] # "absent"}

\* DELETE FROM search_jobs WHERE expires_at < now, with ON DELETE CASCADE.
PurgeExpired ==
  /\ status' = [j \in Jobs |-> IF j \in Purgeable THEN "absent" ELSE status[j]]
  /\ overall' = [j \in Jobs |-> IF j \in Purgeable THEN None ELSE overall[j]]
  /\ events' = {e \in events : e.job \notin Purgeable}
  /\ UNCHANGED expired
=============================================================================
