------------------------------ MODULE SearchV2 ------------------------------
(***************************************************************************)
(* The v2 search end to end: the browser posts a job, the worker executes  *)
(* it and appends its events, the stream endpoint replays them, the        *)
(* browser reconnects until it has seen the job end.  Worker and streams   *)
(* share the event loop, the database and the process; they meet only in   *)
(* the rows of the store.                                                  *)
(***************************************************************************)
EXTENDS SearchWorker, JobReplay

allVars == <<vars, replayVars>>

SystemTypeOK == TypeOK /\ ReplayTypeOK

SystemInit == Init /\ ReplayInit

\* A failure outside the database calls: a broken connection, a refused request.
Fault == faults < MaxFaults /\ faults' = faults + 1

Storage == UNCHANGED <<storeVars, server, worker, stops>>

-----------------------------------------------------------------------------
(***************************************************************************)
(* Requests.                                                               *)
(***************************************************************************)
PostSearch(j) ==
  \E reply \in Replies : CreateSearch(j, reply) /\ Posted(j, reply = "ok")

\* The server is stopped, the call fails, or the response of a call that
\* succeeded is lost: the page reports an error, the job goes on.
PostRefused(j) ==
  /\ IF server = "up"
       THEN /\ Fault
            /\ \/ UNCHANGED <<storeVars, worker>>
               \/ /\ InsertJob(j)
                  /\ SetTask(j, [NoTask EXCEPT !.at = "get_job"])
       ELSE UNCHANGED <<storeVars, worker, faults>>
  /\ Posted(j, FALSE)
  /\ UNCHANGED <<server, stops>>

\* A GET is answered, or it is not: by a fault, or because the server is stopped.
Request(answered) ==
  IF server = "up"
    THEN IF answered THEN UNCHANGED faults ELSE Fault
    ELSE ~answered /\ UNCHANGED faults

Snapshot(j) ==
  /\ \E answered \in BOOLEAN : Request(answered) /\ LoadSnapshot(j, answered)
  /\ Storage

OpenStream(j) ==
  /\ \E answered \in BOOLEAN : Request(answered) /\ Connect(j, answered)
  /\ Storage

(***************************************************************************)
(* Streams and clients.                                                    *)
(***************************************************************************)
ServeStream(j) == StreamStep(j) /\ UNCHANGED faults /\ Storage

StreamFails(j) == StreamRaises(j) /\ Fault /\ Storage

ReadFrame(j) == ReceiveFrame(j) /\ UNCHANGED faults /\ Storage

StreamCloses(j) == ResponseEnds(j) /\ UNCHANGED faults /\ Storage

ConnectionBreaks(j) == Disconnected(j) /\ Fault /\ Storage

Retry(j) == RetryTimer(j) /\ UNCHANGED faults /\ Storage

ClientStep(j) ==
  \/ Snapshot(j)
  \/ OpenStream(j)
  \/ ReadFrame(j)
  \/ StreamCloses(j)
  \/ Retry(j)

(***************************************************************************)
(* The rest of the server.  A shutdown first ends the open responses.      *)
(***************************************************************************)
Background ==
  /\ \/ \E j \in Jobs : TaskStep(j) \/ Cancel(j) \/ Clock(j)
     \/ Exit \/ Restart \/ Purge
  /\ UNCHANGED replayVars

Stop == (Shutdown \/ Crash) /\ DisconnectAll

SystemNext ==
  \/ \E j \in Jobs : PostSearch(j) \/ PostRefused(j) \/ ClientStep(j)
                     \/ ServeStream(j) \/ StreamFails(j) \/ ConnectionBreaks(j)
  \/ Background
  \/ Stop

SystemSpec == SystemInit /\ [][SystemNext]_allVars

(***************************************************************************)
(* The event loop and the page keep running; faults and stops are bounded. *)
(***************************************************************************)
SystemFairness ==
  /\ \A j \in Jobs :
       /\ WF_allVars(TaskStep(j) /\ UNCHANGED replayVars)
       /\ WF_allVars(Cancel(j) /\ UNCHANGED replayVars)
       /\ WF_allVars(ServeStream(j))
       /\ WF_allVars(ClientStep(j))
  /\ WF_allVars(Exit /\ UNCHANGED replayVars)
  /\ WF_allVars(Restart /\ UNCHANGED replayVars)

FairSystemSpec == SystemSpec /\ SystemFairness

-----------------------------------------------------------------------------
(***************************************************************************)
(* Properties.                                                             *)
(***************************************************************************)

\* The page handles event 1, 2, 3, ... of its job, none skipped and none twice,
\* across every break of the connection and restart of the server.
HandledInOrder ==
  [][\A j \in Jobs : lastSeq'[j] \in {lastSeq[j], lastSeq[j] + 1}]_allVars

\* A page that reports a finished search has seen the whole log of a job that
\* is done (or was purged since).
DoneClientSawEverything ==
  \A j \in Jobs : client[j] = "done" =>
    lastSeq[j] = LogLength /\ status[j] \in {"done", "absent"}

\* What is in flight continues what the client has handled, and the generator
\* resumes behind it.
FlightContinuesClient ==
  \A j \in Jobs : client[j] = "streaming" =>
    LET wire == stream[j].wire
    IN  /\ \A i \in DOMAIN wire : wire[i].seq = lastSeq[j] + i
        /\ stream[j].last = lastSeq[j] + Len(wire)

\* Once job_done is stored, the page of the job gets it, whatever broke before,
\* unless the job expires first.
JobDoneReachesClient ==
  \A j \in Jobs :
    (client[j] \in {"connecting", "streaming", "waiting"}
       /\ \E e \in EventsOf(j) : e.type = "job_done")
      ~> (client[j] = "done" \/ j \in expired)

\* The module comment of search_v2.py and the event list of the R2 plan promise
\* the page a terminal event (job_done or job_failed) for every finished job.
FailureReachesClient ==
  \A j \in Jobs :
    (client[j] \in {"connecting", "streaming", "waiting"} /\ status[j] = "failed")
      ~> (client[j] = "error" \/ j \in expired)

\* A page that ends with "done" has handled every event of the log; what is in
\* flight continues what it has handled, wherever the stream broke.
PageIsInStep == SystemTypeOK /\ DoneClientSawEverything /\ FlightContinuesClient

(***************************************************************************)
(* The inductive invariant behind them, beside IInv and ResultsInv.        *)
(***************************************************************************)

\* A job that is done, or was purged, is so for good.
Over(j) == Phase(j) \in {"done", "gone"}

\* What the page of a job knows or is about to be told agrees with its row.
InStep(j) ==
  /\ client[j] = "idle" => Phase(j) = "none" /\ worker[j].at = "none"
  /\ client[j] = "done" => lastSeq[j] = LogLength /\ Over(j)
  /\ \A i \in DOMAIN stream[j].wire :
       stream[j].wire[i].type = "job_done" => stream[j].wire[i].seq = LogLength /\ Over(j)

SystemInv ==
  /\ IInv /\ ResultsInv /\ ReplayTypeOK
  /\ FlightContinuesClient
  /\ \A j \in Jobs : InStep(j)

=============================================================================
