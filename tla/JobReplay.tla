------------------------------ MODULE JobReplay ------------------------------
(***************************************************************************)
(* How the events of a job reach the browser that posted it: the stream    *)
(* endpoint and _sse_generator (api/routes/search_v2.py) on the server,    *)
(* job-replay.js and the promise of v2-search.js around it on the client.  *)
(* The two meet in one HTTP response, an ordered byte stream that may      *)
(* break at any point and is then asked for again from the last seq seen.  *)
(***************************************************************************)
EXTENDS JobStore, Sequences

VARIABLES
  stream,       \* the generator serving the job's client, and what is in flight
  client,       \* where startV2Search is
  lastSeq       \* state.lastSeq of job-replay.js

replayVars == <<stream, client, lastSeq>>

TERMINAL_EVENTS == {"job_done", "job_failed"}

\* An SSE frame, reduced to what the client looks at.
Frame == [seq: Nat \ {0}, type: EventTypes]

\* The generator: its next step, last_seq, and the frames it has yielded that
\* the client has not read yet.  "ended" is the break on a terminal status,
\* "cut" the break on the maximum duration or an exception.
Stream ==
  [at: {"off", "replay", "poll", "final", "ended", "cut"},
   last: Nat, wire: Seq(Frame)]

NoStream == [at |-> "off", last |-> 0, wire |-> <<>>]

ClientState ==
  {"idle", "snapshot", "connecting", "streaming", "waiting", "done", "error"}

ReplayTypeOK ==
  /\ stream \in [Jobs -> Stream]
  /\ client \in [Jobs -> ClientState]
  /\ lastSeq \in [Jobs -> Nat]

ReplayInit ==
  /\ stream = [j \in Jobs |-> NoStream]
  /\ client = [j \in Jobs |-> "idle"]
  /\ lastSeq = [j \in Jobs |-> 0]

SetStream(j, s) == stream' = [stream EXCEPT ![j] = s]

SetClient(j, state) == client' = [client EXCEPT ![j] = state]

-----------------------------------------------------------------------------
(***************************************************************************)
(* The generator.                                                          *)
(***************************************************************************)
Rank(rows, e) == Cardinality({f \in rows : f.seq <= e.seq})

\* ORDER BY seq.
InOrder(rows) ==
  [i \in 1..Cardinality(rows) |->
     LET e == CHOOSE e \in rows : Rank(rows, e) = i IN [seq |-> e.seq, type |-> e.type]]

\* async for event in stream_events(from_seq=last_seq): yield the frame.
Yielding(s, frames, next) ==
  [at |-> next, wire |-> s.wire \o frames,
   last |-> IF frames = <<>> THEN s.last ELSE frames[Len(frames)].seq]

ReplayEvents(j) ==
  /\ stream[j].at = "replay"
  /\ SetStream(j, Yielding(stream[j], InOrder(Replay(j, stream[j].last)), "poll"))
  /\ UNCHANGED <<client, lastSeq>>

\* SELECT status: no row or a terminal one ends the stream after a last replay,
\* the maximum duration cuts it, otherwise it sleeps and replays again.
StreamIsOver(j) == ~Live(j) \/ status[j] \in Terminal

PollStatus(j) ==
  /\ stream[j].at = "poll"
  /\ \E next \in IF StreamIsOver(j) THEN {"final"} ELSE {"replay", "cut"} :
       SetStream(j, [stream[j] EXCEPT !.at = next])
  /\ UNCHANGED <<client, lastSeq>>

FinalReplay(j) ==
  /\ stream[j].at = "final"
  /\ SetStream(j, Yielding(stream[j], InOrder(Replay(j, stream[j].last)), "ended"))
  /\ UNCHANGED <<client, lastSeq>>

\* An exception of a database call leaves the generator.
StreamRaises(j) ==
  /\ stream[j].at \in {"replay", "poll", "final"}
  /\ SetStream(j, [stream[j] EXCEPT !.at = "cut"])
  /\ UNCHANGED <<client, lastSeq>>

StreamStep(j) == ReplayEvents(j) \/ PollStatus(j) \/ FinalReplay(j)

-----------------------------------------------------------------------------
(***************************************************************************)
(* The client: POST, snapshot, then an EventSource that is reopened from   *)
(* lastSeq after every error until a terminal event has been seen.         *)
(***************************************************************************)
Posted(j, created) ==
  /\ client[j] = "idle"
  /\ SetClient(j, IF created THEN "snapshot" ELSE "error")
  /\ UNCHANGED <<stream, lastSeq>>

LoadSnapshot(j, answered) ==
  /\ client[j] = "snapshot"
  /\ SetClient(j, IF answered /\ Live(j) THEN "connecting" ELSE "error")
  /\ UNCHANGED <<stream, lastSeq>>

\* GET events?from_seq=lastSeq: the handler looks the job up, then streams.
ConnectFromStart(j, answered) ==          \* variant: from_seq is ignored
  /\ client[j] = "connecting"
  /\ IF answered /\ Live(j)
       THEN /\ SetStream(j, [at |-> "replay", last |-> 0, wire |-> <<>>])
            /\ SetClient(j, "streaming")
       ELSE SetClient(j, "waiting") /\ UNCHANGED stream
  /\ UNCHANGED lastSeq

Connect(j, answered) ==
  /\ client[j] = "connecting"
  /\ IF answered /\ Live(j)
       THEN /\ SetStream(j, [at |-> "replay", last |-> lastSeq[j], wire |-> <<>>])
            /\ SetClient(j, "streaming")
       ELSE SetClient(j, "waiting") /\ UNCHANGED stream
  /\ UNCHANGED lastSeq

\* handleEvent: a frame not above lastSeq is dropped; a terminal one closes the
\* EventSource and settles the promise of waitForEvents.
ReceiveFrame(j) ==
  /\ client[j] = "streaming"
  /\ stream[j].wire # <<>>
  /\ LET frame == Head(stream[j].wire)
         fresh == frame.seq > lastSeq[j]
         over == fresh /\ frame.type \in TERMINAL_EVENTS
     IN  /\ lastSeq' = [lastSeq EXCEPT ![j] = IF fresh THEN frame.seq ELSE @]
         /\ SetStream(j, IF over THEN NoStream ELSE [stream[j] EXCEPT !.wire = Tail(@)])
         /\ SetClient(j, IF ~over THEN "streaming"
                         ELSE IF frame.type = "job_done" THEN "done" ELSE "error")

\* onerror: the response ended, or broke with frames still in flight.
Disconnected(j) ==
  /\ client[j] = "streaming"
  /\ SetStream(j, NoStream)
  /\ SetClient(j, "waiting")
  /\ UNCHANGED lastSeq

ResponseEndsForGood(j) ==                 \* variant: a clean end is not reopened
  /\ stream[j].at = "cut"
  /\ stream[j].wire = <<>>
  /\ Disconnected(j)

ResponseEnds(j) ==
  /\ stream[j].at \in {"ended", "cut"}
  /\ stream[j].wire = <<>>
  /\ Disconnected(j)

\* setTimeout(open, retryDelayMs)
RetryTimer(j) ==
  /\ client[j] = "waiting"
  /\ SetClient(j, "connecting")
  /\ UNCHANGED <<stream, lastSeq>>

\* The process is gone and every response with it.
DisconnectAll ==
  /\ stream' = [j \in Jobs |-> NoStream]
  /\ client' = [j \in Jobs |-> IF client[j] = "streaming" THEN "waiting" ELSE client[j]]
  /\ UNCHANGED lastSeq

=============================================================================
