-------------------------------- MODULE V2Page --------------------------------
(***************************************************************************)
(* The page of the v2 search: startV2Search (v2-search.js) with the replay *)
(* client it opens (job-replay.js).  Every search is a coroutine that      *)
(* awaits a POST, a GET and the end of its event stream; all of them write *)
(* into one global, currentResult, whichever search it belongs to by then. *)
(* The button is disabled while a search runs, but Enter in the search     *)
(* field starts another one all the same, and the button is enabled again  *)
(* 600 ms before the results are drawn.                                    *)
(***************************************************************************)
EXTENDS Naturals, Sequences, FiniteSetsExt, Functions

CONSTANTS
  Searches,     \* the searches of one page load, numbered as they begin
  Connectors,   \* connector names
  Plans,        \* the connectors the server may run for a job, in order
  Unlogged      \* how many of its last events a job may leave unlogged

ASSUME V2PageAssumption ==
  /\ Searches \subseteq Nat \ {0}
  /\ IsFiniteSet(Connectors)
  /\ Plans \subseteq Seq(Connectors) \ {<<>>}

VARIABLES
  signal,       \* isSignalUiActive(): ?ui=signal
  search,       \* each call of startV2Search
  currentResult,
  page,         \* what the controls of the page show
  modulesRan,
  selected      \* selectedSignalEvidenceKey

pageVars ==
  <<signal, search, currentResult, page, modulesRan, selected>>

None == 0

NoKey == <<"none", 0>>

-----------------------------------------------------------------------------
(***************************************************************************)
(* The log of a job, as the worker appends it (SearchWorker): dense seqs   *)
(* from 1, a start and a result per connector of the plan, the summary and *)
(* the end.  The log of a job that failed, or whose server went away, just *)
(* stops: nothing appends the job_failed that handleV2Event and the replay *)
(* client would end with, so the page has no step for it.                  *)
(***************************************************************************)
Event(type, c) == [type |-> type, connector |-> c]

LogLength(plan) == 2 * Len(plan) + 3

EventAt(plan, seq) ==
  CASE seq = 1 -> Event("job_started", "none")
    [] seq = LogLength(plan) - 1 -> Event("summary", "none")
    [] seq = LogLength(plan) -> Event("job_done", "none")
    [] OTHER -> Event(IF seq % 2 = 0 THEN "connector_started" ELSE "connector_result",
                      plan[seq \div 2])

\* What a connector_result says: a status and the items of evidence released.
Outcomes == {[status |-> "found", evidence |-> 1], [status |-> "blocked", evidence |-> 0]}

\* connectorToModule, for the connectors of _connectors_for.
ConnectorToModule(c) ==
  CASE c \in {"sherlock:github", "sherlock:reddit", "sherlock:steam"} -> "sherlock"
    [] c = "oathnet:breach" -> "breach"
    [] c = "oathnet:stealer" -> "stealer"
    [] c = "oathnet:victims" -> "victims"
    [] OTHER -> c

ModulesOf(connectors) == {ConnectorToModule(c) : c \in connectors}

-----------------------------------------------------------------------------
(***************************************************************************)
(* State.                                                                  *)
(***************************************************************************)
\* seq is lastSeq of the replay client; logged is how many events the log of the
\* job will hold in the end; undisturbed says that no other search has overlapped
\* this one, its 600 ms included (of the last two the page knows nothing).
IdleSearch ==
  [at |-> "idle", plan |-> <<>>, seq |-> 0, logged |-> 0, undisturbed |-> TRUE]

Awaiting == {"creating", "loading", "streaming"}

Places == Awaiting \cup {"idle", "timer", "shown", "failed"}

\* currentResult.v2 and connectorResultsByName.  owner and seen[i].job are the
\* search a result was made for and the job an event came from.
NewResult(s) ==
  [owner |-> s, job |-> None, status |-> "none", planned |-> {}, started |-> {},
   results |-> [c \in {} |-> 0], last_seq |-> 0, seen |-> {}]

PageInit ==
  /\ signal \in BOOLEAN
  /\ search = [s \in Searches |-> IdleSearch]
  /\ currentResult = NewResult(None)
  /\ page = [scan |-> FALSE, results |-> FALSE, button |-> TRUE, pct |-> 0]
  /\ modulesRan = {}
  /\ selected = NoKey

-----------------------------------------------------------------------------
(***************************************************************************)
(* Views of the Signal interface.                                          *)
(***************************************************************************)
\* getConnectorNames
ConnectorNames(r) == r.planned \cup r.started \cup DOMAIN r.results

ConnectorStatusFromStarts(r, c) ==        \* variant: a start hides the result
  IF c \in r.started THEN "running"
  ELSE IF c \in DOMAIN r.results THEN r.results[c].status
  ELSE "pending"

ConnectorStatus(r, c) ==
  IF c \in DOMAIN r.results THEN r.results[c].status
  ELSE IF c \in r.started THEN "running"
  ELSE "pending"

\* flattenSignalEvidence: a connector and an index name an item.
EvidenceKeys(r) ==
  UNION {{<<c, i>> : i \in 1 .. r.results[c].evidence} : c \in DOMAIN r.results}

\* renderSignalLayers and renderSignalOutput: a layer per connector, and how
\* many of them have each status.
SignalLayers(r) == [c \in ConnectorNames(r) |-> ConnectorStatus(r, c)]

SignalOutput(r, status) == Cardinality({c \in ConnectorNames(r) : SignalLayers(r)[c] = status})

\* renderSignalDossier
DossierStatus(r) ==
  IF r.job = None THEN "no search" ELSE IF r.status = "none" THEN "running" ELSE r.status

\* renderSignalEvidence: a key that is not listed gives way to the first one.
SelectEvidence(r, key) ==
  IF EvidenceKeys(r) = {} \/ key \in EvidenceKeys(r) THEN key
  ELSE CHOOSE k \in EvidenceKeys(r) : TRUE

\* renderSignalUi, called after every change of currentResult.
RenderSignalUi ==
  selected' = IF signal THEN SelectEvidence(currentResult', selected) ELSE selected

-----------------------------------------------------------------------------
(***************************************************************************)
(* startV2Search.                                                          *)
(***************************************************************************)
Running(s) == search[s].at \in Awaiting \cup {"timer"}

MoveTo(s, place) == search' = [search EXCEPT ![s].at = place]

\* resetScanUi, by the button or by Enter.
ResetKeepsModules == UNCHANGED modulesRan        \* variant: as the legacy search

ResetModules == modulesRan' = {}

ResetControls ==
  page' = [page EXCEPT !.scan = TRUE, !.results = FALSE, !.button = FALSE, !.pct = 0]

ResetResult(s) == NewResult(s)

StartV2Search(s) ==
  /\ search[s].at = "idle"
  /\ \A r \in Searches : r < s => search[r].at # "idle"
  /\ LET alone == \A r \in Searches : ~Running(r)
     IN search' = [r \in Searches |->
                     IF r = s THEN [IdleSearch EXCEPT !.at = "creating", !.undisturbed = alone]
                     ELSE IF Running(r) THEN [search[r] EXCEPT !.undisturbed = FALSE]
                     ELSE search[r]]
  /\ currentResult' = ResetResult(s)
  /\ ResetControls
  /\ ResetModules
  /\ RenderSignalUi
  /\ UNCHANGED signal

\* createJob answered 201: the job's log is the server's from now on, which may
\* end it with job_done or stop anywhere before.
JobCreated(s) ==
  /\ search[s].at = "creating"
  /\ \E plan \in Plans : \E n \in 0 .. LogLength(plan) :
       /\ LogLength(plan) - n \in Unlogged
       /\ search' = [search EXCEPT ![s].at = "loading", ![s].plan = plan,
                                     ![s].logged = n]
  /\ currentResult' = [currentResult EXCEPT !.job = s]
  /\ page' = [page EXCEPT !.pct = 5]
  /\ RenderSignalUi
  /\ UNCHANGED <<signal, modulesRan>>

\* loadSnapshot answered: applySnapshot, then waitForEvents opens the stream
\* behind the last seq of whatever result is current.
ConnectFrom == currentResult.last_seq

\* The job may not have begun, or may be over, by the time its snapshot is taken.
\* A row is done before job_done is logged, and failed only if it never is.
SnapshotStatuses(s) ==
  {"queued", "running"}
    \cup {st \in {"failed"} : search[s].logged < LogLength(search[s].plan)}
    \cup {st \in {"done"} : search[s].logged >= LogLength(search[s].plan) - 1}

ApplySnapshot(r, s, status) ==
  [r EXCEPT !.job = s, !.status = status, !.planned = Range(search[s].plan)]

\* The promise of waitForEvents is settled by an event alone: its onError is called
\* for a frame that is no JSON or a URL that EventSource refuses, and the server
\* sends neither (the errors of handleV2Event are caught before).
WaitForEvents(s) == search' = [search EXCEPT ![s].at = "streaming", ![s].seq = ConnectFrom]

SnapshotLoaded(s) ==
  /\ search[s].at = "loading"
  /\ \E st \in SnapshotStatuses(s) : currentResult' = ApplySnapshot(currentResult, s, st)
  /\ WaitForEvents(s)
  /\ page' = [page EXCEPT !.pct = 8]
  /\ RenderSignalUi
  /\ UNCHANGED <<signal, modulesRan>>

\* A request of the search fails (the catch of startV2Search): refused, 404, 410
\* or 422, or the network.
FailureKeepsButton(s) == page' = [page EXCEPT !.scan = FALSE]        \* variant

EndsInFailure(s) == page' = [page EXCEPT !.scan = FALSE, !.button = TRUE]

RequestFails(s) ==
  /\ search[s].at \in {"creating", "loading"}
  /\ MoveTo(s, "failed")
  /\ EndsInFailure(s)
  /\ UNCHANGED <<signal, currentResult, modulesRan, selected>>

-----------------------------------------------------------------------------
(***************************************************************************)
(* handleV2Event.                                                          *)
(***************************************************************************)
\* rememberEvent
RememberEvent(r, s, seq) ==
  [r EXCEPT !.last_seq = IF seq > @ THEN seq ELSE @,
            !.seen = @ \cup {[job |-> s, seq |-> seq]}]

\* connectorResultFromPayload and storeConnectorResult: the last result of a
\* connector stays.  The evidence loses the target of the current search, which
\* is the target of job s only if the result is still that search's.
StoreResult(r, s, c, o) ==
  [r EXCEPT !.results = [d \in DOMAIN @ \cup {c} |->
     IF d = c THEN [job |-> s, status |-> o.status, evidence |-> o.evidence,
                    redacted |-> r.owner = s]
     ELSE @[d]]]

\* updateProgress, with Math.round.
UpdateProgress(r) ==
  LET planned == Cardinality(r.planned)
      pct == 10 + (2 * 85 * Cardinality(DOMAIN r.results) + planned) \div (2 * planned)
  IN CASE planned = 0 -> 15 [] planned > 0 /\ pct > 95 -> 95 [] OTHER -> pct

NextButTheLast(s, e) ==        \* variant: an event waits for the one behind it
  /\ search[s].at = "streaming"
  /\ search[s].seq + 1 < search[s].logged
  /\ e = EventAt(search[s].plan, search[s].seq + 1)

\* The next event of the stream, if the log gets that far: while it does not, the
\* stream only ends and is opened again.  Every branch ends with a refresh of the
\* interface.
NextEvent(s, e) ==
  /\ search[s].at = "streaming"
  /\ search[s].seq < search[s].logged
  /\ e = EventAt(search[s].plan, search[s].seq + 1)

Remembered(s) == RememberEvent(currentResult, s, search[s].seq + 1)

Advance(s, place) == search' = [search EXCEPT ![s].seq = @ + 1, ![s].at = place]

OnJobStarted(s) ==
  /\ NextEvent(s, Event("job_started", "none"))
  /\ Advance(s, "streaming")
  /\ currentResult' = Remembered(s)
  /\ page' = [page EXCEPT !.pct = 10]
  /\ RenderSignalUi
  /\ UNCHANGED <<signal, modulesRan>>

OnConnectorStarted(s) ==
  /\ \E c \in Connectors :
       /\ NextEvent(s, Event("connector_started", c))
       /\ currentResult' = [Remembered(s) EXCEPT !.started = @ \cup {c}]
       /\ Advance(s, "streaming")
  /\ RenderSignalUi
  /\ UNCHANGED <<signal, page, modulesRan>>

OnConnectorResult(s) ==
  /\ \E c \in Connectors, o \in Outcomes :
       /\ NextEvent(s, Event("connector_result", c))
       /\ currentResult' = StoreResult(Remembered(s), s, c, o)
       /\ modulesRan' = modulesRan \cup {ConnectorToModule(c)}
  /\ Advance(s, "streaming")
  /\ page' = [page EXCEPT !.pct = UpdateProgress(currentResult')]
  /\ RenderSignalUi
  /\ UNCHANGED signal

OnSummary(s) ==
  /\ NextEvent(s, Event("summary", "none"))
  /\ Advance(s, "streaming")
  /\ currentResult' = Remembered(s)
  /\ page' = [page EXCEPT !.pct = 98]
  /\ RenderSignalUi
  /\ UNCHANGED <<signal, modulesRan>>

\* The promise resolves: finalizeSearch and the finally block run at once.
OnJobDone(s) ==
  /\ NextEvent(s, Event("job_done", "none"))
  /\ Advance(s, "timer")
  /\ currentResult' = [Remembered(s) EXCEPT !.status = "done"]
  /\ page' = [page EXCEPT !.pct = 100, !.button = TRUE]
  /\ RenderSignalUi
  /\ UNCHANGED <<signal, modulesRan>>

HandleV2Event(s) ==
  \/ OnJobStarted(s) \/ OnConnectorStarted(s) \/ OnConnectorResult(s)
  \/ OnSummary(s) \/ OnJobDone(s)

\* The 600 ms of finalizeSearch are over: Signal keeps the legacy results hidden.
FinalizeSearch(s) ==
  /\ search[s].at = "timer"
  /\ MoveTo(s, "shown")
  /\ page' = [page EXCEPT !.scan = FALSE, !.results = IF signal THEN FALSE ELSE TRUE]
  /\ UNCHANGED <<signal, currentResult, modulesRan>>
  /\ RenderSignalUi

\* A click on a row of the evidence list.
ClickEvidence ==
  /\ signal
  /\ \E key \in EvidenceKeys(currentResult) : key # selected /\ selected' = key
  /\ UNCHANGED <<signal, search, currentResult, page, modulesRan>>

\* newSearch (panels.js), by a button of the visible results.
NewSearch ==
  /\ page.results
  /\ page' = [page EXCEPT !.results = FALSE]
  /\ modulesRan' = {}
  /\ UNCHANGED <<signal, search, currentResult, selected>>

-----------------------------------------------------------------------------
Answer(s) == JobCreated(s) \/ SnapshotLoaded(s) \/ HandleV2Event(s) \/ FinalizeSearch(s)

PageNext ==
  \/ NewSearch
  \/ ClickEvidence
  \/ \E s \in Searches :
       \/ StartV2Search(s)
       \/ Answer(s)
       \/ RequestFails(s)

\* Requests are answered or fail, what is logged is delivered, timers fire; the
\* server need not end a job and the user owes the page nothing.
PageSpec ==
  /\ PageInit /\ [][PageNext]_pageVars
  /\ \A s \in Searches : WF_pageVars(Answer(s))

-----------------------------------------------------------------------------
(***************************************************************************)
(* Properties.                                                             *)
(***************************************************************************)
\* Types.
PageTypeOK ==
  /\ signal \in BOOLEAN
  /\ search \in [Searches -> [at: Places, plan: Plans \cup {<<>>}, seq: Nat, logged: Nat,
                              undisturbed: BOOLEAN]]
  /\ page \in [scan: BOOLEAN, results: BOOLEAN, button: BOOLEAN, pct: 0 .. 100]
  /\ modulesRan \subseteq ModulesOf(Connectors)
  /\ selected = NoKey \/ selected \in Connectors \X (Nat \ {0})

\* A page that is not overlapped by another search ends up with exactly its own
\* job's log: every event once, every connector's result, the job's end.
UndisturbedSearchIsComplete ==
  \A s \in Searches :
    (search[s].at = "timer" /\ search[s].undisturbed) =>
      /\ currentResult.owner = s /\ currentResult.job = s
      /\ currentResult.status = "done"
      /\ currentResult.seen = {[job |-> s, seq |-> i] : i \in 1 .. LogLength(search[s].plan)}
      /\ DOMAIN currentResult.results = currentResult.planned
      /\ modulesRan = ModulesOf(currentResult.planned)
      /\ \A c \in currentResult.planned :
           currentResult.results[c].job = s /\ currentResult.results[c].redacted

\* The same without the condition: what the page shows of a job that is done
\* holds every connector_result the job logged.
DoneSearchShowsEveryResult ==
  \A s \in Searches :
    (search[s].at = "timer" /\ currentResult.owner = s) =>
      \A i \in 1 .. LogLength(search[s].plan) :
        EventAt(search[s].plan, i).type = "connector_result" =>
          [job |-> s, seq |-> i] \in currentResult.seen

\* However searches overlap, the search button comes back and the scan box goes
\* away: neither outlives the last search that could still restore it.
ControlsComeBack ==
  /\ ~page.button => \E s \in Searches : search[s].at \in Awaiting
  /\ page.scan => \E s \in Searches : Running(s)

\* However the events of overlapping jobs interleave, the position a stream is
\* opened from is the highest seq the result has seen.
LastSeqIsTheHighestSeen ==
  currentResult.last_seq = Max({m.seq : m \in currentResult.seen} \cup {0})

\* The evidence shown in the detail view is one of the listed items, also when
\* a later result of the same connector brought fewer.
SelectedEvidenceIsListed ==
  (signal /\ EvidenceKeys(currentResult) # {}) => selected \in EvidenceKeys(currentResult)

\* The parts of the Signal page agree: when the dossier calls an undisturbed job
\* done, no layer is pending or running and every layer is in the output.
SignalSettlesWithTheJob ==
  LET r == currentResult
  IN (/\ DossierStatus(r) = "done"
      /\ \E s \in Searches : search[s].at = "timer" /\ search[s].undisturbed) =>
       /\ SignalOutput(r, "pending") + SignalOutput(r, "running") = 0
       /\ SignalOutput(r, "found") + SignalOutput(r, "blocked")
            = Cardinality(DOMAIN SignalLayers(r))

\* Within one result the state shown for a connector only moves forward: a
\* start that arrives after the result (of an older job) does not undo it.
Rank(status) == CASE status = "pending" -> 0 [] status = "running" -> 1 [] OTHER -> 2

ConnectorsOnlyAdvance ==
  [][currentResult'.owner = currentResult.owner =>
       \A c \in ConnectorNames(currentResult) :
         /\ c \in ConnectorNames(currentResult') \/ ConnectorStatus(currentResult, c) = "pending"
         /\ c \in ConnectorNames(currentResult') =>
              Rank(ConnectorStatus(currentResult', c)) >= Rank(ConnectorStatus(currentResult, c))
    ]_pageVars

\* The progress bar of an undisturbed search never moves back.
ProgressNeverMovesBack ==
  [][\A s \in Searches :
       (search[s].at \in Awaiting /\ search'[s].undisturbed) => page'.pct >= page.pct]_pageVars

\* A search ends, shown or with an error, or it has read all that its job logged:
\* an undisturbed one then waits on only if the job's log stopped short of job_done
\* (a failed job, whose end nobody logs).
SearchesEndWithTheirLogs ==
  \A s \in Searches :
    search[s].at = "creating" ~>
      \/ search[s].at \in {"shown", "failed"}
      \/ /\ search[s].at = "streaming" /\ search[s].seq >= search[s].logged
         /\ search[s].undisturbed => search[s].logged < LogLength(search[s].plan)

\* What the page shows of a job fits together: the log of an undisturbed job is
\* shown completely and settled, and position and selection belong to the result.
PageFitsTogether ==
  /\ PageTypeOK
  /\ UndisturbedSearchIsComplete
  /\ LastSeqIsTheHighestSeen
  /\ SelectedEvidenceIsListed
  /\ SignalSettlesWithTheJob

\* Neither a connector's state nor the progress bar moves back.
NothingMovesBack == ConnectorsOnlyAdvance /\ ProgressNeverMovesBack

-----------------------------------------------------------------------------
(***************************************************************************)
(* The inductive invariant behind them.                                    *)
(***************************************************************************)
ConnectorResults ==
  [job: Searches, status: {"found", "blocked"}, evidence: {0, 1}, redacted: BOOLEAN]

PageResults ==
  [owner: Searches \cup {None}, job: Searches \cup {None},
   status: {"none", "queued", "running", "done", "failed"},
   planned: SUBSET Connectors, started: SUBSET Connectors,
   results: UNION {[D -> ConnectorResults] : D \in SUBSET Connectors},
   last_seq: Nat, seen: SUBSET [job: Searches, seq: Nat]]

\* Only a job that exists, and so has a plan and a log, is loaded, streamed or shown.
PageTyped ==
  /\ PageTypeOK
  /\ currentResult \in PageResults
  /\ \A s \in Searches :
       search[s].at \in {"loading", "streaming", "timer"} =>
         search[s].plan \in Plans /\ search[s].logged <= LogLength(search[s].plan)

\* The owner of the result has begun: a new search never reuses a result.
OwnerHasBegun == currentResult.owner = None \/ search[currentResult.owner].at # "idle"

HighestSeen ==
  /\ \A m \in currentResult.seen : m.seq <= currentResult.last_seq
  /\ currentResult.last_seq = 0 \/ \E m \in currentResult.seen : m.seq = currentResult.last_seq

Alone(s) == Running(s) /\ search[s].undisturbed

\* Result and bar are the first seq events of the job's log, and nothing else.
FollowsTheLog(s) ==
  LET plan == search[s].plan
      seq == search[s].seq
      r == currentResult
  IN /\ r.job = s /\ r.planned = Range(plan) /\ r.last_seq = seq
     /\ r.seen = {[job |-> s, seq |-> i] : i \in 1 .. seq}
     /\ r.started \subseteq Range(plan)
     /\ DOMAIN r.results = {plan[i] : i \in {k \in 1 .. Len(plan) : 2 * k < seq}}
     /\ modulesRan = ModulesOf(DOMAIN r.results)
     /\ \A c \in DOMAIN r.results : r.results[c].job = s /\ r.results[c].redacted
     /\ search[s].at = "streaming" =>
          /\ seq < LogLength(plan)
          /\ CASE seq = 0 -> page.pct = 8
               [] seq = LogLength(plan) - 1 -> page.pct = 98
               [] OTHER -> page.pct <= UpdateProgress(r)
     /\ search[s].at = "timer" => seq = LogLength(plan) /\ r.status = "done"

\* The result and the controls at each await of a search that runs alone.
ShowsItsOwn(s) ==
  /\ currentResult.owner = s
  /\ ~page.results
  /\ search[s].at = "creating" =>
       currentResult = NewResult(s) /\ modulesRan = {} /\ page.pct = 0
  /\ search[s].at = "loading" =>
       currentResult = [NewResult(s) EXCEPT !.job = s] /\ modulesRan = {} /\ page.pct = 5
  /\ search[s].at \in {"streaming", "timer"} => FollowsTheLog(s)

\* What an undisturbed search may rely on: nobody else runs, the result is its
\* own from the first await on, and no button has cleared what the modules ran.
AloneInv ==
  \A s \in Searches : Alone(s) =>
    (\A r \in Searches : Running(r) => r = s) /\ ShowsItsOwn(s)

PageInv ==
  /\ PageTyped /\ OwnerHasBegun /\ HighestSeen /\ SelectedEvidenceIsListed
  /\ ControlsComeBack /\ AloneInv

=============================================================================
