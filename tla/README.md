# NexusOSINT: formal models

TLA+ models of the NexusOSINT server and of the pages that drive it, the TLC
configurations that check them, and TLAPS proofs about them.  Every definition is
read from the source; `PROJECT.json` gives the lines each one stands for.

    tlc -workers 2 -config MCSearchWorker.cfg MCSearchWorker    # one run
    tlapm SearchV2Proofs.tla                                    # the proofs of one module

## 1. The system

NexusOSINT is one FastAPI process on one asyncio event loop, a PostgreSQL database
behind an asyncpg pool, an optional Redis cache, third-party APIs, and two browser pages
(the search page and the admin page) made of plain scripts.  There are no other writers of
the database and no other server process.  Server tasks interleave only where the code
awaits, the scripts of a page only where they await, at timers and at events.

| component | source | state | operations | depends on |
|---|---|---|---|---|
| Job store | `api/services/job_store.py`, `migrations/versions/0004_*.py` | rows of `search_jobs` (status, result, TTL) and `search_events` (seq, type, payload) | create_job, mark_running, mark_done, mark_failed, append_event, stream_events, get_job, purge_expired | database |
| Search job worker, v2 routes | `api/routes/search_v2.py` | `_job_workers`; per task: its await, `seq`, `results` | create_search_v2, `_execute_job`, `_worker`, `_spawn_worker` | job store, connector runner, aggregator |
| Aggregator | `api/services/search_orchestrator.py`, `modules/connectors/base.py` | none (pure) | aggregate_results, derive_confidence_level | - |
| Event stream | `api/routes/search_v2.py` `_sse_generator` | `last_seq`, the frames in flight | replay, poll, final replay | job store |
| Replay client | `static/js/job-replay.js` | `lastSeq`, closed, terminal, retry timer | createJob, loadSnapshot, open, handleEvent, scheduleReconnect | event stream |
| v2 search page | `static/js/v2-search.js` | `currentResult` with its fold of events, the panels, the Signal page, timers | startV2Search, handleV2Event, waitForEvents, the renderers | replay client |
| Legacy search page | `static/js/search.js`, `render.js`, `history.js`, `panels.js` | `currentResult`, the pager of breaches, masks of passwords, recent searches, timer | startSearch, handleEvent, loadMoreBreaches, newSearch | legacy stream |
| Victim browser | `static/js/render.js` | list, cursor, trees with their manifests, file viewer | load more, toggle a tree, view a file | OathNet routes |
| Search form, scan box | `static/js/state.js`, `search.js`, `panels.js` | category, chips, selected modules, rows of steps | selectCat, toggleMod, addModule | both searches |
| Case book | `static/js/cases.js` | cases in localStorage and in each tab, the cases panel, the signal rail | save, note, delete, clear, load | `currentResult` |
| Evidence drawer, cards | `static/js/components/*` | open drawer, focus, list of cards | open, close, redraw | v2 page |
| Admin panel | `static/js/admin.js`, `api/routes/admin.py` | page of the log and its cursors, dashboard, list of users | load, next, previous, filter, create, change, deactivate | sessions |
| Auth | `api/services/auth_service.py`, `api/deps.py`, `api/routes/auth.py`, `admin.py`, `static/js/auth.js` | user file and its cache, tokens, blacklist; user and menu of each page | login, logout, check of a request, user administration | database, file |
| Reports | `static/js/export.js`, `render.js`, `legacy-adapter.js`, `cases.js` | none (derived) | screen, copy, TXT, CSV, PDF, saved case | `currentResult` |
| Legacy search stream | `api/services/search_service.py`, `api/routes/search.py` | per stream: planned modules, progress, sentinel | `_stream_search`, with_timeout | orchestrator, OathNet |
| Task orchestrator | `api/orchestrator.py` | two semaphores, registry, result queue, ceiling | submit, results, cancel_all, set_ceiling | - |
| Watchdog | `api/watchdog.py` | degradation mode | `_decide_mode`, `_apply_degradation` | task orchestrator |
| Connector runner | `modules/connectors/runner.py`, `modules/username_check/rate_limit.py` | cache, slots and time of the last call per source | run_connector | cache, connectors |
| Username check | `modules/username_check/*` | baseline cache | validate, score, normalize | HTTP, budget |
| Proxy budget | `api/budget.py` | bytes of the day | record, soft and hard limit | - |
| Database manager, pool; lifespan; purge loops | `api/db.py`, `api/main.py`, `api/tasks.py` | pool; tasks | startup, shutdown, execute, fetch; purge of jobs and blacklist | all |
| Cache | `api/cache.py` | entries with TTL | get, set | Redis |
| API clients, server PDF, wiring, theme, scripts, design concepts | `modules/oathnet_client.py`, ... | - | I/O and presentation | - |

What each must guarantee, and what makes it hard:

* **Job, worker, stream, page.**  They meet only in the rows of the store.  The worker
  writes in up to `2n + 5` separate transactions between which the TTL, the purge, a
  cancellation, a shutdown or a crash may fall, and the answer to any of them may be lost
  after it committed.  The stream and the page may break anywhere and resume from a number.
  Wanted: a log without hole or repetition, a `job_done` never contradicted by the row, a
  terminal status that is final, a page that handles each event once, in order, to the end.
* **The pages.**  Every search writes into one global `currentResult`; the button is
  disabled while a search runs, but Enter starts another; what is drawn is drawn by timers.
  Wanted: what is on the screen is of one search, and controls come back.
* **Aggregator, verdicts, reports.**  The same results are summed up by the server, the
  screen, four exports and the saved case, in two languages and several formulas, which
  must not depend on order, must not read a blocked source as absence, and must agree.
* **Task orchestrator, watchdog, legacy stream.**  Two nested semaphores, tasks that may
  die while they wait, a queue whose consumer counts what it expects, a ceiling read in
  one place and used in another.
* **Sessions and admin page.**  A file rewritten in place, a check and its use separated by
  an await, two clocks of different resolution; answers that come in any order.
* **Case book.**  One storage, several tabs, a hash awaited in the middle of a save, a
  storage that may be full.
* **Runner, cache, budget.**  Values read before an await and written after it.

The hazards with their lines, and the properties that cover them, are in `PROJECT.json`.

## 2. Modules

| module | what it is |
|---|---|
| `JobStore` | the two tables and every statement of `job_store.py` as an atomic effect; the replies a caller may get |
| `SearchWorker` | the job tasks of one process, await by await, and the life of the process; safety, liveness, the inductive invariant |
| `JobLifecycle` | abstract specification: a job is queued, runs, publishes events, ends, is forgotten |
| `JobReplay` | extends `JobStore`: the SSE generator and the replay client |
| `SearchV2` | composes `SearchWorker` and `JobReplay` into the whole system |
| `V2Page` | what the page makes of the events: overlapping searches over one result |
| `LegacyPage` | the page of the legacy engine: searches, rows, pager, history |
| `VictimBrowser` | the victims of a result, their trees, the file viewer |
| `SearchOrchestrator` | `aggregate_results` as operators |
| `PlatformVerdict` | the check of one social platform: scored, normalized, and classified by each of its readers |
| `LegacyReport` | extends it: a legacy search from its plan to panels, exports and saved case |
| `TaskOrchestrator` | one orchestrator: tasks under two semaphores, registry, result queue, `cancel_all`, soft gate |
| `SearchAdmission` | extends it: the process-wide instance with the watchdog, the route's gate, the sentinels of the searches, the shutdown |
| `Sessions` | tokens, blacklist, user file and cache on the server, sign-in and out in several browsers |
| `AdminPanel` | the audit log's pages, the dashboard, the list of users |
| `SearchForm`, `EvidenceDrawer` | chips and rows of the form; drawer and focus |
| `CaseBook`, `CaseLists` | the cases of several tabs; where they are listed |
| `ConnectorRunner`, `ProxyBudget` | concurrent calls with limiter, timeout and cache; the budget over midnight |
| `SearchV2Proofs` | theorems about the jobs, their lifecycle, and the system with its pages |
| `V2PageProofs`, `IndexPageProofs` | theorems about the v2 page; about the legacy page and the victims |
| `SearchAdmissionProofs` | theorems about `TaskOrchestrator` and `SearchAdmission` |
| `SessionsProofs` | theorems about `Sessions` |
| `SearchReportProofs` | theorems about the verdicts, the quorum, and the reports of a legacy search |
| `ConsoleProofs` | theorems about runner, form, drawer, budget, case book and lists, admin page, and about `MCConsole`, which composes these and the sessions |
| `DataLemmas` | what folds, sums, means, filters and sorts over finite data compute, for every input |
| `MC*` | instances for TLC |

`MCIndexPage`, `MCSearchReport` and `MCConsole` each hold several components that share no
state the modules tell apart.  A variable `scene`, chosen at the start, says which one
moves; the others rest.  Their state spaces add up instead of multiplying.

How state and actions correspond to the code:

* `status`, `overall`, `expired`, `events` are the tables.  The clock is reduced to the
  set of jobs whose `expires_at` has passed, because that is all the statements ask of it.
  The owner of a request is always the one that created the job; the payload of an event
  is reduced to its connector and its status.
* `worker[j].at` is the await at which the task of job `j` is suspended.  `append_event`
  is two of them, its SELECT and its INSERT being separate transactions.  `seq`,
  `results` and `emitting` are locals of `_execute_job`.
* A database call answers `ok`, or raises an exception `_worker` lists (`error`), or one
  it does not (`lost`: `db.py` translates only `PostgresError`); each failure comes in two
  forms, before and after the commit.  A closed pool always raises.
* `Cancel` is the CancelledError the event loop delivers when it closes with tasks left:
  `_worker` then calls `mark_failed` on a closed pool.  `Crash` loses the tasks.
* `stream[j]` is the generator (its position, `last_seq`, and the frames yielded and not
  yet read); a `cursor` replay is one snapshot.  A broken connection discards the frames
  in flight.  `client[j]` and `lastSeq[j]` are the replay client.
* In `V2Page` a search is a coroutine that stands at one of its awaits; `currentResult` is
  one record whichever search made it.  The log a search reads is the one `SearchV2`
  guarantees, delivered in order: reconnection is `JobReplay`'s and not repeated here.  A job
  may leave its last events unlogged (`Unlogged`), as one that failed does; then the stream
  just stops, since nobody appends `job_failed`, and the page's branch for it is left out.  So
  is the rejection of `waitForEvents` by its `onError`, which only a frame that is no JSON or a
  URL that EventSource refuses would call; the server sends neither.
* In `LegacyPage` rows come in chunks of `BREACH_PAGE_SIZE`, and the page of the server is
  some chunks.  In `LegacyReport` a list is its length, as no reader compares entries.
* In `VictimBrowser` each search has its victims, one to a page; `current` is the search whose
  victims the global result holds, `list.drawn` the one the list was drawn from.  A request for
  a page belongs to the victims it was made for, but its answer is drawn into the list that is on
  the page by then, as in `loadMoreVictims`; adding to it builds every card anew, so that answers
  for trees go to elements that have left the page.
* In `CaseLists` `book` is the list in memory and `written` the storage: a write may be refused,
  and only `saveCase` takes its case back then.  A save is two steps around its await; the panel
  is drawn from `book`, the rail from `written`.
* A semaphore of `TaskOrchestrator` is the sequence of its tasks in order of arrival, of
  which the first `n` hold a slot: `asyncio.Semaphore` (Python 3.12) hands a released slot
  to the first waiter and lets nobody overtake.  `Start` runs to the first acquire that has
  to wait, as the code does; `Answer` is the put, the deregistration and the release of
  both semaphores, between which nothing suspends.
* In `SearchAdmission` a module is the sentinel of a search; `admitted` is the gap between
  the route's return and the first step of the generator.  Memory is a percentage that may
  change at any time.
* In `Sessions` a request is checked in two steps, with the await of the blacklist between
  them, and then handled.  Time is in half seconds, since `iat` is whole seconds and
  `password_changed_at` is not.  A write of the user
  file, also the one at the start, ends with the old file, the new one or a torn one when it
  fails or is interrupted.  A token is expired from the first moment of the second of its `exp`.
  `lost`, `shaky` and `crossed` remember that the user file was found torn, that a write was
  not completed, and that two admins' deactivations crossed.
* In `ConnectorRunner` a task that is due acts before time passes; `ProxyBudget` is the
  counters in memory with the day they belong to.
* `PlatformVerdict`: the signals are a selection with one of each weight and kind, since
  `combine_outcomes` reads nothing else of them.

Definitions marked *variant* are plausible mistakes in a definition that follows them.
No specification uses them; a check that replaces the definition by its variant must fail.

## 3. Runs

A run has few properties, each a conjunction of named parts that one question holds
together; the parts are stated and commented one by one in the modules.

| run | instance | what it shows |
|---|---|---|
| `search_worker` | 2 jobs (symmetric), 1 connector, 1 fault, 1 stop | log, row and task agree (`GapFreeLog`, `JobDoneIsTrue`, `NoOrphanEvent`), finished is final (`TerminalIsFinal`), the jobs implement `JobLifecycle` |
| `search_worker_plan` | 1 job, 2 connectors, 3 answers, 2 faults, 1 stop, fairness | `SummaryMatchesLog`: the overall status follows from the log it is read with; `QueuedJobSettles` where nothing failed or stopped |
| `search_v2` | 1 job with its page, 1 connector, 2 faults, 1 stop, fairness | the page handles the log once, in order (`HandledInOrder`), completely (`PageIsInStep`), and gets to the end (`JobDoneReachesClient`) |
| `search_v2_failure` | violation | a failed job's page is never told (finding) |
| `v2_page` | 2 searches of one page, 2 connectors, plans of one and two, logs complete or short of 4 events, fairness | what an undisturbed search shows is its log (`PageFitsTogether`), nothing moves back (`NothingMovesBack`), the controls come back however searches overlap (`ControlsComeBack`), a search ends, or has read all that its job logged (`SearchesEndWithTheirLogs`) |
| `v2_page_overlap` | violation | an overlapping search skips its own results (finding) |
| `index_page` | scenes: 2 legacy searches, 3 chunks of rows in pages of 2; victims of 2 searches on 3 pages, 2 requests pending, the trees of the second cards; 2 files | `PageIsOfOneSearch`, `ButtonsComeBack`, `DoneSearchIsDrawn` (fairness), `VictimsAreShown` |
| `search_report` | scenes: every batch of up to 3 results; every check; searches of 6 types, lists of 0, 2 and 51 | `QuorumIsSound` (the G3 table, order, caps, monotony), `ReadersAgree`, `DoubtIsNeverConfirmed`, `SavedCaseIsHonest`, `SearchIsReported` |
| `social_likely` | violation | a likely profile of a validated list gets no card (finding) |
| `task_orchestrator` | 2 OathNet modules on 1 slot, 2 others, 2 global slots, `cancel_all` anywhere, fairness | `OathnetLeavesRoom`, `SlotsBelongToTheLiving`, `CancelAllLeavesNoTask`, `NeverWaitsInVain`, `EverybodyIsServed` |
| `search_admission` | 3 searches, 3 slots, 2 in REDUCED, memory on both sides of each threshold, shutdown, fairness | `DegradedRegistryStaysBelowCeiling`, `AdmissionRecovers` |
| `console` | scenes: 2 tabs over a storage of 2 cases; lists of 2 cases with a rail of 1; form; scan box; drawer; one browser with clock, crash and restart; two browsers; two admins; audit log of up to 5; dashboard; list of users; 3 concurrent calls of a source; 3 checks on one budget | `CasesAreSafe`, `ListsFollowTheBook`, `FormFollowsTheSearch`, `DrawerReturns`, `SessionsLastUntilEnded`, `UsersAreKept`, `AdminMissesNothing`, `ConcurrentCallsAreSound`, `BudgetIsTheDays` |

**Bounds.**  `MaxFaults` and `MaxStops` bound failing calls and crashes or shutdowns.  Two
faults are what it takes for a lost answer to be followed by a second failure (of
`mark_failed`, or of the reconnection).  Two jobs suffice for what jobs share, namely the
purge, the process and the fault budget: no statement and no action reads the row of
another job.  Two connectors suffice for a plan with a first, a next and a last one; the
stream and the page do not look at connectors, so their run has one.
For the orchestrator: one OathNet slot for two OathNet modules and two global slots for
all four give each queue holders and waiters, also an OathNet holder that waits for a
global slot; the real limits (5 and 3) differ only in number, and the theorems
hold for every number.  Each module and each search occurs once: names are unique while a
task lives, and a second use of a name would repeat the first.

On a page two searches are an overlap; a third would find the state the second left.  A
plan of one connector after a plan of two is what makes a position of the one lie
beyond the log of the other.  A log short of four events stops
within the plan, as that of a failed job.  Two results with victims are an old list and a new one; three pages and two
requests let answers change places, and a second card is one that both results can have and
that is drawn anew or added.  A book of two cases with a rail of one and four changes lets the cap
drop a case that the panel lists and the rail leave one out.  Three chunks with two in an answer give a
first page, a fetched one and a last one that is short.  The lengths 0, 2 and 51 lie below and
above the cut of 50 rows, and 2 breaches, 2 logs and 2 services on both sides of the risk levels.
In the console a storage of two cases with an old case and two saves fills and overflows; the result
of the old case and that of a search are the two that a pending save may find; two tokens,
one user besides the admin and a life of one second let every end of a session (expiry,
sign-out, password change, deactivation) meet every check; five logs in pages of two make
three pages, two of them with equal times; three calls are one that runs, one that waits for
the slot and one that waits behind it; a budget of three with checks of up to two is
reached, passed and reset.  `MaxAsks`, `MaxCalls`, `MaxResults`, `MaxSaves`, `MaxPending`, `MaxListings`,
`MaxScans`, `MaxChanges`, `MaxLoads`, `MaxAsked`, `MaxTime`, `MaxClock`, `MaxDay`,
`MaxTokens`, `MaxChecks` and `MaxLogs` only cut off repetitions.
Everything else (length of the job's log, reconnections, restarts) is unbounded or bounded by
the code itself.

**Conditions.**  Several properties say "unless".  Each exception is a flag that is set by
the very step that causes it (`overlap`, `undisturbed`, `twice`, `mixed`, `lost`, `shaky`,
`crossed`, `raced`), and stands for a behaviour the model shows to happen and section 5 describes.  Some statements say by state instead what is excepted: a
panel may list cases `pushedOut` by the cap since it was drawn, the rail may differ for cases
`unwritten` because the storage refused their last change, the viewer may show a file that was
still to come (`overtaken`) when its title was opened, a tree may stay at "loading" as an `orphan`
after its element was replaced, and a `forgot` or `behind` tab may lose cases by a write of its own.
A hazard that its property excuses in this way is listed in `PROJECT.json` with no property,
and with the reason.

**Fairness.**  Weak fairness of every task step, of the cancellation of tasks when the
loop closes, of process exit and restart, of the stream's and the page's steps: asyncio
runs every ready task, the container is restarted (`restart: unless-stopped`), the page's
retry timer always fires.  A module of the orchestrator ends because its calls have
timeouts, a sentinel because it waits at most 300 seconds, and the watchdog runs every 30
seconds.  On the pages a request is answered or fails, a stream delivers or breaks, and a timer
fires.  Nothing is assumed of users, the clock, failures or stops; the console has no
fairness and no liveness.

## 4. Proofs

Every safety property of the passing runs, the refinement of `JobLifecycle` included, is a theorem for
every value of the constants; the liveness properties are model-checked only.  Where a run
explores a component in a scene of its own, the theorem is about the component's
specification, in which all of its parts move together (`SessionsSpec`, `PanelSpec`,
`FormSpec`, ...).

### Jobs, stream and page

`SearchV2Proofs` begins with the jobs and proves, for any set of jobs, any plan of distinct
connectors, any set of answers and any bounds on faults and stops:

* `Spec => []TypeOK`, `[]GapFreeLog`, `[]JobDoneIsTrue`, `[]NoOrphanEvent`;
* `Spec => TerminalIsFinal`.

None of the invariants is inductive.  `IInv` says, for each job, where its task stands
(`Position`: the await, the event being emitted, `seq` and the number of results move
together), how far the log may lag behind the task (`Written`: an append in progress has
not written its number yet, and a dead task may or may not have written its last one), and
that `job_done` is only being appended to a job marked done with the same result
(`AnnouncesDone`).  The key step is `InsertEffect`: an event that the constraints accept
is the next one of its log, and one they refuse belongs to a purged job.  There is one
lemma per action; `OtherJobs` reduces each to the job it touches.

Its second part adds, under the same assumptions, `Spec => []SummaryMatchesLog` and
`Spec => ImplementsLifecycle`, the refinement of `JobLifecycle`.  Both need to know what a task
has in memory.  `ResultsInv` says that the row of a task between `mark_running` and
`mark_done` says running (`RunsWhileWorking`), and that the i-th answer of a connector is event
2i + 1 of the log, while whatever closes the log sums up all of them (`LogTellsResults`).
`SummaryMatchesLog` then follows because the log is gap-free: the results of a summary are
exactly the `connector_result` events below it.  For the refinement there is one lemma
per kind of step: a statement that takes effect is a step of the lifecycle, and an await, a
lost answer, a refused insert or a crash is a stutter.

The third part carries all of this to `SystemSpec`, where the stream and the page of each job
move as well and the answer to a post may be lost (`LogsAreTrue`, `SystemImplementsLifecycle`),
and proves `[]PageIsInStep` and `HandledInOrder`.  `SystemInv` adds `FlightContinuesClient` (the
frames in flight are the events behind `lastSeq`, and the generator stands behind the last of
them) and `InStep` (a `job_done` in flight has the number that ends the log, and its job is
done for good).  The replay is in order because the log has no holes: `Rank` counts the events
up to one, and `InOrder` is shown to list a gap-free log by its numbers.

### Pages

`V2PageProofs` proves, for any number of overlapping searches, any finite set of connectors and
any non-empty plans: `PageSpec => []PageFitsTogether`, `[]ControlsComeBack` and
`NothingMovesBack`.  The invariant `PageInv` follows a search that runs alone
(`ShowsItsOwn`): from its first await nobody else runs, the result is its own, and result,
`modules_run` and bar are those of the first `seq` events of its log (`FollowsTheLog`).  A
second search ends that for every other (`StartV2SearchKeeps`); for overlapping ones only
`HighestSeen`, the listed selection and the controls remain, which is what the code can
promise.  `SearchStepKeeps` says once what every step of a running search keeps, and each handler
is shown to be such a step.  `ProgressGrows` is the arithmetic of the bar, with its division.

`IndexPageProofs` proves, for any number of searches, chunks and requests, any victims and any
files: `[](PageIsOfOneSearch /\ ButtonsComeBack)` of `LegacyPage`, `[]VictimsAreShown` of
`VictimBrowser`, and all three of the page that composes them (`IndexPageInvariance`).  As long
as nothing is started while something else is pending, `LegacyInv` has one busy search that is
the last one started (`OneWriter`), one request for rows that asks behind the last row
(`OneLoad`), a result without rows until they come (`RowsAreAnnounced`), a drawn page that
is of the result's owner (`PageIsDrawn`) and a history of older searches (`HistoryIsOlder`); none
of them is inductive without the others.

`VictimsInv` has one part for each thing the victims are shown in, and `VictimsAreShown` follows
with its exceptions as stated.  `PagesInv`: every page asked for, now or by the cursor, is behind
one that is held (`Followed`), so that none is skipped in whatever order answers come, and
victims asked for once at a time ask behind the last page held (`InTurn`).  `ListInv`: of the
cards on the page, those of the result it was drawn from are its victims, each once and in order
(`ListIs`), also when answers for another result come between them.  `TreesInv`: an answer to
come for an element on the page is for the log of its card (`AnswersAreFor`), which needs that a
click finds the card itself unless two results share numbers (`FirstNumberedIs`).  `ViewerInv`:
files still to come are of the title, or were when it was opened.

### Orchestrator

`SearchAdmissionProofs` proves, for any finite set of modules, any OathNet modules and
any number of slots: `Spec => []TypeOK`, `[]SlotsBelongToTheLiving`, `[]OathnetLeavesRoom`,
`CancelAllLeavesNoTask`, and `[]NeverWaitsInVain` (until `cancel_all` is called).
`OathnetLeavesRoom` rests on `SlotsBelongToTheLiving`: OathNet tasks in the global
semaphore are among the holders of the other, of which there are at most `MaxOathnet`
(`HoldersAreFew`).  Three lemmas about sequences say what arrivals, departures and leaving
waiters do to the holders.  `CancelAllLeavesNoTask` needs that every live task is
registered until `cancel_all` has cancelled it (`CancelReachesEveryTask`);
`NeverWaitsInVain` that expected results, live tasks and queued results balance
(`EveryResultIsAccountedFor`).  It carries the invariant over to the
program (every step is one of the orchestrator or a round of the watchdog) and proves the
soft gate.

### Verdicts and reports

`SearchReportProofs` proves `Spec => []P` for the five properties of `MCSearchReport`.

* `DoubtIsNeverConfirmed`: the weights of the signals found add up (a sum over a set,
  `SumOverIs`), a sum below the threshold of "confirmed" stays below it, and the cap of a
  platform of low reliability lies under that threshold.
* `ReadersAgree` for every check and for batches of any number of connectors: the statuses
  that occur decide both summaries, by cases.
* `QuorumIsSound` for batches of any length and any integer scores.  The scores of a status are
  picked in the order of the answers (`PicksScores`), their mean and their maximum are
  bounded by the clamp (`AddsScores`, `KeepsHighest`).  That the order of the answers is
  irrelevant is shown for any renaming of the positions (`Reordered`): counts, sums and maxima
  are those of the renamed sets (`SameSize`, `SumOverRenamed`).
* `SearchIsReported` and `SavedCaseIsHonest`, for any lists, counts and numbers of lookups,
  from `SearchInv`: what the page has was sent by a block that is in `modules_run`
  (`Witnessed`), cards and errors agree (`CardsSay`), the grid is of the result, or of one
  whose total arrived later (`DrawnFrom`), and the modules of the plan that the search has
  passed are accounted for (`PlanKept`).  There is one lemma per block.

### Sessions

`SessionsProofs` proves, for any browsers, names, token lifetime and number of crashes,
`SessionsSpec => []SessionsLastUntilEnded` and `[]UsersAreKept`.  In `SessionsSpec` every
browser, admin and the server take all their steps together, which the run's three scenes do
only apart.  Its invariant `SessionsInv` has two halves: whatever has ended is refused, by the
table, by the users in memory and by the users as saved, until it expires (`EndedAreRefused`);
and as long as every write was completed, whatever is refused has ended (`RefusedHaveEnded`).
The first survives a restart because the tokens of a former `APP_PASSWORD` are older than the
change (`TokensAreOfTheirTime`), and a purge because a request between its checks is younger
than the grace period (`ChecksAreSound`).  `PagesFollowCookies` says that requests carry their
page's cookie unless a sign-in overtook them.  `ChangeKeeps` is what the handlers that change
users have in common, with the three ways in which a save can end.

### Console

`ConsoleProofs` treats each component by itself, and ends with their composition:
`ConsoleKeepsItsPromises` is `ConsoleSpec` implies all nine properties the run `console` checks,
for any number of tabs, browsers, users, logs, checks and calls.  In every scene a component
starts where its own specification starts (`ComponentsStart`) and takes one of its own steps
or rests (`ComponentsStep`), so `ConsoleSpec` implies each component's specification and its
theorem.  It adds no interaction between components: they share nothing here.

`RunnerInvariance` and `CallsAreSound`, for any calls, sources, targets and intervals:
`RunnerSpec => []ConcurrentCallsAreSound`.  Its invariant `RunnerInv` says that the limiter's
queues hold exactly the waiting callers, each once (`QueueIsOfWaiters`); that only the first
sleeps, until an interval after the last call (`SleeperIsNext`); that no call is later than the
one its source remembers (`LastCallIsLatest`); and that the cache holds what some call answered
(`CacheHoldsAnswers`).  `QueueMoves` bounds the wait of the caller in place i twice, from now and
from the last call: the clock passes only while the first one sleeps, so the second bound gives
back the first, and a departure shifts every place by one and gives back the second.

`FormInvariance`, for any categories, steps and number of searches: besides the property the
invariant says that until a category has been chosen the default modules are of the active
one, and that the rows drawn are those named since the box was emptied or before.
`DrawerIsSound`, for any connectors and results: the cards on the page are of the results there
are, and the card of an open drawer is of no later drawing of the list.  `BudgetInvariance`, for
any finite set of checks: the counter is the sum over the checks that charged on the counter's
day (`ChargedIn`), no check has a later day, and each refused one met a sum that had reached
the budget; a charge moves one check into the sum (`SumWithout`).

`CasesOutliveTheTabs`, for any tabs, cases and overlapping saves: `CasesInv` says that the storage
is as true as the lists of the tabs (`ListsAreTrue`), since a tab takes its list from there on
a reload; that a save that waits for its hash is of the result its tab shows unless the tab took
another meanwhile (`SavesWait`), has an id no list has yet (`SavesAreNew`) and shares it with
no other save (`SavesDiffer`); and that what is stored and not in an up-to-date list is known to
be gone (`ListsAreStored`).  The property alone is not inductive: a save that ends writes
an id that may be anyone's, and a reload what the storage may hold.
`ListsAreInOrder`: the list in memory and the one stored hold cases of distinct ids and times
(`ListOfCases`), so that the sort puts them in one order (`LatestFirstIs`) and the rail is its
beginning; saves that wait for their hash have ids and times of their own (`SavesAreToCome`);
and but for the cases whose last write was refused memory and storage hold the same
(`SameCases`), so that the rail, drawn from the storage, is in step with memory.

`AdminIsUpToDate`, for any log, any number of rows that share a time, any users: `WalkInv` says of
pages that are not mixed up that the cursors behind Previous descend from page one to the one on
the screen (`Leads`), that what was due above any of them, or above the cursor of the next page,
has been on a page (`Covered`), and that at most one answer is awaited, of the page on the
screen.  A page takes in what is due from its cursor down to its last row (`PageIs`), because
rows are sorted by time and id (`NewestFirstIs`) and ids never change.  `DashInv` says that the
number shown as today's was never more than there are; `UsersInv` that an account only goes from
none to active to inactive (`ServedLater`), so that a list made after a change has it, and that
one list at most is on its way unless they may have come out of order (`OneListing`).

### Data

`DataLemmas` holds what these proofs need to know of folds, sums, filters and sorts for every
input.  The library's induction theorems take an operator as a parameter, which the provers
cannot instantiate; instead `MinimalSet` states for a family of finite sets, as an ordinary set,
that strict inclusion is well-founded, and `Induction` and `SetInduction` follow for sets of
numbers and of finite sets.  `FoldExists` and `FoldLeftExists` unfold a fold of the community modules;
`SumOverIs`, `MaxOfFinite`, `DroppedIs` (a filter) and `RankedIs` (a sort) rest on them.
`SelectSeq` and `SortSeq` are opaque to the provers, so that the models write a filter as a fold
(`WithoutCase`, `Scores`) and a sort by rank, as many elements before one as are above it
(`LatestFirst`, `NewestFirst`).  Proving also showed where a CASE of the models had guards that
overlap and left the order of the code's tests to TLC; those are IFs in the code's order now.

### Assumptions, and what is not proved

Assumptions: modules are finitely many and limits positive; memory is a percentage; the
reduced ceiling is at most the normal one. Interval, timeout and TTL are positive. The
searches of a page are numbered from 1 on as they begin; connectors are finitely many and a plan
names at least one; the viewer's own text "loading" is not the name of a file; checks of the
budget are finitely many; no log of the audit table is of a later day than today; `OneBrowser`
is a browser.  In `SearchWorker`: the plan is a non-empty sequence of distinct connectors (`_connectors_for`
returns three), a connector answers with a final status, `None` is no connector.

Only model-checked is liveness, as fairness and ENABLED are out of the prover's reach:
`QueuedJobSettles`, `JobDoneReachesClient`, `SearchesEndWithTheirLogs`, `DoneSearchIsDrawn`,
`EverybodyIsServed` and `AdmissionRecovers`.  The properties of the runs that expect a violation
are refuted, not proved.

## 5. Findings

* **A failed job is never announced** (`search_v2_failure`).  `_worker` marks the job failed
  and appends nothing; the documented event list and the page expect `job_failed`.  The page
  reconnects for ever.  (`SearchesEndWithTheirLogs` says the same of `V2Page`: an undisturbed
  search waits on only if its job's log stopped short of `job_done`.)
* **A search that overlaps another loses results** (`v2_page_overlap`).  Enter starts a search
  while the stream of an older one is open; the older events raise the position from which
  the new stream is opened, and the new search is shown as done without the results before it.
* **A likely profile has no card** (`social_likely`).  Two filters of `renderSocial` disagree
  about the list in which likely profiles of a validated result are.

Met on the way, without a run of their own:

* *Server.*  A stream that polls between `mark_done` and the append of `job_done` ends without
  a terminal event; the page recovers by reconnecting (`JobDoneReachesClient`).  After
  `cancel_all` a reader of `results()` waits for ever, as `_expected` is not reset.  The mode
  is read in the route and the ceiling used later, so that a search may run untracked in
  CRITICAL mode.  The sentinel gives up after 300 s, a SpiderFoot scan after 600 s; its result
  stays in the singleton's queue.  The purge task counts as one of the two entries that REDUCED
  mode allows.  `watchdog.py` documents `> 85` and `> 80` where the code has `>=`.
* *Runner and budget.*  The wait in the limiter is outside the connector's timeout.  The adapter of
  v2 jobs never asks the budget, a check that timed out charges nothing, and concurrent searches
  pass the same check.  Concurrent calls with one key all miss and all run the connector.
* *Pages.*  The legacy search empties the scan box but not the map behind it: steps an earlier
  search named get no row.  init draws the chips before it selects the default modules.  The
  `+N unverified` mark of an earlier search stays when a later one has none.  A late answer of a
  file viewer or of a page of rows is taken for the last one asked for.  A second click on "load
  more" of the victims before the answer gets the same page twice.  A page of victims that comes
  after another search was drawn adds its cards to that list, with numbers it already has, so
  that their buttons open the other card's tree; and adding a page leaves a tree whose manifest is
  pending at "loading" until it is closed and opened again.  An error is not told from the end of the list.
* *Reports.*  The risk on the screen counts email services, that of the exports does not; loading more breaches
  changes the exports' counts but not the grid; profiles of a validated list are never
  exported; a SpiderFoot scan that was refused is summed up as "not found".  Server and case differ
  on a mix of not_found and uncertain, and on bot checks and login walls (blocked there, error here).
* *Sessions and admin.*  A crash within the rewrite of the user file leaves only the default
  user; a write that fails leaves the cached users changed.  Two admins can deactivate each
  other at once.  A token of the second of a password change is refused.  A late answer of
  checkAuth shows or hides the page of another session.  Two clicks on Next push one cursor
  twice; the late answer of an old filter sets the cursor of another list; a 503 is drawn as
  "no logs"; the chart is drawn from the 100 newest logs only.
* *Cases.*  A tab writes its whole list, so that a save drops what another tab has saved since;
  a deletion that cannot be stored comes back on the next load; the id of a case is set even when
  the save failed, and the case that the cap dropped for it is not put back; the open panel still
  lists a case that a save has dropped.  The focus is lost when the list of cards is drawn anew under an open drawer.

## 6. Not modelled, and why

* API clients (OathNet, SpiderFoot, GHunt, ...), fetching of pages, the baseline of a platform:
  network I/O without state that two actors share; what they may answer is an input.
* The number of pooled connections: no task waits for a second connection while it holds one;
  how long a page holds its own is decided by the client's reading and by
  `idle_in_transaction_session_timeout`.
* Sanitizing of payloads, hashing, password rules, rate limits of routes: pure functions or middleware.
* The server's PDF, theme, layout, wiring of listeners, the design concepts under `agora/`:
  presentation without decisions the properties are about.
* The scripts: offline, one pass each.  (`port_searches.py` is documented as idempotent through
  ON CONFLICT, but its table has no unique constraint to conflict with.)

## 7. What could follow

A refinement of `SearchV2`'s page by `V2Page` (the log delivered in order and once),
which both models state separately; the caches of the legacy modules, whose entries have no
shared key with the runner's; several users in one admin page's list; the HTTP side of the
connectors, should one of them come to keep state between calls.
