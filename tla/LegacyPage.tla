------------------------------ MODULE LegacyPage ------------------------------
(***************************************************************************)
(* The search page with the legacy engine: startSearch and handleEvent     *)
(* (search.js), the drawing of the results and their pager (render.js),    *)
(* newSearch (panels.js) and the recent searches (history.js).  A search   *)
(* awaits a POST and reads its event stream; its results are drawn 600 ms  *)
(* after "done".  Every step writes into whichever currentResult there is. *)
(* Rows come in chunks of BREACH_PAGE_SIZE; a chunk is named by its search *)
(* and its number.                                                         *)
(***************************************************************************)
EXTENDS Naturals, Sequences, FiniteSets, SequencesExt

CONSTANTS
  Searches,    \* the searches of one page load, numbered as they begin
  Chunks,      \* chunks of rows the server has for a search
  ApiPage,     \* chunks in one answer of the server
  HistoryCap,  \* entries kept by saveHistory (20)
  MaxLoads,    \* bound on requests for more rows at a time
  Toggled      \* the rows whose password the user toggles

ASSUME LegacyPageAssumption ==
  /\ Searches \subseteq Nat \ {0}
  /\ Chunks \in Nat /\ ApiPage \in Nat \ {0} /\ HistoryCap \in Nat \ {0} /\ MaxLoads \in Nat
  /\ Toggled \subseteq 1 .. Chunks

VARIABLES
  legacy,        \* the coroutine of each search
  result,        \* currentResult
  oathnet,       \* the oathnet event of each search, an object of its own
  modulesRan,
  pager,         \* breachPage, pwdVisible, the "load more" button, its requests
  screen,        \* what is on the page
  history,
  overlap,       \* something was started while something else was pending
  asked          \* the chunks whose passwords the user asked to see

legacyVars ==
  <<legacy, result, oathnet, modulesRan, pager, screen, history, overlap, asked>>

Nobody == 0
NoCursor == 0

-----------------------------------------------------------------------------
(***************************************************************************)
(* State.                                                                  *)
(***************************************************************************)
Coroutines ==
  [at: {"idle", "posting", "reading", "ended"}, sent: SUBSET {"start", "oathnet", "sherlock", "done"},
   timer: BOOLEAN]

\* A cursor is the last chunk a search has been answered; a result holds the
\* cursor of its own search, unless a late answer has replaced it.
NewResult(s) ==
  [owner |-> s, oathnet |-> Nobody, sherlock |-> Nobody, cursor |-> NoCursor]

LegacyInit ==
  /\ legacy = [s \in Searches |-> [at |-> "idle", sent |-> {}, timer |-> FALSE]]
  /\ result = NewResult(Nobody)
  /\ oathnet = [s \in Searches |-> <<>>]
  /\ modulesRan = {}
  /\ pager = [page |-> 0, visible |-> {}, more |-> "none", loads |-> <<>>]
  /\ screen = [scan |-> FALSE, button |-> TRUE, results |-> FALSE, target |-> Nobody,
               rows |-> <<>>, social |-> Nobody, notRun |-> {}]
  /\ history = <<>>
  /\ overlap = FALSE
  /\ asked = {}

Busy(s) == legacy[s].at \in {"posting", "reading"} \/ legacy[s].timer

Pending == pager.loads # <<>> \/ \E s \in Searches : Busy(s)

-----------------------------------------------------------------------------
(***************************************************************************)
(* Drawing.                                                                *)
(***************************************************************************)
\* _renderBreachPage: the first pages of an object's rows, and the button that
\* asks for more of them.
RowsShown(rows, page) == SubSeq(rows, 1, IF page + 1 < Len(rows) THEN page + 1 ELSE Len(rows))

MoreButton(rows, page, cursor) ==
  IF page + 1 < Len(rows) \/ cursor # NoCursor THEN "ready" ELSE "none"

\* renderBreaches: from the first page, with every password masked.
RenderBreaches(rows) ==
  pager' = [pager EXCEPT !.page = 0, !.visible = {},
              !.more = IF rows = <<>> THEN "none" ELSE MoreButton(rows, 0, result.cursor)]

\* applyPanelVisibility: the panels marked "not run", none as long as no module
\* is known to have run.
NotRunPanels == IF modulesRan = {} THEN {} ELSE {"breach", "sherlock"} \ modulesRan

\* renderResults of the current result, by the timer.
RenderResults ==
  LET rows == IF result.oathnet = Nobody THEN <<>> ELSE oathnet[result.oathnet]
  IN /\ RenderBreaches(rows)
     /\ screen' = [screen EXCEPT !.scan = FALSE, !.results = TRUE, !.target = result.owner,
                     !.rows = RowsShown(rows, 0), !.social = result.sherlock,
                     !.notRun = NotRunPanels]

\* saveHistory: the current result goes first, the oldest entry goes.
SaveHistoryLast ==                        \* variant: the oldest stay
  history' = IF Len(history) < HistoryCap THEN Append(history, result.owner) ELSE history

SaveHistory ==
  history' = SubSeq(<<result.owner>> \o history, 1,
                    IF Len(history) + 1 > HistoryCap THEN HistoryCap ELSE Len(history) + 1)

-----------------------------------------------------------------------------
(***************************************************************************)
(* startSearch and handleEvent.                                            *)
(***************************************************************************)
FreshResult(s) == NewResult(s)

StartSearch(s) ==
  /\ legacy[s].at = "idle"
  /\ \A r \in Searches : r < s => legacy[r].at # "idle"
  /\ legacy' = [legacy EXCEPT ![s].at = "posting"]
  /\ result' = FreshResult(s)
  /\ screen' = [screen EXCEPT !.scan = TRUE, !.button = FALSE, !.results = FALSE]
  /\ overlap' = (overlap \/ Pending)
  /\ UNCHANGED <<oathnet, modulesRan, pager, history, asked>>

\* The answer of the POST.  401 throws in apiFetch, a network error in fetch; any
\* other status is read like a stream, and its body holds no event.
ReadingEnds(s) == screen' = [screen EXCEPT !.button = TRUE]

KeepsButton(s) == screen' = [screen EXCEPT !.scan = FALSE]            \* variant

SearchFails(s) == screen' = [screen EXCEPT !.scan = FALSE, !.button = TRUE]

Respond(s) ==
  /\ legacy[s].at = "posting"
  /\ \/ legacy' = [legacy EXCEPT ![s].at = "reading"] /\ UNCHANGED screen
     \/ legacy' = [legacy EXCEPT ![s].at = "ended"] /\ SearchFails(s)
  /\ UNCHANGED <<result, oathnet, modulesRan, pager, history, overlap, asked>>

Receive(s, type) ==
  /\ legacy[s].at = "reading"
  /\ type = "start" <=> legacy[s].sent = {}
  /\ {type, "done"} \cap legacy[s].sent = {}

OnStart(s) ==
  /\ Receive(s, "start")
  /\ legacy' = [legacy EXCEPT ![s].sent = {"start"}]
  /\ modulesRan' = {}
  /\ UNCHANGED <<result, oathnet, pager, screen, history, overlap, asked>>

FirstPage(s) == [i \in 1 .. (IF ApiPage < Chunks THEN ApiPage ELSE Chunks) |-> <<s, i>>]

CursorAfter(rows) == IF rows = <<>> \/ Len(rows) = Chunks THEN NoCursor ELSE Len(rows)

\* The event object becomes the result's; it brings rows or none.
OnOathnet(s) ==
  /\ Receive(s, "oathnet")
  /\ legacy' = [legacy EXCEPT ![s].sent = @ \cup {"oathnet"}]
  /\ \E rows \in {<<>>, FirstPage(s)} :
       /\ oathnet' = [oathnet EXCEPT ![s] = rows]
       /\ result' = [result EXCEPT !.oathnet = s, !.cursor = CursorAfter(rows)]
  /\ UNCHANGED <<modulesRan, pager, screen, history, overlap, asked>>

OnSherlock(s) ==
  /\ Receive(s, "sherlock")
  /\ legacy' = [legacy EXCEPT ![s].sent = @ \cup {"sherlock"}]
  /\ result' = [result EXCEPT !.sherlock = s]
  /\ UNCHANGED <<oathnet, modulesRan, pager, screen, history, overlap, asked>>

\* done carries the names of the modules that ran.
ModulesRun(s) ==
  (IF "oathnet" \in legacy[s].sent THEN {"breach"} ELSE {})
    \cup (IF "sherlock" \in legacy[s].sent THEN {"sherlock"} ELSE {})

OnDone(s) ==
  /\ Receive(s, "done")
  /\ legacy' = [legacy EXCEPT ![s] =
                  [legacy[s] EXCEPT !.sent = @ \cup {"done"}, !.timer = TRUE]]
  /\ modulesRan' = ModulesRun(s)
  /\ UNCHANGED <<result, oathnet, pager, screen, history, overlap, asked>>

\* The body ends, after "done" or before; or reading it throws.
StreamEnds(s) ==
  /\ legacy[s].at = "reading"
  /\ legacy' = [legacy EXCEPT ![s] = [legacy[s] EXCEPT !.at = "ended", !.sent = {}]]
  /\ ReadingEnds(s) \/ ("done" \notin legacy[s].sent /\ SearchFails(s))
  /\ UNCHANGED <<result, oathnet, modulesRan, pager, history, overlap, asked>>

\* The 600 ms are over.
TimerFires(s) ==
  /\ legacy[s].timer
  /\ legacy' = [legacy EXCEPT ![s].timer = FALSE]
  /\ RenderResults
  /\ SaveHistory
  /\ UNCHANGED <<result, oathnet, modulesRan, overlap, asked>>

NewSearch ==
  /\ screen.results
  /\ screen' = [screen EXCEPT !.results = FALSE, !.notRun = {}]
  /\ modulesRan' = {}
  /\ result' = [result EXCEPT !.cursor = NoCursor]
  /\ pager' = [pager EXCEPT !.page = 0]
  /\ overlap' = (overlap \/ Pending)
  /\ UNCHANGED <<legacy, oathnet, history, asked>>

-----------------------------------------------------------------------------
(***************************************************************************)
(* The pager.                                                              *)
(***************************************************************************)
CanLoadMore == screen.results /\ pager.more = "ready" /\ result.oathnet # Nobody

\* Rows the page already has come first.
LoadMoreLocally ==
  /\ CanLoadMore
  /\ LET rows == oathnet[result.oathnet]
     IN /\ pager.page + 1 < Len(rows)
        /\ screen' = [screen EXCEPT !.rows = RowsShown(rows, pager.page + 1)]
        /\ pager' = [pager EXCEPT !.page = @ + 1,
                       !.more = MoreButton(rows, pager.page + 1, result.cursor)]
  /\ UNCHANGED <<legacy, result, oathnet, modulesRan, history, overlap, asked>>

\* The button is disabled for the time of the request.
ButtonStaysReady == "ready"               \* variant: a second click asks again

ButtonWhileLoading == "loading"

LoadMoreRemotely ==
  /\ CanLoadMore
  /\ pager.page + 1 >= Len(oathnet[result.oathnet])
  /\ result.cursor # NoCursor
  /\ Len(pager.loads) < MaxLoads
  /\ pager' = [pager EXCEPT !.more = ButtonWhileLoading,
                 !.loads = Append(@, [object |-> result.oathnet, query |-> result.owner,
                                      cursor |-> result.cursor])]
  /\ UNCHANGED <<legacy, result, oathnet, modulesRan, screen, history, overlap, asked>>

\* The server answers the chunks behind the cursor; a cursor of another search
\* or one at the end brings none.
Answered(load) ==
  LET last == IF load.cursor + ApiPage < Chunks THEN load.cursor + ApiPage ELSE Chunks
  IN [i \in 1 .. (last - load.cursor) |-> <<load.query, load.cursor + i>>]

\* The rows go to the object the click found, the cursor and the page to
\* whatever is current.
MoreAnswered(i) ==
  LET load == pager.loads[i]
      rows == oathnet[load.object] \o Answered(load)
      next == IF load.cursor + ApiPage < Chunks THEN load.cursor + ApiPage ELSE NoCursor
  IN /\ Answered(load) # <<>>
     /\ oathnet' = [oathnet EXCEPT ![load.object] = rows]
     /\ result' = [result EXCEPT !.cursor = next]
     /\ screen' = [screen EXCEPT !.rows = RowsShown(rows, pager.page + 1)]
     /\ pager' = [pager EXCEPT !.page = @ + 1, !.loads = RemoveAt(@, i),
                    !.more = MoreButton(rows, pager.page + 1, next)]
     /\ UNCHANGED <<legacy, modulesRan, history, overlap, asked>>

\* No rows, taken for the end, or an error or an exception: the button of the click
\* says so.  A button drawn since is another one.
MoreGivesUp(i) ==
  /\ \E more \in {"all loaded", "ready"} :
       pager' = [pager EXCEPT !.loads = RemoveAt(@, i),
                   !.more = IF @ = "loading" THEN more ELSE @]
  /\ UNCHANGED <<legacy, result, oathnet, modulesRan, screen, history, overlap, asked>>

LoadAnswers == \E i \in DOMAIN pager.loads : MoreAnswered(i) \/ MoreGivesUp(i)

\* togglePwd: pwdVisible is kept by the row's place on the page.
TogglePwd(i) ==
  /\ screen.results
  /\ i \in DOMAIN screen.rows
  /\ pager' = [pager EXCEPT !.visible = IF i \in @ THEN @ \ {i} ELSE @ \cup {i}]
  /\ asked' = asked \cup {screen.rows[i]}
  /\ UNCHANGED <<legacy, result, oathnet, modulesRan, screen, history, overlap>>

\* revealAllPasswords: every row of the object, the ones not drawn yet as well.
RevealAllPasswords ==
  /\ screen.results
  /\ screen.rows # <<>>
  /\ result.oathnet # Nobody
  /\ pager' = [pager EXCEPT !.visible = @ \cup DOMAIN oathnet[result.oathnet]]
  /\ asked' = asked \cup Range(oathnet[result.oathnet])
  /\ UNCHANGED <<legacy, result, oathnet, modulesRan, screen, history, overlap>>

-----------------------------------------------------------------------------
SearchSteps(s) ==
  \/ Respond(s) \/ OnStart(s) \/ OnOathnet(s) \/ OnSherlock(s) \/ OnDone(s)
  \/ StreamEnds(s) \/ TimerFires(s)

LegacyNext ==
  \/ \E s \in Searches : StartSearch(s) \/ SearchSteps(s)
  \/ NewSearch
  \/ LoadMoreLocally
  \/ LoadMoreRemotely
  \/ LoadAnswers
  \/ \E i \in Toggled : TogglePwd(i)
  \/ RevealAllPasswords

\* Requests end, streams end, timers fire; the user owes the page nothing.
LegacyFairness ==
  /\ \A s \in Searches : WF_legacyVars(SearchSteps(s))
  /\ WF_legacyVars(LoadAnswers)

-----------------------------------------------------------------------------
(***************************************************************************)
(* Properties.                                                             *)
(***************************************************************************)
\* Types.
LegacyTypeOK ==
  /\ legacy \in [Searches -> Coroutines]
  /\ result.owner \in Searches \cup {Nobody} /\ result.cursor \in 0 .. Chunks
  /\ pager.page \in Nat /\ pager.more \in {"none", "ready", "loading", "all loaded"}
  /\ pager.visible \subseteq Nat
  /\ modulesRan \subseteq {"breach", "sherlock"}
  /\ Len(history) <= HistoryCap

\* However searches, pages and clicks overlap, neither button stays disabled
\* without something pending that will enable it.
ButtonsComeBack ==
  /\ ~screen.button => \E s \in Searches : legacy[s].at \in {"posting", "reading"}
  /\ (screen.results /\ pager.more = "loading") => pager.loads # <<>>

\* If nothing was started while something else was pending, what is on the page
\* is of one search: the header, the rows, the social results, the panels.
PageShowsOneSearch ==
  (screen.results /\ ~overlap) =>
    /\ result.owner = screen.target
    /\ screen.social \in {Nobody, screen.target}
    /\ \A i \in DOMAIN screen.rows : screen.rows[i][1] = screen.target
    /\ "breach" \in screen.notRun => screen.rows = <<>>

\* Under the same condition every chunk of a search is on its list once and in
\* order, through any number of pages, failures and retries.
RowsComeOnceInOrder ==
  ~overlap => \A s \in Searches : \A i \in DOMAIN oathnet[s] : oathnet[s][i] = <<s, i>>

\* A password is in clear only if the user asked to see that row's.
NoUnaskedPassword ==
  (screen.results /\ ~overlap) =>
    \A i \in pager.visible \cap DOMAIN screen.rows : screen.rows[i] \in asked

\* The recent searches begin with the one on the page, and none is there twice.
HistoryStartsWithThePage ==
  ~overlap =>
    /\ screen.target # Nobody => history[1] = screen.target
    /\ \A i, k \in DOMAIN history : i < k => history[i] > history[k]

\* A search whose "done" was received is drawn and recorded, unless another one
\* was started meanwhile.
DoneSearchIsDrawn ==
  \A s \in Searches :
    legacy[s].timer ~> (overlap \/ (screen.target = s /\ history[1] = s))

\* What is on the page, its rows and its history belong to one search, unless
\* searches were made to overlap.
PageIsOfOneSearch ==
  /\ LegacyTypeOK
  /\ PageShowsOneSearch
  /\ RowsComeOnceInOrder
  /\ HistoryStartsWithThePage
  /\ NoUnaskedPassword

-----------------------------------------------------------------------------
(***************************************************************************)
(* The inductive invariant behind PageIsOfOneSearch and ButtonsComeBack.   *)
(* The part under ~overlap says who may write: the last search begun, as   *)
(* long as it is busy, or one request for more rows of the result shown.   *)
(***************************************************************************)
Owners == Searches \cup {Nobody}

Rows == Seq(Owners \X Nat)

Loads == [object: Searches, query: Owners, cursor: 1 .. Chunks]

ResultTypes == [owner: Owners, oathnet: Owners, sherlock: Owners, cursor: 0 .. Chunks]

PagerTypes == [page: Nat, visible: SUBSET Nat, loads: Seq(Loads),
               more: {"none", "ready", "loading", "all loaded"}]

ScreenTypes == [scan: BOOLEAN, button: BOOLEAN, results: BOOLEAN, target: Owners, rows: Rows,
                social: Owners, notRun: SUBSET {"breach", "sherlock"}]

LegacyTyped ==
  /\ legacy \in [Searches -> Coroutines]
  /\ result \in ResultTypes
  /\ oathnet \in [Searches -> Rows]
  /\ modulesRan \subseteq {"breach", "sherlock"}
  /\ pager \in PagerTypes
  /\ screen \in ScreenTypes
  /\ history \in Seq(Owners) /\ Len(history) <= HistoryCap
  /\ overlap \in BOOLEAN

ButtonsWait ==
  /\ ~screen.button => \E s \in Searches : legacy[s].at \in {"posting", "reading"}
  /\ pager.more = "loading" => pager.loads # <<>>

\* The result is the last search's, and only that search is busy; the results on
\* the page are drawn already.
OneWriter ==
  /\ \A s \in Searches : legacy[s].at # "idle" <=> s <= result.owner
  /\ \A s \in Searches : Busy(s) => s = result.owner
  /\ screen.results => \A s \in Searches : ~legacy[s].timer
  /\ result.oathnet \in {Nobody, result.owner} /\ result.sherlock \in {Nobody, result.owner}

\* A request for more rows asks behind the last row of the result on the page.
OneLoad ==
  /\ result.cursor # NoCursor =>
       result.oathnet # Nobody /\ result.cursor = Len(oathnet[result.oathnet])
  /\ pager.loads # <<>> =>
       /\ screen.results /\ pager.more = "loading" /\ result.oathnet # Nobody
       /\ result.cursor # NoCursor
       /\ pager.loads = <<[object |-> result.oathnet, query |-> result.owner,
                           cursor |-> result.cursor]>>

\* A search receives nothing any more.
Complete(s) == legacy[s].at = "ended" \/ (legacy[s].at = "reading" /\ "done" \in legacy[s].sent)

\* Until its rows come the result has none; the panels know by "done".
RowsAreAnnounced ==
  /\ \A s \in Searches :
       /\ (legacy[s].at \in {"posting", "reading"} /\ "oathnet" \notin legacy[s].sent) =>
            result.oathnet = Nobody
       /\ legacy[s].timer => Complete(s) /\ ("breach" \in NotRunPanels => result.oathnet = Nobody)
  /\ screen.results =>
       /\ \A s \in Searches : s = result.owner => Complete(s)
       /\ "breach" \in screen.notRun => result.oathnet = Nobody /\ screen.rows = <<>>

PageIsDrawn ==
  screen.results =>
    /\ result.owner = screen.target
    /\ screen.social \in {Nobody, screen.target}
    /\ \A i \in DOMAIN screen.rows : screen.rows[i] = <<screen.target, i>>
    /\ \A i \in pager.visible : <<screen.target, i>> \in asked

\* A search that is not drawn yet is not in the history.
HistoryIsOlder ==
  /\ \A i \in DOMAIN history : history[i] <= result.owner
  /\ \A s \in Searches :
       (legacy[s].timer \/ (legacy[s].at \in {"posting", "reading"} /\ ~Complete(s))) =>
         \A i \in DOMAIN history : history[i] < s
  /\ screen.target # Nobody => history # <<>> /\ history[1] = screen.target
  /\ \A i, k \in DOMAIN history : i < k => history[i] > history[k]

AloneInv ==
  ~overlap =>
    OneWriter /\ OneLoad /\ RowsComeOnceInOrder /\ RowsAreAnnounced /\ PageIsDrawn /\ HistoryIsOlder

LegacyInv == LegacyTyped /\ ButtonsWait /\ AloneInv

=============================================================================
