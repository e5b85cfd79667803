------------------------------ MODULE AdminPanel ------------------------------
(***************************************************************************)
(* The admin page (admin.js) before the admin routes (routes/admin.py): the *)
(* audit log, read page by page from a cursor while searches go on being    *)
(* logged, the dashboard's counts, and the list of users, which other       *)
(* admins change too.  Requests are answered in any order, fail, or get     *)
(* lost.                                                                    *)
(***************************************************************************)
EXTENDS Integers, Sequences, FiniteSets, SequencesExt, FiniteSetsExt

CONSTANTS
  LogsLimit,   \* LOGS_LIMIT: rows of a page of the log
  ChartLimit,  \* 100: logs the chart is drawn from
  ChartDays,   \* 7
  Searchers,   \* the users whose searches are logged
  OldLogs,     \* the logs there may be at first: lists of records, ts and by
  Today,       \* the day on which the page is used
  MaxLogs,     \* bound on the logs
  MaxAsks,     \* bound on the loads of logs
  MaxCalls,    \* bound on the loads of users, and the changes of users, of the page
  Accounts,    \* user names
  MaxAccounts  \* MAX_USERS

ASSUME AdminPanelAssumption ==
  /\ LogsLimit \in Nat \ {0} /\ ChartLimit \in Nat \ {0} /\ ChartDays \in Nat \ {0}
  /\ MaxAccounts \in Nat /\ Today \in Nat
  /\ OldLogs \subseteq Seq([ts : 0 .. Today, by : Searchers])

VARIABLES
  searches,    \* the table, in the order of its ids: when, and by whom
  cursorStack, \* logsCursorStack
  logsCurrent, logsNext,
  who,         \* the filter by user
  rows,        \* the ids fetched for the page on the screen
  asked,       \* requests for logs that are not answered
  asks,        \* requests for logs so far
  due, passed, \* ids that matched when page one was read; ids on the pages since
  mixed,       \* answers were lost, failed or may come out of order since page one
  dash         \* the dashboard: searches today, and in the chart

logVars ==
  <<searches, cursorStack, logsCurrent, logsNext, who, rows, asked, asks, due, passed, mixed, dash>>

VARIABLES
  accounts,    \* the server's users
  listed,      \* the users on the screen
  calls,       \* requests of the users section that are not answered
  called,      \* their number so far
  mine,        \* what this page has made of a user, as it was told
  jumbled      \* lists may have come out of order, or were lost

accountVars == <<accounts, listed, calls, called, mine, jumbled>>

NoCursor == [ts |-> Today + 1, id |-> 0]
NoFilter == "all"
NoDash == [today |-> 0, chart |-> 0, drawn |-> FALSE]

-----------------------------------------------------------------------------
(* admin_logs: rows by (ts, id), newest first, from a cursor on.               *)

Key(id) == [ts |-> searches[id].ts, id |-> id]

Older(k, c) == k.ts < c.ts \/ (k.ts = c.ts /\ k.id < c.id)

Matches(id, filter) == filter = NoFilter \/ searches[id].by = filter

MatchingIdsByTime(cursor, filter) ==                                  \* variant
  {id \in DOMAIN searches : Matches(id, filter) /\ searches[id].ts < cursor.ts}

MatchingIds(cursor, filter) ==
  {id \in DOMAIN searches : Matches(id, filter) /\ Older(Key(id), cursor)}

\* As many rows come before one as there are newer ones.
Newer(ids, id) == {k \in ids : Older(Key(id), Key(k))}

NewestFirst(ids) ==
  [i \in 1 .. Cardinality(ids) |-> CHOOSE id \in ids : Cardinality(Newer(ids, id)) = i - 1]

PageOf(cursor, filter, limit) ==
  LET all == NewestFirst(MatchingIds(cursor, filter))
  IN  SubSeq(all, 1, Min({limit, Len(all)}))

NextCursor(ids) == IF Len(ids) = LogsLimit THEN Key(Last(ids)) ELSE NoCursor

-----------------------------------------------------------------------------
(* loadLogs and its callers.  NoCursor in logsNext is the null of the code.    *)

Asks(cursor, filter) ==
  /\ asks < MaxAsks /\ asks' = asks + 1
  /\ asked' = asked \cup {[from |-> cursor, who |-> filter]}

\* Nothing is noted any more once the pages are mixed.
Mixes(cause, seen) ==
  /\ mixed' = (mixed \/ cause)
  /\ passed' = IF mixed \/ cause THEN {} ELSE seen
  /\ due' = IF mixed \/ cause THEN {} ELSE due

\* showSection('logs'), and _resetLogsAndLoad when a filter changes.
ResetLogs(filter) ==
  /\ cursorStack' = <<>> /\ logsCurrent' = NoCursor /\ logsNext' = NoCursor /\ who' = filter
  /\ due' = {} /\ passed' = {} /\ mixed' = (asked # {})

ResetAndLoad ==
  \E filter \in Searchers \cup {NoFilter} :
    ResetLogs(filter) /\ Asks(NoCursor, filter) /\ UNCHANGED <<searches, rows, dash>>

\* logsPage, and the refresh button.  A button that is disabled cannot be pressed.
LogsPage(dir) ==
  /\ CASE dir = 1 ->
            /\ logsNext # NoCursor
            /\ cursorStack' = Append(cursorStack, logsCurrent) /\ logsCurrent' = logsNext
       [] dir = -1 ->
            /\ cursorStack # <<>>
            /\ logsCurrent' = Last(cursorStack) /\ cursorStack' = Front(cursorStack)
       [] OTHER -> UNCHANGED <<cursorStack, logsCurrent>>
  /\ Asks(logsCurrent', who)
  /\ Mixes(asked # {}, passed)
  /\ UNCHANGED <<searches, logsNext, who, rows, dash>>

\* An answer; one of a storage failure has neither items nor a cursor.
LogsLoaded(r) ==
  \E failed \in BOOLEAN :
    LET ids == IF failed THEN <<>> ELSE PageOf(r.from, r.who, LogsLimit)
    IN /\ rows' = ids /\ logsNext' = NextCursor(ids)
       /\ IF r.from = NoCursor /\ ~mixed /\ ~failed
          THEN /\ due' = MatchingIds(NoCursor, r.who)
               /\ passed' = passed \cup ToSet(ids) /\ UNCHANGED mixed
          ELSE Mixes(failed, passed \cup ToSet(ids))
       /\ asked' = asked \ {r}
       /\ UNCHANGED <<searches, cursorStack, logsCurrent, who, asks, dash>>

LogsLost(r) ==
  /\ asked' = asked \ {r} /\ Mixes(TRUE, {})
  /\ UNCHANGED <<searches, cursorStack, logsCurrent, logsNext, who, rows, asks, dash>>

\* api reloads the page on 401 and 403.
Unauthorized(r) ==
  /\ ResetLogs(NoFilter) /\ rows' = <<>> /\ asked' = {} /\ dash' = NoDash
  /\ UNCHANGED <<searches, asks>>

\* _log_search: the time is taken before a connection is, so that rows may be
\* inserted in another order.
SearchLogged ==
  /\ Len(searches) < MaxLogs
  /\ \E ts \in {Today - 1, Today}, u \in Searchers :
       searches' = Append(searches, [ts |-> ts, by |-> u])
  /\ UNCHANGED <<cursorStack, logsCurrent, logsNext, who, rows, asked, asks, due, passed, mixed, dash>>

-----------------------------------------------------------------------------
(* loadDashboard, then loadChart.                                              *)

InChart(ids) ==
  Cardinality({id \in ids : searches[id].ts \in (Today - ChartDays + 1) .. Today})

StatsShown ==
  /\ dash' = [dash EXCEPT
                !.today = Cardinality({id \in DOMAIN searches : searches[id].ts = Today}),
                !.drawn = FALSE]
  /\ UNCHANGED <<searches, cursorStack, logsCurrent, logsNext, who, rows, asked, asks, due, passed, mixed>>

ChartDrawn ==
  /\ dash' = [dash EXCEPT !.chart = InChart(ToSet(PageOf(NoCursor, NoFilter, ChartLimit))),
                          !.drawn = TRUE]
  /\ UNCHANGED <<searches, cursorStack, logsCurrent, logsNext, who, rows, asked, asks, due, passed, mixed>>

-----------------------------------------------------------------------------
(* The users section.                                                          *)

Listing == "list"
Create == "create"
Deactivate == "deactivate"

Free(n) == accounts[n] = "none"
Full == Cardinality({n \in Accounts : ~Free(n)}) >= MaxAccounts

\* A request; what the server makes of it, at some time; the answer, at a later one.
Call(what, n) ==
  /\ called < MaxCalls /\ called' = called + 1
  /\ calls' = calls \cup {[what |-> what, on |-> n, answer |-> "none",
                           list |-> [m \in Accounts |-> "none"]]}

Pending(what) == {c \in calls : c.what = what}

LoadUsers ==
  /\ Call(Listing, "none")
  /\ jumbled' = (jumbled \/ Pending(Listing) # {})
  /\ UNCHANGED <<accounts, listed, mine>>

\* createUser, whose form takes any name; the button of a row that showed an
\* active user.
CreateUserPressed(n) == Call(Create, n) /\ UNCHANGED <<accounts, listed, mine, jumbled>>

DeactivatePressed(n) ==
  /\ listed[n] = "active"
  /\ Call(Deactivate, n) /\ UNCHANGED <<accounts, listed, mine, jumbled>>

Answer(c, answer, list) ==
  calls' = (calls \ {c}) \cup {[c EXCEPT !.answer = answer, !.list = list]}

ServerAnswers(c) ==
  /\ c.answer = "none"
  /\ \/ c.what = Listing /\ Answer(c, "ok", accounts) /\ UNCHANGED accounts
     \/ /\ c.what = Create
        /\ \/ Full /\ Answer(c, "403", c.list) /\ UNCHANGED accounts
           \/ ~Full /\ ~Free(c.on) /\ Answer(c, "409", c.list) /\ UNCHANGED accounts
           \/ /\ ~Full /\ Free(c.on) /\ Answer(c, "ok", c.list)
              /\ accounts' = [accounts EXCEPT ![c.on] = "active"]
     \/ /\ c.what = Deactivate /\ Answer(c, "ok", c.list)
        /\ accounts' = [accounts EXCEPT ![c.on] = "inactive"]
  /\ UNCHANGED <<listed, called, mine, jumbled>>

\* A change that was made has the list loaded again.
TakeAndReload(c) ==
  /\ called' = called + 1
  /\ calls' = (calls \ {c}) \cup {[what |-> Listing, on |-> "none",
                                   answer |-> "none", list |-> [m \in Accounts |-> "none"]]}
  /\ jumbled' = (jumbled \/ Pending(Listing) # {})

UserAnswer(c) ==
  /\ c.answer # "none"
  /\ \/ /\ c.what = Listing /\ listed' = c.list
        /\ calls' = calls \ {c} /\ UNCHANGED <<called, mine, jumbled>>
     \/ /\ c.what # Listing /\ c.answer = "ok" /\ UNCHANGED listed
        /\ mine' = [mine EXCEPT ![c.on] = IF c.what = Create THEN "active" ELSE "inactive"]
        /\ TakeAndReload(c)
     \/ c.answer = "409" /\ calls' = calls \ {c} /\ UNCHANGED <<listed, called, mine, jumbled>>
     \/ /\ c.answer = "403"              \* reloads the page
        /\ calls' = {} /\ listed' = [m \in Accounts |-> "none"]
        /\ mine' = [m \in Accounts |-> "none"] /\ jumbled' = FALSE /\ UNCHANGED called
  /\ UNCHANGED accounts

CallLost(c) ==
  /\ calls' = calls \ {c} /\ jumbled' = TRUE
  /\ UNCHANGED <<accounts, listed, called, mine>>

AnotherAdmin ==
  /\ \E n \in Accounts :
       \/ ~Full /\ Free(n) /\ accounts' = [accounts EXCEPT ![n] = "active"]
       \/ accounts[n] = "active" /\ accounts' = [accounts EXCEPT ![n] = "inactive"]
  /\ UNCHANGED <<listed, calls, called, mine, jumbled>>

-----------------------------------------------------------------------------
PanelInit ==
  /\ searches \in OldLogs
  /\ cursorStack = <<>> /\ logsCurrent = NoCursor /\ logsNext = NoCursor /\ who = NoFilter
  /\ rows = <<>> /\ asked = {} /\ asks = 0
  /\ due = {} /\ passed = {} /\ mixed = FALSE /\ dash = NoDash
  /\ accounts = [n \in Accounts |-> "none"] /\ listed = accounts /\ mine = accounts
  /\ calls = {} /\ called = 0 /\ jumbled = FALSE

DashboardNext == SearchLogged \/ StatsShown \/ ChartDrawn

LogsNext ==
  \/ ResetAndLoad \/ SearchLogged
  \/ \E dir \in {-1, 0, 1} : LogsPage(dir)
  \/ \E r \in asked : LogsLoaded(r) \/ LogsLost(r) \/ Unauthorized(r)

UsersNext ==
  \/ LoadUsers \/ AnotherAdmin
  \/ \E n \in Accounts : CreateUserPressed(n) \/ DeactivatePressed(n)
  \/ \E c \in calls : ServerAnswers(c) \/ UserAnswer(c) \/ CallLost(c)

\* The sections of the page have no state in common.
PanelNext ==
  \/ (LogsNext \/ DashboardNext) /\ UNCHANGED accountVars
  \/ UsersNext /\ UNCHANGED logVars

PanelSpec == PanelInit /\ [][PanelNext]_<<logVars, accountVars>>

-----------------------------------------------------------------------------
(***************************************************************************)
(* Properties.                                                             *)
(***************************************************************************)
\* Whatever is logged meanwhile, and however many logs share a time: a log that was
\* there when page one was read has been on a page once the pages have gone past it.
NoLogIsSkipped ==
  asked = {} /\ ~mixed =>
    \A id \in due :
      (rows = <<>> \/ ~Older(Key(id), Key(Last(rows)))) => id \in passed

\* The pages behind "Previous" are pages one, two, ... up to the one on the screen,
\* each begins below the one before it.
PreviousLeadsBack ==
  ~mixed =>
    LET walk == Append(cursorStack, logsCurrent)
    IN  \A i \in 1 .. Len(walk) - 1 : Older(walk[i + 1], walk[i]) /\ walk[1] = NoCursor

\* The chart leaves out no search of today that the counts beside it show, as long
\* as it is drawn from all the logs.
ChartHasToday ==
  dash.drawn /\ Len(searches) <= ChartLimit => dash.chart >= dash.today

\* Once nothing is pending, the list shows what this page has been told it did.
OwnChangesAreListed ==
  calls = {} /\ ~jumbled =>
    \A n \in Accounts :
      /\ mine[n] = "inactive" => listed[n] = "inactive"
      /\ mine[n] = "active" => listed[n] # "none"

\* The admin misses no log, no search of today and no change of a user.
AdminMissesNothing == NoLogIsSkipped /\ PreviousLeadsBack /\ ChartHasToday /\ OwnChangesAreListed

=============================================================================
