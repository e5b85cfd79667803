------------------------------- MODULE Sessions -------------------------------
(***************************************************************************)
(* Users and their sessions: auth_service.py, deps.py, routes/auth.py, the  *)
(* user routes of routes/admin.py, and the page in each browser (auth.js).  *)
(* A session is a JWT in a cookie.  The server keeps the users in one file, *)
(* with a copy in memory, and signed-out tokens in a table that a loop      *)
(* purges.  A request is checked in two steps, token and user first and,    *)
(* after an await, the table; its handler runs after both.  Time is in half *)
(* seconds: a token's iat is in whole seconds, the time of a password       *)
(* change is not.                                                           *)
(***************************************************************************)
EXTENDS Integers, Sequences, FiniteSets

CONSTANTS
  Browsers,
  Others,       \* the user names besides "admin"
  MaxUsers,     \* MAX_USERS
  TokenLife,    \* JWT_EXPIRE_HOURS, in seconds
  PurgeGrace,   \* 300: seconds a row of the table is kept after its token's end;
                \* no request waits for its second check that long
  MaxTokens,    \* bound on logins
  MaxTime,      \* bound on the time, in half seconds
  MaxChecks,    \* bound on requests between their two checks
  MaxFaults     \* bound on crashes and on failed writes of the user file

ASSUME SessionsAssumption ==
  /\ "admin" \notin Others /\ MaxUsers \in Nat \ {0}
  /\ TokenLife \in Nat \ {0} /\ PurgeGrace \in Nat

VARIABLES
  now, up, faults,
  password,     \* the version of APP_PASSWORD the server is configured with
  file,         \* the user file; no users when it is missing or cannot be read
  cache,        \* _users_cache, no users while the server is down
  tokens,       \* the tokens issued; pw is the version of the password used
  revoked,      \* token_blacklist: numbers of tokens
  checks,       \* requests that wait for the blacklist
  cookie,       \* nx_session of each browser: the number of a token, or 0
  page,         \* the page of each browser
  ended,        \* tokens signed out, of deactivated users, of a former password
  known,        \* the users as of the last change that was confirmed
  shaky,        \* a write of the user file failed or was interrupted
  lost,         \* the server started without its user file, after it had one
  crossed,      \* an admin deactivated by an admin who had just been deactivated
  servedDead,   \* requests answered though their token had ended before
  refusedLive   \* tokens refused though nothing had ended them

userVars == <<file, cache, known, shaky>>
browserVars == <<cookie, page>>
answerVars == <<servedDead, refusedLive>>
sessionVars ==
  <<now, up, faults, password, userVars, tokens, revoked, checks, browserVars, ended,
    lost, crossed, answerVars>>

Admin == "admin"
Names == Others \cup {Admin}

NoUser == [role |-> "none", active |-> FALSE, pw |-> 0, changed |-> 0]
NoUsers == [n \in Names |-> NoUser]
Exists(users, n) == users[n] # NoUser

Nobody == "nobody"
NewPage == [screen |-> "auth", user |-> Nobody, menu |-> FALSE, check |-> "due",
            again |-> FALSE, raced |-> FALSE]

SessionsInit ==
  /\ now = 0 /\ up = FALSE /\ faults = 0 /\ password = 1
  /\ file = NoUsers /\ cache = NoUsers /\ known = NoUsers /\ shaky = FALSE
  /\ tokens = <<>> /\ revoked = {} /\ checks = {}
  /\ cookie = [b \in Browsers |-> 0] /\ page = [b \in Browsers |-> NewPage]
  /\ ended = {} /\ lost = FALSE /\ crossed = FALSE /\ servedDead = {} /\ refusedLive = {}

-----------------------------------------------------------------------------
(* Time, and the server's starts and ends.                                     *)

Second == now \div 2

Passes ==
  /\ now < MaxTime /\ now' = now + 1
  /\ \A r \in checks : now' - r.at < 2 * PurgeGrace

Tick ==
  /\ Passes
  /\ UNCHANGED <<up, faults, password, userVars, tokens, revoked, checks, browserVars, ended,
                 lost, crossed, answerVars>>

DefaultAdmin == [role |-> "admin", active |-> TRUE, pw |-> password, changed |-> now]

\* _ensure_default_user: of no users, of another APP_PASSWORD, of the same one.
WithDefaultAdmin(users) ==
  IF users = NoUsers \/ (Exists(users, Admin) /\ users[Admin].pw # password)
  THEN [users EXCEPT ![Admin] = DefaultAdmin]
  ELSE users

FileIsLost == file = NoUsers /\ known # NoUsers

Start ==
  /\ ~up /\ up' = TRUE
  /\ LET users == WithDefaultAdmin(file)
     IN  /\ file' = users /\ cache' = users
         /\ known' = IF shaky THEN users ELSE WithDefaultAdmin(known)
         /\ ended' = ended \cup {i \in DOMAIN tokens : tokens[i].sub = Admin
                                                        /\ tokens[i].pw # users[Admin].pw}
  /\ lost' = (lost \/ FileIsLost)
  /\ UNCHANGED <<now, faults, password, shaky, tokens, revoked, checks, browserVars, crossed,
                 answerVars>>

\* The save of _ensure_default_user fails or is interrupted: nothing is started.
StartFails ==
  /\ ~up /\ WithDefaultAdmin(file) # file
  /\ shaky' = TRUE /\ file' \in {file, WithDefaultAdmin(file), NoUsers}
  /\ lost' = (lost \/ FileIsLost)
  /\ UNCHANGED <<now, up, faults, password, cache, known, tokens, revoked, checks, browserVars,
                 ended, crossed, answerVars>>

Stops == up' = FALSE /\ cache' = NoUsers /\ checks' = {}
Fault == faults < MaxFaults /\ faults' = faults + 1

Crash ==
  /\ up /\ Fault /\ Stops
  /\ UNCHANGED <<now, password, file, known, shaky, tokens, revoked, browserVars, ended, lost,
                 crossed, answerVars>>

\* A new configuration takes some time.
PasswordConfigured ==
  /\ ~up /\ password = 1 /\ password' = 2
  /\ Passes
  /\ UNCHANGED <<up, faults, userVars, tokens, revoked, checks, browserVars, ended, lost,
                 crossed, answerVars>>

Purged == {i \in revoked : tokens[i].exp >= Second - PurgeGrace}

\* A round of blacklist_purge_loop.
PurgeBlacklist ==
  /\ up /\ revoked' = Purged
  /\ UNCHANGED <<now, up, faults, password, userVars, tokens, checks, browserVars, ended, lost,
                 crossed, answerVars>>

-----------------------------------------------------------------------------
(* The index page: checkAuth, submitAuth, apiFetch, signOut.                   *)

Role(n) == cache[n].role

\* showAppScreen and renderNavUser, which shows the admin item and never hides it.
ShowsApp(p, n) ==
  [p EXCEPT !.screen = "app", !.user = n, !.menu = @ \/ Role(n) = "admin",
            !.again = @ \/ p.user # Nobody \/ p.menu]

\* checkAuth goes on to /api/auth, which grants nothing: there is a password.
CheckFails(p) == [p EXCEPT !.screen = "auth", !.check = "done"]
CheckPasses(p, n) == ShowsApp([p EXCEPT !.check = "done"], n)

\* apiFetch looks for a 401 only.
SessionExpired(p) == [p EXCEPT !.screen = "auth", !.user = Nobody]

Takes(b, what, i, answer) ==
  page' = [page EXCEPT ![b] =
    CASE what = "me" /\ answer = "ok" -> CheckPasses(@, tokens[i].sub)
      [] what = "me" /\ answer # "ok" -> CheckFails(@)
      [] what = "api" /\ answer = "401" -> SessionExpired(@)
      [] OTHER -> @]

Reload(b) ==
  /\ page' = [page EXCEPT ![b] = NewPage]
  /\ checks' = {r \in checks : r.by # b}     \* what is still answered is not listened to
  /\ UNCHANGED <<now, up, faults, password, userVars, tokens, revoked, cookie, ended, lost,
                 crossed, answerVars>>

\* fetchWithTimeout, or no server.
CheckTimesOut(b) ==
  /\ page[b].check = "asked" \/ (page[b].check = "due" /\ ~up)
  /\ page' = [page EXCEPT ![b] = CheckFails(@)]
  /\ checks' = {r \in checks : ~(r.by = b /\ r.what = "me")}
  /\ UNCHANGED <<now, up, faults, password, userVars, tokens, revoked, cookie, ended, lost,
                 crossed, answerVars>>

IssuedTo(n) == [sub |-> n, iat |-> Second, exp |-> Second + TokenLife, pw |-> cache[n].pw]

\* A login with the right password; another one is refused and changes nothing.
SubmitAuth(b, n) ==
  /\ up /\ page[b].screen = "auth" /\ Len(tokens) < MaxTokens
  /\ cache[n].active
  /\ tokens' = Append(tokens, IssuedTo(n))
  /\ cookie' = [cookie EXCEPT ![b] = Len(tokens) + 1]
  /\ page' = [page EXCEPT ![b] =
       [ShowsApp(@, n) EXCEPT
          !.raced = page[b].check # "done" \/ \E r \in checks : r.by = b]]
  /\ UNCHANGED <<now, up, faults, password, userVars, revoked, checks, ended, lost, crossed,
                 answerVars>>

\* The decoder takes a token until its exp, a whole second, has come.
Expired(i) == 2 * tokens[i].exp <= now

SignedOut(i) == {i}

\* logout revokes what it can decode, then deletes the cookie; without the table
\* it answers 500 and keeps the cookie, and an answer that is lost deletes none.
\* The page reloads whatever the answer is.
SignOut(b) ==
  LET i == cookie[b] IN
  /\ page[b].screen = "app" /\ i # 0
  /\ page' = [page EXCEPT ![b] = NewPage]
  /\ checks' = {r \in checks : r.by # b}
  /\ \/ /\ up /\ cookie' \in {cookie, [cookie EXCEPT ![b] = 0]}
        /\ IF Expired(i) THEN UNCHANGED <<revoked, ended>>
           ELSE revoked' = revoked \cup SignedOut(i) /\ ended' = ended \cup {i}
     \/ UNCHANGED <<cookie, revoked, ended>>
  /\ UNCHANGED <<now, up, faults, password, userVars, tokens, lost, crossed, answerVars>>

-----------------------------------------------------------------------------
(* The two checks of a request: _decode_token and _enforce_user_session_state; *)
(* _check_blacklist.                                                           *)

ChangeInSeconds(i) == tokens[i].iat < cache[tokens[i].sub].changed \div 2  \* variant

BeforeChange(i) == 2 * tokens[i].iat < cache[tokens[i].sub].changed

PassesState(i) ==
  /\ i # 0 /\ ~Expired(i)
  /\ cache = NoUsers \/ (cache[tokens[i].sub].active /\ ~BeforeChange(i))

Over(i) == i = 0 \/ i \in ended \/ Expired(i)

\* The password was set in the very second in which the token was issued.
SameSecond(i) == tokens[i].iat = cache[tokens[i].sub].changed \div 2

MayAsk(b, what) ==
  CASE what = "me" -> page[b].check = "due"
    [] what = "api" -> page[b].screen = "app"
    [] OTHER -> cookie[b] # 0 /\ Role(tokens[cookie[b]].sub) = "admin"

Ask(b, what, n) ==
  LET i == cookie[b] IN
  /\ up /\ MayAsk(b, what) /\ Cardinality(checks) < MaxChecks
  /\ IF PassesState(i)
     THEN /\ checks' = checks \cup {[by |-> b, what |-> what, on |-> n, token |-> i,
                                     at |-> now, over |-> Over(i)]}
          /\ page' = IF what = "me" THEN [page EXCEPT ![b].check = "asked"] ELSE page
          /\ UNCHANGED refusedLive
     ELSE /\ Takes(b, what, i, "401")
          /\ refusedLive' = IF Over(i) \/ SameSecond(i) THEN refusedLive
                            ELSE refusedLive \cup {i}
          /\ UNCHANGED checks
  /\ UNCHANGED <<now, up, faults, password, userVars, tokens, revoked, cookie, ended, lost,
                 crossed, servedDead>>

Answered(r, answer) == checks' = checks \ {r} /\ Takes(r.by, r.what, r.token, answer)

\* Found in the table: 401.  No answer from the table: 503, access denied.
Refuse(r) ==
  /\ \/ /\ r.token \in revoked /\ Answered(r, "401")
        /\ refusedLive' = IF r.token \in ended THEN refusedLive ELSE refusedLive \cup {r.token}
     \/ Answered(r, "503") /\ UNCHANGED refusedLive
  /\ UNCHANGED <<now, up, faults, password, userVars, tokens, revoked, cookie, ended, lost,
                 crossed, servedDead>>

Granted(r) ==
  /\ r.token \notin revoked
  /\ servedDead' = IF r.over THEN servedDead \cup {r} ELSE servedDead
  /\ UNCHANGED <<now, password, tokens, revoked, cookie, lost, refusedLive>>

\* /api/me, and any route that changes nothing here.
Serve(r) ==
  /\ r.what \in {"me", "api"}
  /\ Granted(r) /\ Answered(r, "ok")
  /\ UNCHANGED <<up, faults, userVars, ended, crossed>>

-----------------------------------------------------------------------------
(* The handlers that change users.  They change the cached users, then save    *)
(* them; _save_users writes the file in place.                                 *)

SavedInMemory(users) ==                                               \* variant
  cache' = users /\ known' = users /\ UNCHANGED <<file, shaky, up, faults>>

Saved(users) ==
  file' = users /\ cache' = users /\ known' = users /\ UNCHANGED <<shaky, up, faults>>

\* The answer is a 500, yet the change is in force for as long as the server runs.
SaveFails(users) ==
  /\ Fault /\ shaky' = TRUE
  /\ cache' = users /\ file' \in {file, users, NoUsers} /\ UNCHANGED <<known, up>>

SaveInterrupted(users) ==
  /\ Fault /\ shaky' = TRUE /\ Stops
  /\ file' \in {file, users, NoUsers} /\ UNCHANGED known

TokensOf(n) == {i \in DOMAIN tokens : tokens[i].sub = n}

ChangeUsers(r, users, over) ==
  /\ Granted(r)
  /\ \/ Saved(users) /\ Answered(r, "ok") /\ ended' = ended \cup over
     \/ SaveFails(users) /\ Answered(r, "500") /\ UNCHANGED ended
     \/ SaveInterrupted(users) /\ UNCHANGED <<page, ended>>

CanCreate(n) == Cardinality({m \in Names : Exists(cache, m)}) < MaxUsers /\ ~Exists(cache, n)

\* admin_create_user: 403 at the cap, 409 for a name that is taken.
CreateUser(r) ==
  /\ r.what \in {"admin", "user"}
  /\ \/ /\ CanCreate(r.on) /\ UNCHANGED crossed
        /\ ChangeUsers(r, [cache EXCEPT ![r.on] =
                             [role |-> r.what, active |-> TRUE, pw |-> 0, changed |-> 0]], {})
     \/ /\ ~CanCreate(r.on) /\ Granted(r) /\ Answered(r, "4xx")
        /\ UNCHANGED <<up, faults, userVars, ended, crossed>>

CanDeactivate(r) == r.on # tokens[r.token].sub /\ Exists(cache, r.on)

\* admin_delete_user.
DeactivateUser(r) ==
  /\ r.what = "deactivate"
  /\ \/ /\ CanDeactivate(r)
        /\ crossed' = (crossed \/ ~cache[tokens[r.token].sub].active)
        /\ ChangeUsers(r, [cache EXCEPT ![r.on].active = FALSE], TokensOf(r.on))
     \/ /\ ~CanDeactivate(r) /\ Granted(r) /\ Answered(r, "4xx")
        /\ UNCHANGED <<up, faults, userVars, ended, crossed>>

ServerNext == Start \/ StartFails \/ Crash

TimeNext == Tick \/ PasswordConfigured \/ PurgeBlacklist

PageNext(b) == Reload(b) \/ CheckTimesOut(b) \/ SignOut(b) \/ Ask(b, "me", Nobody)

SessionRequests(b) == Ask(b, "api", Nobody) \/ \E n \in Names : SubmitAuth(b, n)

AdminRequests(b, whats, names) == \E what \in whats, n \in names : Ask(b, what, n)

AnswersNext ==
  \E r \in checks : Refuse(r) \/ Serve(r) \/ CreateUser(r) \/ DeactivateUser(r)

SessionsNext ==
  \/ ServerNext \/ TimeNext \/ AnswersNext
  \/ \E b \in Browsers :
       \/ PageNext(b) \/ SessionRequests(b)
       \/ AdminRequests(b, {"admin", "user", "deactivate"}, Names)

SessionsSpec == SessionsInit /\ [][SessionsNext]_sessionVars

-----------------------------------------------------------------------------
(***************************************************************************)
(* Properties.                                                             *)
(***************************************************************************)
\* A request that is sent after its token has ended gets no answer but a refusal,
\* whatever crashes, restarts, storage failures and purges lie in between; unless
\* the user file was lost, and with it who had been deactivated.
EndedSessionsGetNothing == lost \/ servedDead = {}

\* Nothing else ends a session: not another browser's sign-out, not the purge, not
\* a restart; but a token of the very second of a password change may be refused.
OtherSessionsGoOn == shaky \/ refusedLive = {}

\* A change of the users that was confirmed is there, also after a restart, as
\* long as every write of the file has been completed.
ConfirmedUsersAreKept == up /\ ~shaky => cache = known

\* The admins cannot lock themselves out, unless two deactivate each other, the
\* second being past its checks when the first is deactivated.
SomeAdminIsActive ==
  up /\ ~crossed => \E n \in Names : Role(n) = "admin" /\ cache[n].active

\* The page shows the user of the browser's cookie, and the admin item to admins
\* only, unless a sign-in overtook a request of the page or was not its first one.
PageIsOfOneSession ==
  \A b \in Browsers :
    (up /\ ~lost /\ ~shaky /\ page[b].screen = "app" /\ ~page[b].raced /\ ~page[b].again) =>
      /\ cookie[b] # 0 /\ page[b].user = tokens[cookie[b]].sub
      /\ page[b].menu = (Role(page[b].user) = "admin")

\* A session lasts until it is ended and no longer, and the page is of that session.
SessionsLastUntilEnded == EndedSessionsGetNothing /\ OtherSessionsGoOn /\ PageIsOfOneSession

\* The users outlive crashes and each other's changes, an admin among them.
UsersAreKept == ConfirmedUsersAreKept /\ SomeAdminIsActive

=============================================================================
