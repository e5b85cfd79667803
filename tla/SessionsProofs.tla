---------------------------- MODULE SessionsProofs ----------------------------
(***************************************************************************)
(* Theorems about Sessions, for any browsers and users, any lifetime of a  *)
(* token and any number of crashes and failed writes.                      *)
(***************************************************************************)
EXTENDS Sessions, SequenceTheorems, TLAPS

-----------------------------------------------------------------------------
(***************************************************************************)
(* The inductive invariant.                                                *)
(***************************************************************************)
Users == [role : {"admin", "user"}, active : BOOLEAN, pw : 0 .. 2, changed : Nat]
Tokens == [sub : Names, iat : Nat, exp : Nat, pw : 0 .. 2]
Kinds == {"me", "api", "admin", "user", "deactivate"}
PendingChecks == [by : Browsers, what : Kinds, on : Names \cup {Nobody}, token : Nat,
             at : Nat, over : BOOLEAN]
Pages == [screen : {"auth", "app"}, user : Names \cup {Nobody}, menu : BOOLEAN,
          check : {"due", "asked", "done"}, again : BOOLEAN, raced : BOOLEAN]
Tables == [Names -> Users \cup {NoUser}]

SessionsTypeOK ==
  /\ now \in Nat /\ up \in BOOLEAN /\ password \in {1, 2}
  /\ file \in Tables /\ cache \in Tables /\ known \in Tables
  /\ tokens \in Seq(Tokens)
  /\ revoked \subseteq DOMAIN tokens /\ ended \subseteq DOMAIN tokens
  /\ checks \subseteq PendingChecks
  /\ cookie \in [Browsers -> {0} \cup DOMAIN tokens]
  /\ page \in [Browsers -> Pages]
  /\ shaky \in BOOLEAN /\ lost \in BOOLEAN /\ crossed \in BOOLEAN

\* Users that have the default admin, whose password alone is ever set anew.
HasAdmin(users) ==
  /\ users[Admin].role = "admin" /\ users[Admin].changed <= now
  /\ users[Admin].pw \in 1 .. password
  /\ \A n \in Others : users[n].changed = 0

HasActiveAdmin(users) == \E n \in Names : users[n].role = "admin" /\ users[n].active

TablesHaveAdmin ==
  /\ \A users \in {file, cache} : users = NoUsers \/ HasAdmin(users)
  /\ \A users \in {file, cache} : users = NoUsers \/ crossed \/ HasActiveAdmin(users)
  /\ known = NoUsers \/ known[Admin].role = "admin"

\* While the server runs it has users, and those of the file are never of another
\* password of the admin than those in memory.
ServerIsUpToDate ==
  /\ up => /\ cache # NoUsers /\ cache[Admin].pw = password
           /\ file = NoUsers \/ (file[Admin].pw = password
                                  /\ file[Admin].changed = cache[Admin].changed)
  /\ ~up => cache = NoUsers /\ checks = {}
  /\ up \/ tokens # <<>> => known # NoUsers
  /\ lost => shaky
  /\ ~shaky => file = known /\ (up => cache = known)

\* Tokens are issued in order of time; those of a former password are older than
\* the change of it.
FormerTokens(users) ==
  \A i \in TokensOf(Admin) :
    tokens[i].pw # users[Admin].pw => 2 * tokens[i].iat < users[Admin].changed

TokensAreOfTheirTime ==
  /\ \A i \in DOMAIN tokens : 2 * tokens[i].iat <= now
  /\ \A i \in TokensOf(Admin) :
       /\ tokens[i].pw \in 1 .. password
       /\ tokens[i].pw # password => 2 * tokens[i].iat < now
       /\ file # NoUsers /\ file[Admin].pw # password => tokens[i].pw # password
  /\ \A users \in {file, cache} : users = NoUsers \/ FormerTokens(users)

\* What has ended is refused by the users, in memory and as saved, or by the table.
Refused(i, users) ==
  \/ Expired(i) \/ i \in revoked
  \/ users[tokens[i].sub] # NoUser /\ ~users[tokens[i].sub].active
  \/ tokens[i].sub = Admin /\ 2 * tokens[i].iat < users[Admin].changed

EndedAreRefused ==
  lost \/ \A users \in {file, cache} : users = NoUsers \/ \A i \in ended : Refused(i, users)

\* What is refused has ended.
RefusedHaveEnded ==
  /\ revoked \subseteq ended
  /\ ~shaky /\ known # NoUsers =>
       /\ \A i \in DOMAIN tokens :
            known[tokens[i].sub] # NoUser /\ (known[tokens[i].sub].active \/ i \in ended)
       /\ \A i \in TokensOf(Admin) :
            i \in ended \/ (tokens[i].pw = known[Admin].pw
                             /\ tokens[i].iat >= known[Admin].changed \div 2)

\* A request between its checks: its token is in the table if it has ended before
\* the first one, and stays there; the users still have its admin.
ChecksAreSound ==
  \A r \in checks :
    /\ r.token \in DOMAIN tokens /\ r.at <= now
    /\ tokens[r.token].exp >= r.at \div 2
    /\ now = r.at \/ now - r.at < 2 * PurgeGrace
    /\ r.over => lost \/ r.token \in revoked
    /\ r.what \in {"me", "api"} \/ (r.on \in Names /\ Role(tokens[r.token].sub) = "admin")

\* As long as no sign-in overtook a request of the page, its requests carry its
\* cookie; a page that is shown for the first time is of the cookie's user.
PagesFollowCookies ==
  \A b \in Browsers :
    /\ page[b].raced \/ \A r \in checks : r.by = b => r.token = cookie[b]
    /\ page[b].screen = "app" /\ ~page[b].raced /\ ~page[b].again =>
         /\ cookie[b] # 0 /\ page[b].user = tokens[cookie[b]].sub
         /\ shaky \/ page[b].menu = (known[page[b].user].role = "admin")

SessionsInv ==
  /\ SessionsTypeOK /\ TablesHaveAdmin /\ ServerIsUpToDate /\ TokensAreOfTheirTime
  /\ EndedAreRefused /\ RefusedHaveEnded /\ ChecksAreSound /\ PagesFollowCookies
  /\ EndedSessionsGetNothing /\ OtherSessionsGoOn

-----------------------------------------------------------------------------
(***************************************************************************)
(* Users and half seconds.                                                 *)
(***************************************************************************)
LEMMA Halves ==
  ASSUME NEW n \in Nat
  PROVE  n \div 2 \in Nat /\ 2 * (n \div 2) <= n /\ n < 2 * (n \div 2) + 2
OBVIOUS

LEMMA HalvesGrow ==
  ASSUME NEW m \in Nat, NEW n \in Nat, m <= n
  PROVE  m \div 2 <= n \div 2
BY Halves

LEMMA HalvesBelow ==
  ASSUME NEW m \in Nat, NEW n \in Nat, NEW g \in Nat, n = m \/ n - m < 2 * g
  PROVE  n \div 2 <= m \div 2 + g
BY Halves

LEMMA NoUserIsNone ==
  /\ NoUser \notin Users /\ NoUser.role = "none" /\ NoUser.active = FALSE
  /\ NoUsers \in Tables /\ \A n \in Names : NoUsers[n] = NoUser
  /\ Admin \in Names
BY DEF NoUser, Users, NoUsers, Tables, Names

LEMMA HasAdminIsNotEmpty ==
  ASSUME NEW users, users[Admin].role = "admin"
  PROVE  users # NoUsers /\ users[Admin] # NoUser
BY NoUserIsNone

LEMMA TokenTypes ==
  ASSUME SessionsTypeOK, NEW i \in DOMAIN tokens
  PROVE  /\ tokens[i] \in Tokens /\ tokens[i].sub \in Names /\ tokens[i].iat \in Nat
         /\ tokens[i].exp \in Nat /\ tokens[i].pw \in 0 .. 2
<1>1. tokens \in Seq(Tokens) /\ i \in 1 .. Len(tokens)
  BY LenProperties DEF SessionsTypeOK
<1>2. tokens[i] \in Tokens
  BY <1>1, ElementOfSeq
<1> QED
  BY <1>2 DEF Tokens

LEMMA EmptyInit == SessionsInit => SessionsInv
<1> SUFFICES ASSUME SessionsInit PROVE SessionsInv
  OBVIOUS
<1>1. tokens = <<>> /\ DOMAIN tokens = {} /\ tokens \in Seq(Tokens)
  BY DEF SessionsInit
<1>2. SessionsTypeOK
  BY <1>1, NoUserIsNone DEF SessionsInit, SessionsTypeOK, Pages, NewPage
<1>3. TablesHaveAdmin /\ ServerIsUpToDate
  BY DEF SessionsInit, TablesHaveAdmin, ServerIsUpToDate
<1>4. TokensAreOfTheirTime /\ EndedAreRefused /\ RefusedHaveEnded
  BY <1>1 DEF SessionsInit, TokensAreOfTheirTime, EndedAreRefused, RefusedHaveEnded, TokensOf
<1>5. ChecksAreSound /\ PagesFollowCookies
  BY DEF SessionsInit, ChecksAreSound, PagesFollowCookies, NewPage
<1> QED
  BY <1>2, <1>3, <1>4, <1>5
     DEF SessionsInit, SessionsInv, EndedSessionsGetNothing, OtherSessionsGoOn

-----------------------------------------------------------------------------
(***************************************************************************)
(* Time.                                                                   *)
(***************************************************************************)
LEMMA TimeKeeps ==
  ASSUME SessionsInv, Tick \/ PasswordConfigured
  PROVE  SessionsInv'
<1>1. /\ now \in Nat /\ now' = now + 1 /\ now' \in Nat /\ now <= now'
      /\ \A r \in checks : now' - r.at < 2 * PurgeGrace
      /\ UNCHANGED <<up, file, cache, known, shaky, tokens, revoked, checks, cookie, page, ended,
                     lost, crossed, servedDead, refusedLive>>
      /\ password' = password \/ (~up /\ password = 1 /\ password' = 2)
  BY DEF SessionsInv, SessionsTypeOK, Tick, PasswordConfigured, Passes, userVars, browserVars,
         answerVars
<1>2. now \div 2 <= now' \div 2 /\ now \div 2 \in Nat /\ now' \div 2 \in Nat
  BY <1>1, HalvesGrow, Halves
<1>3. SessionsTypeOK'
  BY <1>1 DEF SessionsInv, SessionsTypeOK
<1>4. TablesHaveAdmin'
  BY <1>1, NoUserIsNone
     DEF SessionsInv, SessionsTypeOK, Tables, Users, TablesHaveAdmin, HasAdmin, HasActiveAdmin
<1>5. ServerIsUpToDate'
  BY <1>1 DEF SessionsInv, ServerIsUpToDate
<1>6. TokensAreOfTheirTime'
  <2>1. \A i \in DOMAIN tokens : tokens[i].iat \in Nat
    BY TokenTypes DEF SessionsInv
  <2>2. \A users : FormerTokens(users) => FormerTokens(users)'
    BY <1>1 DEF FormerTokens, TokensOf
  <2>3. \A i \in TokensOf(Admin)' :
          /\ (tokens[i].pw \in 1 .. password)'
          /\ (tokens[i].pw # password)' => (2 * tokens[i].iat < now)'
          /\ (file # NoUsers /\ file[Admin].pw # password)' => (tokens[i].pw # password)'
    BY <1>1, <2>1 DEF SessionsInv, SessionsTypeOK, TablesHaveAdmin, HasAdmin,
                      TokensAreOfTheirTime, TokensOf
  <2> QED
    BY <1>1, <2>1, <2>2, <2>3 DEF SessionsInv, TokensAreOfTheirTime
<1>7. EndedAreRefused'
  <2>1. \A i \in ended : Expired(i) => Expired(i)'
    <3> SUFFICES ASSUME NEW i \in ended, Expired(i) PROVE Expired(i)'
      OBVIOUS
    <3>1. tokens[i].exp \in Nat
      BY TokenTypes DEF SessionsInv, SessionsTypeOK
    <3> QED
      BY <1>1, <1>2, <3>1 DEF Expired
  <2>2. \A users : \A i \in ended : Refused(i, users) => Refused(i, users)'
    BY <1>1, <2>1 DEF Refused
  <2> QED
    BY <1>1, <2>2 DEF SessionsInv, EndedAreRefused
<1>8. RefusedHaveEnded'
  BY <1>1 DEF SessionsInv, RefusedHaveEnded, TokensOf
<1>9. ChecksAreSound'
  BY <1>1 DEF SessionsInv, SessionsTypeOK, PendingChecks, ChecksAreSound, Role
<1>10. PagesFollowCookies'
  BY <1>1 DEF SessionsInv, PagesFollowCookies
<1> QED
  BY <1>1, <1>3, <1>4, <1>5, <1>6, <1>7, <1>8, <1>9, <1>10
     DEF SessionsInv, EndedSessionsGetNothing, OtherSessionsGoOn

LEMMA PurgeKeeps ==
  ASSUME SessionsInv, PurgeBlacklist
  PROVE  SessionsInv'
<1>1. /\ revoked' = Purged /\ revoked' \subseteq revoked
      /\ UNCHANGED <<now, up, password, file, cache, known, shaky, tokens, checks, cookie, page,
                     ended, lost, crossed, servedDead, refusedLive>>
  BY DEF PurgeBlacklist, Purged, userVars, browserVars, answerVars
<1>2. SessionsTypeOK'
  BY <1>1 DEF SessionsInv, SessionsTypeOK
<1>3. TablesHaveAdmin' /\ ServerIsUpToDate' /\ TokensAreOfTheirTime'
  BY <1>1 DEF SessionsInv, TablesHaveAdmin, HasAdmin, HasActiveAdmin, ServerIsUpToDate,
              TokensAreOfTheirTime, FormerTokens, TokensOf
<1>4. EndedAreRefused'
  <2>1. ASSUME NEW i \in ended, i \in revoked, i \notin revoked'
        PROVE  Expired(i)
    <3>1. /\ tokens[i].exp \in Nat /\ now \in Nat
          /\ now \div 2 \in Nat /\ 2 * (now \div 2) <= now
      BY <2>1, TokenTypes, Halves DEF SessionsInv, SessionsTypeOK
    <3> QED
      BY <1>1, <2>1, <3>1, SessionsAssumption DEF Purged, Expired, Second
  <2>2. \A users : \A i \in ended : Refused(i, users) => Refused(i, users)'
    BY <1>1, <2>1 DEF Refused, Expired
  <2> QED
    BY <1>1, <2>2 DEF SessionsInv, EndedAreRefused
<1>5. RefusedHaveEnded'
  BY <1>1 DEF SessionsInv, RefusedHaveEnded, TokensOf
<1>6. ChecksAreSound'
  <2> SUFFICES ASSUME NEW r \in checks, r.over, ~lost, r.token \in revoked
               PROVE  r.token \in revoked'
    BY <1>1 DEF SessionsInv, ChecksAreSound, Role
  <2>1. /\ now \in Nat /\ r.at \in Nat /\ PurgeGrace \in Nat /\ tokens[r.token].exp \in Nat
        /\ tokens[r.token].exp >= r.at \div 2 /\ (now = r.at \/ now - r.at < 2 * PurgeGrace)
    BY TokenTypes, SessionsAssumption DEF SessionsInv, SessionsTypeOK, PendingChecks, ChecksAreSound
  <2>2. now \div 2 <= r.at \div 2 + PurgeGrace /\ now \div 2 \in Nat /\ r.at \div 2 \in Nat
    BY <2>1, HalvesBelow, Halves
  <2> QED
    BY <1>1, <2>1, <2>2 DEF Purged, Second
<1>7. PagesFollowCookies'
  BY <1>1 DEF SessionsInv, PagesFollowCookies
<1> QED
  BY <1>1, <1>2, <1>3, <1>4, <1>5, <1>6, <1>7
     DEF SessionsInv, EndedSessionsGetNothing, OtherSessionsGoOn

-----------------------------------------------------------------------------
(***************************************************************************)
(* The server's starts and ends.                                           *)
(***************************************************************************)
LEMMA CrashKeeps ==
  ASSUME SessionsInv, Crash
  PROVE  SessionsInv'
<1>1. /\ up' = FALSE /\ cache' = NoUsers /\ checks' = {}
      /\ UNCHANGED <<now, password, file, known, shaky, tokens, revoked, cookie, page, ended,
                     lost, crossed, servedDead, refusedLive>>
  BY DEF Crash, Stops, userVars, browserVars, answerVars
<1>2. SessionsTypeOK'
  BY <1>1, NoUserIsNone DEF SessionsInv, SessionsTypeOK
<1>3. TablesHaveAdmin' /\ ServerIsUpToDate' /\ TokensAreOfTheirTime'
  BY <1>1 DEF SessionsInv, TablesHaveAdmin, HasAdmin, HasActiveAdmin, ServerIsUpToDate,
              TokensAreOfTheirTime, FormerTokens, TokensOf
<1>4. EndedAreRefused' /\ RefusedHaveEnded'
  BY <1>1 DEF SessionsInv, EndedAreRefused, Refused, Expired, RefusedHaveEnded, TokensOf
<1>5. ChecksAreSound' /\ PagesFollowCookies'
  BY <1>1 DEF SessionsInv, ChecksAreSound, PagesFollowCookies, Role
<1> QED
  BY <1>1, <1>2, <1>3, <1>4, <1>5 DEF SessionsInv, EndedSessionsGetNothing, OtherSessionsGoOn

LEMMA DefaultAdminIsThere ==
  ASSUME SessionsInv
  PROVE  LET users == WithDefaultAdmin(file) IN
         /\ users \in Tables /\ HasAdmin(users) /\ users[Admin].pw = password
         /\ \A n \in Others : users[n] = file[n]
         /\ users[Admin] = file[Admin] \/ (users[Admin] = DefaultAdmin
                                            /\ (file = NoUsers \/ file[Admin].pw # password))
         /\ file = NoUsers \/ users[Admin] = file[Admin] \/ file[Admin].pw # password
<1> DEFINE users == WithDefaultAdmin(file)
           reset == [file EXCEPT ![Admin] = DefaultAdmin]
<1>1. file \in Tables /\ now \in Nat /\ password \in {1, 2}
      /\ (file = NoUsers \/ HasAdmin(file))
  BY DEF SessionsInv, SessionsTypeOK, TablesHaveAdmin
<1>2. DefaultAdmin \in Users /\ DefaultAdmin.role = "admin" /\ DefaultAdmin.changed = now
      /\ DefaultAdmin.pw = password
  BY <1>1 DEF DefaultAdmin, Users
<1>3. /\ reset \in Tables /\ reset[Admin] = DefaultAdmin
      /\ \A n \in Others : reset[n] = file[n]
  BY <1>1, <1>2, NoUserIsNone, SessionsAssumption DEF Tables, Names, Admin
<1>4. HasAdmin(reset)
  BY <1>1, <1>2, <1>3, NoUserIsNone DEF HasAdmin, Names, NoUser
<1>5. CASE file = NoUsers
  BY <1>2, <1>3, <1>4, <1>5 DEF WithDefaultAdmin
<1>6. CASE file # NoUsers
  <2>1. Exists(file, Admin)
    BY <1>1, <1>6, HasAdminIsNotEmpty DEF Exists, HasAdmin
  <2> QED
    BY <1>1, <1>2, <1>3, <1>4, <1>6, <2>1 DEF WithDefaultAdmin
<1> QED
  BY <1>5, <1>6

\* The users that _ensure_default_user saves have an active admin, know the tokens of a
\* former password, and refuse what the users of the file refused.
LEMMA DefaultAdminKeeps ==
  ASSUME SessionsInv
  PROVE  LET users == WithDefaultAdmin(file) IN
         /\ users # NoUsers /\ users[Admin] # NoUser /\ users[Admin].role = "admin"
         /\ crossed \/ HasActiveAdmin(users)
         /\ FormerTokens(users)
         /\ ~lost /\ ~FileIsLost => \A i \in ended : Refused(i, users)
<1>1. PICK users : users = WithDefaultAdmin(file)
  OBVIOUS
<1>2. /\ users \in Tables /\ HasAdmin(users) /\ users[Admin].pw = password
      /\ \A n \in Others : users[n] = file[n]
      /\ users[Admin] = file[Admin] \/ (users[Admin] = DefaultAdmin
                                         /\ (file = NoUsers \/ file[Admin].pw # password))
      /\ file = NoUsers \/ users[Admin] = file[Admin] \/ file[Admin].pw # password
  BY <1>1, DefaultAdminIsThere
<1>3. DefaultAdmin.role = "admin" /\ DefaultAdmin.active /\ DefaultAdmin.changed = now
  BY DEF DefaultAdmin
<1>4. users[Admin] # NoUser /\ users # NoUsers /\ users[Admin].role = "admin"
  BY <1>2, HasAdminIsNotEmpty DEF HasAdmin
<1>5. crossed \/ HasActiveAdmin(users)
  <2>1. CASE users[Admin] = DefaultAdmin
    BY <1>3, <1>4, <2>1, NoUserIsNone DEF HasActiveAdmin
  <2>2. CASE users[Admin] = file[Admin]
    <3>1. file # NoUsers
      BY <2>2, <1>4, NoUserIsNone
    <3> QED
      BY <3>1, <2>2, <1>2 DEF SessionsInv, TablesHaveAdmin, HasActiveAdmin, Names
  <2> QED
    BY <1>2, <2>1, <2>2
<1>6. FormerTokens(users)
  <2> SUFFICES ASSUME NEW i \in TokensOf(Admin), tokens[i].pw # password
               PROVE  2 * tokens[i].iat < users[Admin].changed
    BY <1>2 DEF FormerTokens
  <2>1. CASE file # NoUsers /\ users[Admin] = file[Admin]
    BY <2>1, <1>2 DEF SessionsInv, TokensAreOfTheirTime, FormerTokens
  <2>2. CASE users[Admin] = DefaultAdmin
    BY <2>2, <1>3 DEF SessionsInv, TokensAreOfTheirTime
  <2> QED
    BY <2>1, <2>2, <1>2, <1>4, NoUserIsNone
<1>7. ASSUME ~lost, ~FileIsLost, NEW i \in ended PROVE Refused(i, users)
  <2>1. i \in DOMAIN tokens /\ tokens[i].sub \in Names
    BY TokenTypes DEF SessionsInv, SessionsTypeOK
  <2>2. file # NoUsers
    BY <1>7, <2>1 DEF SessionsInv, ServerIsUpToDate, FileIsLost
  <2>3. Refused(i, file)
    BY <1>7, <2>2 DEF SessionsInv, EndedAreRefused
  <2>4. CASE users[tokens[i].sub] = file[tokens[i].sub]
    BY <2>3, <2>4 DEF Refused
  <2>5. CASE users[tokens[i].sub] # file[tokens[i].sub]
    <3>1. tokens[i].sub = Admin /\ file[Admin].pw # password /\ users[Admin] = DefaultAdmin
      BY <2>1, <2>2, <2>5, <1>2 DEF Names
    <3>2. 2 * tokens[i].iat < now
      BY <2>1, <2>2, <3>1 DEF SessionsInv, TokensAreOfTheirTime, TokensOf
    <3> QED
      BY <1>3, <3>1, <3>2 DEF Refused
  <2> QED
    BY <2>4, <2>5
<1> QED
  BY <1>1, <1>4, <1>5, <1>6, <1>7

LEMMA StartKeeps ==
  ASSUME SessionsInv, Start
  PROVE  SessionsInv'
<1>0. PICK users : users = WithDefaultAdmin(file)
  OBVIOUS
<1>1. /\ ~up /\ up' = TRUE /\ file' = users /\ cache' = users
      /\ known' = IF shaky THEN users ELSE WithDefaultAdmin(known)
      /\ ended' = ended \cup {i \in DOMAIN tokens : tokens[i].sub = Admin
                                                     /\ tokens[i].pw # users[Admin].pw}
      /\ lost' = (lost \/ FileIsLost)
      /\ UNCHANGED <<now, password, shaky, tokens, revoked, checks, cookie, page, crossed,
                     servedDead, refusedLive>>
  BY <1>0 DEF Start, browserVars, answerVars
<1>2. /\ users \in Tables /\ HasAdmin(users) /\ users[Admin].pw = password
      /\ \A n \in Others : users[n] = file[n]
      /\ users[Admin] = file[Admin] \/ (users[Admin] = DefaultAdmin
                                         /\ (file = NoUsers \/ file[Admin].pw # password))
      /\ file = NoUsers \/ users[Admin] = file[Admin] \/ file[Admin].pw # password
  BY <1>0, DefaultAdminIsThere
<1>3. DefaultAdmin.role = "admin" /\ DefaultAdmin.active /\ DefaultAdmin.changed = now
  BY DEF DefaultAdmin
<1>4. users[Admin] # NoUser /\ users # NoUsers /\ users[Admin].role = "admin"
  BY <1>2, HasAdminIsNotEmpty DEF HasAdmin
<1>5. checks = {} /\ cache = NoUsers /\ (~shaky => file = known)
  BY <1>1 DEF SessionsInv, ServerIsUpToDate
<1>6. known' = users
  BY <1>0, <1>1, <1>5
<1>7. file = NoUsers => known # NoUsers \/ DOMAIN tokens = {}
  BY DEF SessionsInv, ServerIsUpToDate
<1>8. file # NoUsers => HasAdmin(file) /\ file[Admin].role = "admin"
  BY DEF SessionsInv, TablesHaveAdmin, HasAdmin
<1>9. SessionsTypeOK'
  BY <1>1, <1>2, <1>6 DEF SessionsInv, SessionsTypeOK
<1>10. TablesHaveAdmin'
  <2>1. HasAdmin(users)'
    BY <1>1, <1>2 DEF HasAdmin
  <2>2. crossed \/ HasActiveAdmin(users)
    BY <1>0, DefaultAdminKeeps
  <2> QED
    BY <1>1, <1>4, <1>6, <2>1, <2>2 DEF TablesHaveAdmin, HasActiveAdmin
<1>11. ServerIsUpToDate'
  BY <1>1, <1>2, <1>4, <1>5, <1>6 DEF SessionsInv, ServerIsUpToDate, FileIsLost
<1>12. FormerTokens(users)
  BY <1>0, DefaultAdminKeeps
<1>13. TokensAreOfTheirTime'
  BY <1>1, <1>2, <1>12 DEF SessionsInv, TokensAreOfTheirTime, FormerTokens, TokensOf
<1>14. EndedAreRefused'
  <2> SUFFICES ASSUME ~lost', NEW i \in ended' PROVE Refused(i, users)'
    BY <1>1 DEF EndedAreRefused
  <2>1. Refused(i, users)
    <3>1. CASE i \notin ended
      BY <1>1, <1>12, <3>1 DEF FormerTokens, Refused, TokensOf
    <3>2. CASE i \in ended
      BY <1>0, <1>1, <3>2, DefaultAdminKeeps
    <3> QED
      BY <3>1, <3>2
  <2> QED
    BY <1>1, <2>1 DEF Refused, Expired
<1>15. RefusedHaveEnded'
  <2>1. revoked' \subseteq ended'
    BY <1>1 DEF SessionsInv, RefusedHaveEnded
  <2>2. ASSUME ~shaky, NEW i \in DOMAIN tokens
        PROVE  users[tokens[i].sub] # NoUser /\ (users[tokens[i].sub].active \/ i \in ended')
    <3>1. file # NoUsers /\ known = file /\ tokens[i].sub \in Names
      BY <1>5, <1>7, <2>2, TokenTypes DEF SessionsInv
    <3>2. file[tokens[i].sub] # NoUser /\ (file[tokens[i].sub].active \/ i \in ended)
      BY <2>2, <3>1 DEF SessionsInv, RefusedHaveEnded
    <3> QED
      BY <1>1, <1>2, <1>3, <1>4, <3>1, <3>2 DEF Names
  <2>3. ASSUME ~shaky, NEW i \in TokensOf(Admin)
        PROVE  i \in ended' \/ (tokens[i].pw = users[Admin].pw
                                 /\ tokens[i].iat >= users[Admin].changed \div 2)
    <3>1. file # NoUsers /\ known = file /\ i \in DOMAIN tokens /\ tokens[i].sub = Admin
      BY <1>5, <1>7, <2>3 DEF SessionsInv, TokensOf
    <3>2. CASE tokens[i].pw # password
      BY <1>1, <1>2, <3>1, <3>2
    <3>3. CASE tokens[i].pw = password
      <4>1. users[Admin] = file[Admin]
        BY <1>2, <2>3, <3>1, <3>3 DEF SessionsInv, TokensAreOfTheirTime
      <4> QED
        BY <1>1, <2>3, <3>1, <4>1 DEF SessionsInv, RefusedHaveEnded
    <3> QED
      BY <3>2, <3>3
  <2> QED
    BY <1>1, <1>6, <2>1, <2>2, <2>3 DEF RefusedHaveEnded, TokensOf
<1>16. ChecksAreSound'
  BY <1>1, <1>5 DEF ChecksAreSound
<1>17. PagesFollowCookies'
  <2> SUFFICES ASSUME NEW b \in Browsers, ~shaky, page[b].screen = "app", ~page[b].raced,
                      ~page[b].again
               PROVE  page[b].menu = (users[page[b].user].role = "admin")
    BY <1>1, <1>5, <1>6 DEF SessionsInv, PagesFollowCookies
  <2>1. /\ cookie[b] # 0 /\ page[b].user = tokens[cookie[b]].sub
        /\ page[b].menu = (known[page[b].user].role = "admin")
    BY DEF SessionsInv, PagesFollowCookies
  <2>2. cookie[b] \in DOMAIN tokens /\ page[b].user \in Names
    BY <2>1, TokenTypes DEF SessionsInv, SessionsTypeOK
  <2>3. file = known /\ file # NoUsers
    BY <1>5, <1>7, <2>2
  <2> QED
    BY <1>2, <1>4, <1>8, <2>1, <2>2, <2>3 DEF Names
<1> QED
  BY <1>1, <1>9, <1>10, <1>11, <1>13, <1>14, <1>15, <1>16, <1>17
     DEF SessionsInv, EndedSessionsGetNothing, OtherSessionsGoOn

LEMMA StartFailsKeeps ==
  ASSUME SessionsInv, StartFails
  PROVE  SessionsInv'
<1>1. PICK users : users = WithDefaultAdmin(file)
  OBVIOUS
<1>2. /\ ~up /\ up' = up /\ shaky' = TRUE /\ file' \in {file, users, NoUsers}
      /\ lost' = (lost \/ FileIsLost)
      /\ UNCHANGED <<now, password, cache, known, tokens, revoked, checks, cookie, page, ended,
                     crossed, servedDead, refusedLive>>
  BY <1>1 DEF StartFails, browserVars, answerVars
<1>3. users \in Tables /\ HasAdmin(users) /\ users[Admin].pw = password
  BY <1>1, DefaultAdminIsThere
<1>4. /\ crossed \/ HasActiveAdmin(users)
      /\ FormerTokens(users)
      /\ ~lost /\ ~FileIsLost => \A i \in ended : Refused(i, users)
  BY <1>1, DefaultAdminKeeps
<1>5. checks = {} /\ cache = NoUsers
  BY <1>2 DEF SessionsInv, ServerIsUpToDate
<1>6. SessionsTypeOK'
  <2>1. NoUsers \in Tables
    BY DEF Tables, NoUsers
  <2> QED
    BY <1>2, <1>3, <2>1 DEF SessionsInv, SessionsTypeOK
<1>7. TablesHaveAdmin'
  <2>1. HasAdmin(users)' /\ (HasAdmin(file) => file' # file \/ HasAdmin(file)')
    BY <1>2, <1>3 DEF HasAdmin
  <2> QED
    BY <1>2, <1>3, <1>4, <1>5, <2>1 DEF SessionsInv, TablesHaveAdmin, HasAdmin, HasActiveAdmin
<1>8. ServerIsUpToDate'
  BY <1>2, <1>5 DEF SessionsInv, ServerIsUpToDate
<1>9. TokensAreOfTheirTime'
  BY <1>2, <1>3, <1>4, <1>5 DEF SessionsInv, TokensAreOfTheirTime, FormerTokens, TokensOf
<1>10. EndedAreRefused'
  BY <1>2, <1>4, <1>5 DEF SessionsInv, EndedAreRefused, Refused, Expired
<1>11. RefusedHaveEnded' /\ ChecksAreSound' /\ PagesFollowCookies'
  BY <1>2, <1>5 DEF SessionsInv, RefusedHaveEnded, ChecksAreSound, PagesFollowCookies
<1> QED
  BY <1>2, <1>6, <1>7, <1>8, <1>9, <1>10, <1>11
     DEF SessionsInv, EndedSessionsGetNothing, OtherSessionsGoOn

-----------------------------------------------------------------------------
(***************************************************************************)
(* The handlers.                                                           *)
(***************************************************************************)
LEMMA GrantedIsAlive ==
  ASSUME SessionsInv, NEW r \in checks, Granted(r)
  PROVE  EndedSessionsGetNothing'
BY DEF SessionsInv, ChecksAreSound, Granted, EndedSessionsGetNothing

LEMMA AdminAnswersLeavePages ==
  ASSUME SessionsInv, NEW r \in checks, r.what \notin {"me", "api"}, NEW answer,
         Answered(r, answer)
  PROVE  checks' = checks \ {r} /\ page' = page
<1>1. r.by \in Browsers /\ page \in [Browsers -> Pages]
  BY DEF SessionsInv, SessionsTypeOK, PendingChecks
<1>2. page' = [page EXCEPT ![r.by] = page[r.by]]
  BY DEF Answered, Takes
<1> QED
  BY <1>1, <1>2 DEF Answered

LEMMA ChangeKeeps ==
  ASSUME SessionsInv, up, NEW r \in checks, r.what \notin {"me", "api"},
         NEW users \in Tables, HasAdmin(users), users[Admin].pw = cache[Admin].pw,
         \A n \in Names : cache[n] # NoUser =>
           users[n] # NoUser /\ users[n].role = cache[n].role /\ users[n].changed = cache[n].changed,
         \A n \in Names : cache[n] # NoUser /\ ~cache[n].active => ~users[n].active,
         crossed' \in BOOLEAN, crossed => crossed', crossed' \/ HasActiveAdmin(users),
         NEW over \in SUBSET DOMAIN tokens,
         \A i \in over : users[tokens[i].sub] # NoUser /\ ~users[tokens[i].sub].active,
         \A i \in DOMAIN tokens : cache[tokens[i].sub].active =>
           users[tokens[i].sub].active \/ i \in over,
         ChangeUsers(r, users, over)
  PROVE  SessionsInv'
<1>1. /\ file' \in {file, users, NoUsers} /\ cache' \in {users, NoUsers}
      /\ known' \in {known, users} /\ ended' \in {ended, ended \cup over}
      /\ ended' = ended \/ (file' = users /\ cache' = users)
      /\ checks' \subseteq checks \ {r}
      /\ up' \in BOOLEAN /\ (up' => cache' = users) /\ (~up' => cache' = NoUsers /\ checks' = {})
      /\ (up' /\ file' # NoUsers) => file' \in {file, users}
      /\ shaky' \in BOOLEAN /\ (shaky => shaky')
      /\ ~shaky' => /\ up' /\ file' = users /\ known' = users /\ cache' = users
                    /\ ended' = ended \cup over
      /\ UNCHANGED <<now, password, tokens, revoked, cookie, lost, refusedLive, page>>
  <2>1. UNCHANGED <<now, password, tokens, revoked, cookie, lost, refusedLive>>
    BY DEF ChangeUsers, Granted
  <2>2. shaky \in BOOLEAN
    BY DEF SessionsInv, SessionsTypeOK
  <2>3. CASE Saved(users) /\ Answered(r, "ok") /\ ended' = ended \cup over
    BY <2>1, <2>2, <2>3, AdminAnswersLeavePages DEF Saved
  <2>4. CASE SaveFails(users) /\ Answered(r, "500") /\ UNCHANGED ended
    BY <2>1, <2>2, <2>4, AdminAnswersLeavePages DEF SaveFails
  <2>5. CASE SaveInterrupted(users) /\ UNCHANGED <<page, ended>>
    BY <2>1, <2>2, <2>5 DEF SaveInterrupted, Stops
  <2> QED
    BY <2>3, <2>4, <2>5 DEF ChangeUsers
<1>2. users # NoUsers /\ users[Admin].role = "admin" /\ users[Admin] # NoUser
  BY HasAdminIsNotEmpty DEF HasAdmin
<1>3. /\ cache # NoUsers /\ cache[Admin].pw = password /\ cache[Admin] # NoUser
      /\ ~shaky => file = known /\ cache = known
      /\ users[Admin].changed = cache[Admin].changed /\ known # NoUsers
  BY HasAdminIsNotEmpty, NoUserIsNone
     DEF SessionsInv, ServerIsUpToDate, TablesHaveAdmin, HasAdmin
<1>4. SessionsTypeOK'
  BY <1>1, NoUserIsNone DEF SessionsInv, SessionsTypeOK
<1>5. TablesHaveAdmin'
  <2>1. \A table : HasAdmin(table) => HasAdmin(table)'
    BY <1>1 DEF HasAdmin
  <2>2. \A table : HasActiveAdmin(table) => HasActiveAdmin(table)'
    BY DEF HasActiveAdmin
  <2> QED
    BY <1>1, <1>2, <2>1, <2>2 DEF SessionsInv, TablesHaveAdmin
<1>6. ServerIsUpToDate'
  BY <1>1, <1>2, <1>3 DEF SessionsInv, ServerIsUpToDate
<1>7. TokensAreOfTheirTime'
  <2>1. \A table : FormerTokens(table) => FormerTokens(table)'
    BY <1>1 DEF FormerTokens, TokensOf
  <2>2. FormerTokens(users)
    BY <1>3 DEF SessionsInv, TokensAreOfTheirTime, FormerTokens
  <2>3. \A i \in TokensOf(Admin)' :
          (file # NoUsers /\ file[Admin].pw # password)' => (tokens[i].pw # password)'
    BY <1>1, <1>3 DEF SessionsInv, TokensAreOfTheirTime, TokensOf
  <2> QED
    BY <1>1, <2>1, <2>2, <2>3 DEF SessionsInv, TokensAreOfTheirTime, TokensOf
<1>8. EndedAreRefused'
  <2>1. \A table : \A i : Refused(i, table) => Refused(i, table)'
    BY <1>1 DEF Refused, Expired
  <2>2. ASSUME ~lost, NEW i \in ended PROVE Refused(i, users)
    <3>1. Refused(i, cache) /\ tokens[i].sub \in Names
      BY <1>3, <2>2, TokenTypes DEF SessionsInv, SessionsTypeOK, EndedAreRefused
    <3> QED
      BY <1>3, <3>1 DEF Refused
  <2>3. ASSUME NEW i \in over PROVE Refused(i, users)
    BY <2>3 DEF Refused
  <2> QED
    BY <1>1, <2>1, <2>2, <2>3 DEF SessionsInv, EndedAreRefused
<1>9. RefusedHaveEnded'
  <2>1. revoked' \subseteq ended'
    BY <1>1 DEF SessionsInv, RefusedHaveEnded
  <2>2. ASSUME ~shaky', NEW i \in DOMAIN tokens
        PROVE  users[tokens[i].sub] # NoUser /\ (users[tokens[i].sub].active \/ i \in ended')
    BY <1>1, <1>3, <2>2, TokenTypes DEF SessionsInv, RefusedHaveEnded
  <2>3. ASSUME ~shaky', NEW i \in TokensOf(Admin)
        PROVE  i \in ended' \/ (tokens[i].pw = users[Admin].pw
                                 /\ tokens[i].iat >= users[Admin].changed \div 2)
    BY <1>1, <1>3, <2>3 DEF SessionsInv, RefusedHaveEnded
  <2> QED
    BY <1>1, <2>1, <2>2, <2>3 DEF RefusedHaveEnded, TokensOf
<1>10. ChecksAreSound'
  <2>1. ASSUME NEW q \in checks', q.what \notin {"me", "api"}
        PROVE  cache'[tokens[q.token].sub].role = "admin"
    <3>1. /\ cache' = users /\ q \in checks /\ tokens[q.token].sub \in Names
          /\ cache[tokens[q.token].sub].role = "admin"
      BY <1>1, <2>1, TokenTypes DEF SessionsInv, ChecksAreSound, Role
    <3> QED
      BY <3>1, NoUserIsNone
  <2> QED
    BY <1>1, <2>1 DEF SessionsInv, ChecksAreSound, Role
<1>11. PagesFollowCookies'
  <2> SUFFICES ASSUME NEW b \in Browsers, ~shaky', page[b].screen = "app", ~page[b].raced,
                      ~page[b].again
               PROVE  page[b].menu = (known'[page[b].user].role = "admin")
    BY <1>1 DEF SessionsInv, PagesFollowCookies
  <2>1. /\ ~shaky /\ cookie[b] # 0 /\ page[b].user = tokens[cookie[b]].sub
        /\ page[b].menu = (known[page[b].user].role = "admin")
    BY <1>1 DEF SessionsInv, PagesFollowCookies
  <2>2. cookie[b] \in DOMAIN tokens /\ page[b].user \in Names
    BY <2>1, TokenTypes DEF SessionsInv, SessionsTypeOK
  <2>3. known[page[b].user] # NoUser
    BY <1>3, <2>1, <2>2 DEF SessionsInv, RefusedHaveEnded
  <2> QED
    BY <1>1, <1>3, <2>1, <2>2, <2>3
<1>12. EndedSessionsGetNothing'
  BY GrantedIsAlive DEF ChangeUsers
<1> QED
  BY <1>1, <1>4, <1>5, <1>6, <1>7, <1>8, <1>9, <1>10, <1>11, <1>12
     DEF SessionsInv, OtherSessionsGoOn

LEMMA CreateKeeps ==
  ASSUME SessionsInv, NEW r \in checks, r.what \in {"admin", "user"}, CanCreate(r.on),
         UNCHANGED crossed,
         ChangeUsers(r, [cache EXCEPT ![r.on] =
                           [role |-> r.what, active |-> TRUE, pw |-> 0, changed |-> 0]], {})
  PROVE  SessionsInv'
<1> DEFINE new == [role |-> r.what, active |-> TRUE, pw |-> 0, changed |-> 0]
<1>0. PICK users : users = [cache EXCEPT ![r.on] = new]
  OBVIOUS
<1>1. /\ up /\ cache \in Tables /\ cache # NoUsers /\ r.on \in Names /\ crossed \in BOOLEAN
      /\ HasAdmin(cache) /\ (crossed \/ HasActiveAdmin(cache))
  BY DEF SessionsInv, SessionsTypeOK, ServerIsUpToDate, TablesHaveAdmin, ChecksAreSound
<1>2. cache[r.on] = NoUser /\ cache[Admin].role = "admin" /\ r.on # Admin
  BY <1>1, HasAdminIsNotEmpty DEF CanCreate, Exists, HasAdmin
<1>3. new \in Users /\ new # NoUser /\ new.changed = 0
  BY NoUserIsNone DEF Users
<1> HIDE DEF new
<1>4. /\ users \in Tables /\ users[r.on] = new
      /\ \A n \in Names : n # r.on => users[n] = cache[n]
  BY <1>0, <1>1, <1>3 DEF Tables
<1>5. users[Admin] = cache[Admin]
  BY <1>2, <1>4, NoUserIsNone
<1>6. HasAdmin(users)
  BY <1>1, <1>3, <1>4, <1>5 DEF HasAdmin, Names
<1>7. crossed \/ HasActiveAdmin(users)
  BY <1>1, <1>2, <1>4, NoUserIsNone DEF HasActiveAdmin
<1>8. \A i \in DOMAIN tokens : cache[tokens[i].sub].active => users[tokens[i].sub].active
  BY <1>2, <1>4, NoUserIsNone, TokenTypes DEF SessionsInv
<1>9. ChangeUsers(r, users, {})
  BY <1>0 DEF new
<1> QED
  BY <1>1, <1>2, <1>4, <1>5, <1>6, <1>7, <1>8, <1>9, ChangeKeeps

LEMMA DeactivateKeeps ==
  ASSUME SessionsInv, NEW r \in checks, r.what = "deactivate", CanDeactivate(r),
         crossed' = (crossed \/ ~cache[tokens[r.token].sub].active),
         ChangeUsers(r, [cache EXCEPT ![r.on].active = FALSE], TokensOf(r.on))
  PROVE  SessionsInv'
<1> DEFINE off == [cache[r.on] EXCEPT !.active = FALSE]
<1>0. PICK users : users = [cache EXCEPT ![r.on] = off]
  OBVIOUS
<1>1. /\ up /\ cache \in Tables /\ cache # NoUsers /\ r.on \in Names /\ crossed \in BOOLEAN
      /\ HasAdmin(cache)
      /\ r.token \in DOMAIN tokens /\ cache[tokens[r.token].sub].role = "admin"
  BY DEF SessionsInv, SessionsTypeOK, ServerIsUpToDate, TablesHaveAdmin, ChecksAreSound, Role
<1>2. cache[r.on] \in Users /\ r.on # tokens[r.token].sub /\ tokens[r.token].sub \in Names
  BY <1>1, TokenTypes DEF CanDeactivate, Exists, Tables, SessionsInv
<1>3. /\ off \in Users /\ off # NoUser /\ off.active = FALSE /\ off.role = cache[r.on].role
      /\ off.changed = cache[r.on].changed /\ off.pw = cache[r.on].pw
  BY <1>2, NoUserIsNone DEF Users
<1> HIDE DEF off
<1>4. /\ users \in Tables /\ users[r.on] = off
      /\ \A n \in Names : n # r.on => users[n] = cache[n]
  BY <1>0, <1>1, <1>3 DEF Tables
<1>5. \A n \in Names : /\ users[n].role = cache[n].role /\ users[n].changed = cache[n].changed
                       /\ users[n].pw = cache[n].pw /\ (cache[n] # NoUser => users[n] # NoUser)
  BY <1>3, <1>4
<1>6. HasAdmin(users)
  BY <1>1, <1>5, NoUserIsNone DEF HasAdmin, Names
<1>7. crossed' \in BOOLEAN /\ (crossed => crossed') /\ (crossed' \/ HasActiveAdmin(users))
  BY <1>1, <1>2, <1>4 DEF HasActiveAdmin
<1>8. \A n \in Names : cache[n] # NoUser /\ ~cache[n].active => ~users[n].active
  BY <1>3, <1>4
<1>9. \A i \in DOMAIN tokens :
        cache[tokens[i].sub].active => users[tokens[i].sub].active \/ i \in TokensOf(r.on)
  BY <1>4, TokenTypes DEF SessionsInv, TokensOf
<1>10. \A i \in TokensOf(r.on) :
         i \in DOMAIN tokens /\ users[tokens[i].sub] # NoUser /\ ~users[tokens[i].sub].active
  BY <1>3, <1>4 DEF TokensOf
<1>11. ChangeUsers(r, users, TokensOf(r.on))
  BY <1>0 DEF off
<1>12. users[Admin].pw = cache[Admin].pw
  BY <1>5, NoUserIsNone
<1>13. TokensOf(r.on) \in SUBSET DOMAIN tokens
  BY DEF TokensOf
<1> QED
  BY <1>1, <1>5, <1>4, <1>6, <1>7, <1>8, <1>9, <1>10, <1>11, <1>12, <1>13, ChangeKeeps

-----------------------------------------------------------------------------
(***************************************************************************)
(* Pages.                                                                  *)
(***************************************************************************)
LEMMA ShownPage ==
  ASSUME NEW p \in Pages, NEW n \in Names
  PROVE  /\ ShowsApp(p, n) \in Pages /\ ShowsApp(p, n).screen = "app"
         /\ ShowsApp(p, n).user = n /\ ShowsApp(p, n).raced = p.raced
         /\ ShowsApp(p, n).check = p.check
         /\ ~ShowsApp(p, n).again => (ShowsApp(p, n).menu = (Role(n) = "admin"))
<1> DEFINE admin == p.menu \/ Role(n) = "admin"
           more == p.again \/ p.user # Nobody \/ p.menu
           shown(m, a) == [p EXCEPT !.screen = "app", !.user = n, !.menu = m, !.again = a]
<1>1. ShowsApp(p, n) = shown(admin, more)
  BY DEF ShowsApp
<1>2. admin \in BOOLEAN /\ more \in BOOLEAN /\ (~more => admin = (Role(n) = "admin"))
  BY DEF Pages
<1>3. \A m, a \in BOOLEAN :
        /\ shown(m, a) \in Pages /\ shown(m, a).screen = "app" /\ shown(m, a).user = n
        /\ shown(m, a).raced = p.raced /\ shown(m, a).check = p.check
        /\ shown(m, a).menu = m /\ shown(m, a).again = a
  BY DEF Pages
<1> HIDE DEF admin, more, shown
<1> QED
  BY <1>1, <1>2, <1>3

\* A page is of the session that its cookie names.
OfItsCookie(b, p) ==
  p.screen = "app" /\ ~p.raced /\ ~p.again =>
    /\ cookie[b] # 0 /\ p.user = tokens[cookie[b]].sub
    /\ shaky \/ p.menu = (known[p.user].role = "admin")

LEMMA TakenPage ==
  ASSUME SessionsInv, up, NEW b \in Browsers, NEW what, NEW i, NEW answer,
         Takes(b, what, i, answer), i = 0 => answer # "ok", i # 0 => i \in DOMAIN tokens,
         page[b].raced \/ i = cookie[b]
  PROVE  /\ page' \in [Browsers -> Pages]
         /\ \A c \in Browsers : page'[c].raced = page[c].raced /\ OfItsCookie(c, page'[c])
<1>1. page \in [Browsers -> Pages] /\ page[b] \in Pages
  BY DEF SessionsInv, SessionsTypeOK
<1>2. \A c \in Browsers : OfItsCookie(c, page[c])
  BY DEF SessionsInv, PagesFollowCookies, OfItsCookie
<1>3. \E p \in Pages : /\ page' = [page EXCEPT ![b] = p] /\ p.raced = page[b].raced
                       /\ OfItsCookie(b, p)
  <2>1. CASE what = "me" /\ answer = "ok"
    <3> DEFINE checked == [page[b] EXCEPT !.check = "done"]
    <3>1. checked \in Pages /\ checked.raced = page[b].raced
      BY <1>1 DEF Pages
    <3>2. i # 0 /\ i \in DOMAIN tokens /\ tokens[i].sub \in Names
      BY <2>1, TokenTypes DEF SessionsInv
    <3>3. page' = [page EXCEPT ![b] = ShowsApp(checked, tokens[i].sub)]
      BY <2>1 DEF Takes, CheckPasses
    <3> HIDE DEF checked
    <3>4. OfItsCookie(b, ShowsApp(checked, tokens[i].sub))
      <4>1. shaky \/ cache = known
        BY DEF SessionsInv, ServerIsUpToDate
      <4> QED
        BY <3>1, <3>2, <4>1, ShownPage DEF OfItsCookie, Role
    <3> QED
      BY <3>1, <3>2, <3>3, <3>4, ShownPage
  <2>2. CASE what = "me" /\ answer # "ok"
    <3> DEFINE p == [page[b] EXCEPT !.screen = "auth", !.check = "done"]
    <3>1. p \in Pages /\ p.raced = page[b].raced /\ p.screen = "auth"
      BY <1>1 DEF Pages
    <3>2. page' = [page EXCEPT ![b] = p]
      BY <2>2 DEF Takes, CheckFails
    <3> QED
      BY <3>1, <3>2 DEF OfItsCookie
  <2>3. CASE what = "api" /\ answer = "401"
    <3> DEFINE p == [page[b] EXCEPT !.screen = "auth", !.user = Nobody]
    <3>1. p \in Pages /\ p.raced = page[b].raced /\ p.screen = "auth"
      BY <1>1 DEF Pages
    <3>2. page' = [page EXCEPT ![b] = p]
      BY <2>3 DEF Takes, SessionExpired
    <3> QED
      BY <3>1, <3>2 DEF OfItsCookie
  <2>4. CASE what # "me" /\ ~(what = "api" /\ answer = "401")
    BY <1>1, <1>2, <2>4 DEF Takes
  <2> QED
    BY <2>1, <2>2, <2>3, <2>4
<1> QED
  BY <1>1, <1>2, <1>3

\* An answer that changes the page alone.
LEMMA AnswerKeeps ==
  ASSUME SessionsInv, NEW r \in checks, NEW answer, Answered(r, answer),
         UNCHANGED <<now, up, password, file, cache, known, shaky, tokens, revoked, cookie,
                     ended, lost, crossed>>,
         EndedSessionsGetNothing', OtherSessionsGoOn'
  PROVE  SessionsInv'
<1>1. /\ up /\ checks' = checks \ {r} /\ r.by \in Browsers /\ r.token \in DOMAIN tokens
      /\ Takes(r.by, r.what, r.token, answer)
      /\ page[r.by].raced \/ r.token = cookie[r.by]
  BY DEF SessionsInv, SessionsTypeOK, PendingChecks, ServerIsUpToDate, ChecksAreSound,
         PagesFollowCookies, Answered
<1>2. r.token # 0
  BY <1>1, LenProperties DEF SessionsInv, SessionsTypeOK
<1>3. /\ page' \in [Browsers -> Pages]
      /\ \A c \in Browsers : page'[c].raced = page[c].raced /\ OfItsCookie(c, page'[c])
  BY <1>1, <1>2, TakenPage
<1>4. SessionsTypeOK'
  BY <1>1, <1>3 DEF SessionsInv, SessionsTypeOK
<1>5. TablesHaveAdmin' /\ ServerIsUpToDate' /\ TokensAreOfTheirTime'
  BY <1>1 DEF SessionsInv, TablesHaveAdmin, HasAdmin, HasActiveAdmin, ServerIsUpToDate,
              TokensAreOfTheirTime, FormerTokens, TokensOf
<1>6. EndedAreRefused' /\ RefusedHaveEnded'
  BY DEF SessionsInv, EndedAreRefused, Refused, Expired, RefusedHaveEnded, TokensOf
<1>7. ChecksAreSound'
  BY <1>1 DEF SessionsInv, ChecksAreSound, Role
<1>8. PagesFollowCookies'
  BY <1>1, <1>3 DEF SessionsInv, PagesFollowCookies, OfItsCookie
<1> QED
  BY <1>4, <1>5, <1>6, <1>7, <1>8 DEF SessionsInv

LEMMA AnswersKeep ==
  ASSUME SessionsInv, NEW r \in checks,
         Refuse(r) \/ Serve(r) \/ CreateUser(r) \/ DeactivateUser(r)
  PROVE  SessionsInv'
<1>1. CASE Refuse(r)
  <2>1. /\ UNCHANGED <<now, up, password, file, cache, known, shaky, tokens, revoked, cookie,
                       ended, lost, crossed, servedDead>>
        /\ \E answer : Answered(r, answer)
    BY <1>1 DEF Refuse, userVars
  <2>2. refusedLive' = refusedLive
    BY <1>1 DEF Refuse, SessionsInv, RefusedHaveEnded
  <2> QED
    BY <2>1, <2>2, AnswerKeeps DEF SessionsInv, EndedSessionsGetNothing, OtherSessionsGoOn
<1>2. ASSUME Granted(r), NEW answer, Answered(r, answer),
             UNCHANGED <<up, faults, userVars, ended, crossed>>
      PROVE  SessionsInv'
  <2>1. /\ UNCHANGED <<now, up, password, file, cache, known, shaky, tokens, revoked, cookie,
                       ended, lost, crossed, refusedLive>>
    BY <1>2 DEF Granted, userVars
  <2>2. EndedSessionsGetNothing' /\ OtherSessionsGoOn'
    BY <1>2, <2>1, GrantedIsAlive DEF SessionsInv, OtherSessionsGoOn
  <2> QED
    BY <1>2, <2>1, <2>2, AnswerKeeps
<1>3. CASE Serve(r)
  BY <1>2, <1>3 DEF Serve
<1>4. CASE CreateUser(r)
  BY <1>2, <1>4, CreateKeeps DEF CreateUser
<1>5. CASE DeactivateUser(r)
  BY <1>2, <1>5, DeactivateKeeps DEF DeactivateUser
<1> QED
  BY <1>1, <1>3, <1>4, <1>5

\* A step of a page that leaves users and tokens alone and may give up requests.
LEMMA PageStepKeeps ==
  ASSUME SessionsInv, NEW b \in Browsers, NEW p \in Pages, page' = [page EXCEPT ![b] = p],
         p.screen = "auth", checks' \subseteq checks,
         p.raced = page[b].raced \/ \A r \in checks' : r.by # b,
         cookie' \in {cookie, [cookie EXCEPT ![b] = 0]},
         cookie'[b] = cookie[b] \/ \A r \in checks' : r.by # b,
         UNCHANGED <<now, up, password, file, cache, known, shaky, tokens, lost, crossed,
                     servedDead, refusedLive>>,
         NEW out \in SUBSET DOMAIN tokens,
         revoked' = revoked \cup out, ended' = ended \cup out
  PROVE  SessionsInv'
<1>1. /\ page \in [Browsers -> Pages] /\ page'[b] = p
      /\ \A c \in Browsers : c # b => page'[c] = page[c]
      /\ cookie' \in [Browsers -> {0} \cup DOMAIN tokens]
      /\ \A c \in Browsers : c # b => cookie'[c] = cookie[c]
  BY DEF SessionsInv, SessionsTypeOK
<1>2. SessionsTypeOK'
  BY <1>1 DEF SessionsInv, SessionsTypeOK
<1>3. TablesHaveAdmin' /\ TokensAreOfTheirTime'
  BY DEF SessionsInv, TablesHaveAdmin, HasAdmin, HasActiveAdmin, TokensAreOfTheirTime,
         FormerTokens, TokensOf
<1>4. ServerIsUpToDate'
  BY DEF SessionsInv, ServerIsUpToDate
<1>5. EndedAreRefused'
  <2>1. \A users : \A i : Refused(i, users) => Refused(i, users)'
    BY DEF Refused, Expired
  <2>2. \A users : \A i \in out : Refused(i, users)'
    BY DEF Refused
  <2> QED
    BY <2>1, <2>2 DEF SessionsInv, EndedAreRefused
<1>6. RefusedHaveEnded'
  BY DEF SessionsInv, RefusedHaveEnded, TokensOf
<1>7. ChecksAreSound'
  BY DEF SessionsInv, ChecksAreSound, Role
<1>8. PagesFollowCookies'
  <2> SUFFICES ASSUME NEW c \in Browsers
               PROVE  /\ page'[c].raced \/ \A r \in checks' : r.by = c => r.token = cookie'[c]
                      /\ page'[c].screen = "app" /\ ~page'[c].raced /\ ~page'[c].again =>
                           /\ cookie'[c] # 0 /\ page'[c].user = tokens[cookie'[c]].sub
                           /\ shaky \/ page'[c].menu = (known[page'[c].user].role = "admin")
    BY DEF PagesFollowCookies
  <2>1. CASE c = b
    BY <1>1, <2>1 DEF SessionsInv, PagesFollowCookies
  <2>2. CASE c # b
    BY <1>1, <2>2 DEF SessionsInv, PagesFollowCookies
  <2> QED
    BY <2>1, <2>2
<1> QED
  BY <1>2, <1>3, <1>4, <1>5, <1>6, <1>7, <1>8
     DEF SessionsInv, EndedSessionsGetNothing, OtherSessionsGoOn

LEMMA NewPageIsOne == NewPage \in Pages /\ NewPage.screen = "auth"
BY DEF NewPage, Pages

LEMMA ReloadKeeps ==
  ASSUME SessionsInv, NEW b \in Browsers, Reload(b)
  PROVE  SessionsInv'
<1>1. /\ page' = [page EXCEPT ![b] = NewPage] /\ checks' \subseteq checks
      /\ \A r \in checks' : r.by # b
      /\ UNCHANGED <<now, up, password, file, cache, known, shaky, tokens, lost, crossed,
                     servedDead, refusedLive, cookie>>
      /\ revoked' = revoked \cup {} /\ ended' = ended \cup {}
  BY DEF Reload, userVars, answerVars
<1> QED
  BY <1>1, NewPageIsOne, PageStepKeeps

LEMMA CheckTimesOutKeeps ==
  ASSUME SessionsInv, NEW b \in Browsers, CheckTimesOut(b)
  PROVE  SessionsInv'
<1> DEFINE p == [page[b] EXCEPT !.screen = "auth", !.check = "done"]
<1>1. /\ page' = [page EXCEPT ![b] = p] /\ checks' \subseteq checks
      /\ UNCHANGED <<now, up, password, file, cache, known, shaky, tokens, lost, crossed,
                     servedDead, refusedLive, cookie>>
      /\ revoked' = revoked \cup {} /\ ended' = ended \cup {}
  BY DEF CheckTimesOut, CheckFails, userVars, answerVars
<1>2. p \in Pages /\ p.screen = "auth" /\ p.raced = page[b].raced
  BY DEF SessionsInv, SessionsTypeOK, Pages
<1> HIDE DEF p
<1> QED
  BY <1>1, <1>2, PageStepKeeps

LEMMA SignOutKeeps ==
  ASSUME SessionsInv, NEW b \in Browsers, SignOut(b)
  PROVE  SessionsInv'
<1>1. /\ page' = [page EXCEPT ![b] = NewPage] /\ checks' \subseteq checks
      /\ \A r \in checks' : r.by # b
      /\ cookie' \in {cookie, [cookie EXCEPT ![b] = 0]}
      /\ UNCHANGED <<now, up, password, file, cache, known, shaky, tokens, lost, crossed,
                     servedDead, refusedLive>>
  BY DEF SignOut, userVars, answerVars
<1>2. cookie[b] \in DOMAIN tokens
  BY DEF SignOut, SessionsInv, SessionsTypeOK
<1>3. \E out \in SUBSET DOMAIN tokens : revoked' = revoked \cup out /\ ended' = ended \cup out
  <2>1. CASE UNCHANGED <<revoked, ended>>
    <3>1. revoked' = revoked \cup {} /\ ended' = ended \cup {}
      BY <2>1
    <3> QED
      BY <3>1
  <2>2. CASE revoked' = revoked \cup SignedOut(cookie[b]) /\ ended' = ended \cup {cookie[b]}
    BY <1>2, <2>2 DEF SignedOut
  <2> QED
    BY <2>1, <2>2 DEF SignOut
<1> QED
  BY <1>1, <1>3, NewPageIsOne, PageStepKeeps

LEMMA SubmitAuthKeeps ==
  ASSUME SessionsInv, NEW b \in Browsers, NEW n \in Names, SubmitAuth(b, n)
  PROVE  SessionsInv'
<1> DEFINE raced == page[b].check # "done" \/ \E r \in checks : r.by = b
           shown == ShowsApp(page[b], n)
           token == IssuedTo(n)
           k == Len(tokens) + 1
<1>1. /\ up /\ cache[n].active /\ tokens' = Append(tokens, token)
      /\ cookie' = [cookie EXCEPT ![b] = k]
      /\ page' = [page EXCEPT ![b] = [shown EXCEPT !.raced = raced]]
      /\ UNCHANGED <<now, up, password, file, cache, known, shaky, revoked, checks, ended, lost,
                     crossed, servedDead, refusedLive>>
  BY DEF SubmitAuth, userVars, answerVars
<1>2. /\ cache \in Tables /\ HasAdmin(cache) /\ cache[Admin].pw = password /\ known # NoUsers
      /\ (~shaky => known = cache) /\ now \in Nat /\ password \in {1, 2}
      /\ (file # NoUsers => file[Admin].pw = password)
  BY <1>1 DEF SessionsInv, SessionsTypeOK, TablesHaveAdmin, ServerIsUpToDate
<1>3. cache[n] \in Users /\ cache[n] # NoUser /\ cache[n].pw \in 0 .. 2 /\ cache[n].changed \in Nat
  BY <1>1, <1>2, NoUserIsNone DEF Tables, Users
<1>4. /\ now \div 2 \in Nat /\ 2 * (now \div 2) <= now
      /\ now \div 2 + TokenLife \in Nat
  BY <1>2, Halves, SessionsAssumption
<1>5. /\ token \in Tokens /\ token.sub = n /\ token.iat = now \div 2 /\ token.pw = cache[n].pw
  <2> DEFINE issued(iat, exp) == [sub |-> n, iat |-> iat, exp |-> exp, pw |-> cache[n].pw]
  <2>1. \A iat, exp \in Nat : issued(iat, exp) \in Tokens
    BY <1>3 DEF Tokens
  <2>2. token = issued(now \div 2, now \div 2 + TokenLife)
    BY DEF IssuedTo, Second
  <2> QED
    BY <1>4, <2>1, <2>2
<1> HIDE DEF token
<1>6. /\ tokens \in Seq(Tokens) /\ tokens' \in Seq(Tokens) /\ DOMAIN tokens = 1 .. Len(tokens)
      /\ k \in Nat /\ k # 0 /\ k \notin DOMAIN tokens /\ DOMAIN tokens' = DOMAIN tokens \cup {k}
      /\ tokens'[k] = token /\ \A i \in DOMAIN tokens : tokens'[i] = tokens[i]
  <2>1. tokens \in Seq(Tokens)
    BY DEF SessionsInv, SessionsTypeOK
  <2>2. /\ tokens' \in Seq(Tokens) /\ Len(tokens') = Len(tokens) + 1 /\ Len(tokens) \in Nat
        /\ tokens'[Len(tokens) + 1] = token
        /\ \A i \in 1 .. Len(tokens) : tokens'[i] = tokens[i]
    BY <1>1, <1>5, <2>1, AppendProperties, LenProperties
  <2>3. DOMAIN tokens = 1 .. Len(tokens) /\ DOMAIN tokens' = 1 .. Len(tokens')
    BY <2>1, <2>2, LenProperties
  <2> QED
    BY <2>1, <2>2, <2>3
<1> HIDE DEF k
<1>7. /\ page \in [Browsers -> Pages] /\ page[b] \in Pages
      /\ cookie \in [Browsers -> {0} \cup DOMAIN tokens]
  BY DEF SessionsInv, SessionsTypeOK
<1>8. \E p \in Pages : /\ page' = [page EXCEPT ![b] = p] /\ p.raced = raced /\ p.user = n
                       /\ (~p.again => p.menu = (Role(n) = "admin"))
  <2>1. /\ shown \in Pages /\ shown.user = n
        /\ (~shown.again => shown.menu = (Role(n) = "admin"))
    BY <1>7, ShownPage
  <2>2. raced \in BOOLEAN
    OBVIOUS
  <2> HIDE DEF raced, shown
  <2>3. [shown EXCEPT !.raced = raced] \in Pages
    BY <2>1, <2>2 DEF Pages
  <2>4. /\ [shown EXCEPT !.raced = raced].user = n
        /\ [shown EXCEPT !.raced = raced].raced = raced
        /\ [shown EXCEPT !.raced = raced].again = shown.again
        /\ [shown EXCEPT !.raced = raced].menu = shown.menu
    BY <2>1 DEF Pages
  <2> QED
    BY <1>1, <2>1, <2>3, <2>4
<1>9. PICK p \in Pages : /\ page' = [page EXCEPT ![b] = p] /\ p.raced = raced /\ p.user = n
                         /\ (~p.again => p.menu = (Role(n) = "admin"))
  BY <1>8
<1>10. SessionsTypeOK'
  BY <1>1, <1>6, <1>7, <1>9 DEF SessionsInv, SessionsTypeOK
<1>11. TablesHaveAdmin'
  BY <1>1 DEF SessionsInv, TablesHaveAdmin, HasAdmin, HasActiveAdmin
<1>12. ServerIsUpToDate'
  BY <1>1, <1>2 DEF SessionsInv, ServerIsUpToDate
<1>13. TokensAreOfTheirTime'
  <2>1. \A i \in DOMAIN tokens' : 2 * tokens'[i].iat <= now
    BY <1>4, <1>5, <1>6 DEF SessionsInv, TokensAreOfTheirTime
  <2>2. \A i \in TokensOf(Admin)' : i \in TokensOf(Admin) \/ (i = k /\ n = Admin)
    BY <1>5, <1>6 DEF TokensOf
  <2>3. \A i \in TokensOf(Admin) : i \in DOMAIN tokens /\ tokens'[i] = tokens[i]
    BY <1>6 DEF TokensOf
  <2>4. n = Admin => tokens'[k].pw = password
    BY <1>2, <1>5, <1>6
  <2>5. \A i \in TokensOf(Admin)' :
          /\ tokens'[i].pw \in 1 .. password
          /\ tokens'[i].pw # password => 2 * tokens'[i].iat < now
          /\ file # NoUsers /\ file[Admin].pw # password => tokens'[i].pw # password
    BY <1>2, <2>2, <2>3, <2>4 DEF SessionsInv, TokensAreOfTheirTime
  <2>6. \A users \in {file, cache} : users = NoUsers \/ FormerTokens(users)'
    BY <1>2, <2>2, <2>3, <2>4 DEF SessionsInv, TokensAreOfTheirTime, FormerTokens
  <2> QED
    BY <1>1, <2>1, <2>5, <2>6 DEF TokensAreOfTheirTime
<1>14. EndedAreRefused'
  <2>1. \A i \in ended : i \in DOMAIN tokens
    BY DEF SessionsInv, SessionsTypeOK
  <2>2. \A users : \A i \in ended : Refused(i, users) => Refused(i, users)'
    BY <1>1, <1>6, <2>1 DEF Refused, Expired
  <2> QED
    BY <1>1, <2>2 DEF SessionsInv, EndedAreRefused
<1>15. RefusedHaveEnded'
  <2>1. ASSUME ~shaky, NEW i \in DOMAIN tokens'
        PROVE  /\ known[tokens'[i].sub] # NoUser
               /\ known[tokens'[i].sub].active \/ i \in ended
    BY <1>1, <1>2, <1>3, <1>5, <1>6, <2>1 DEF SessionsInv, RefusedHaveEnded
  <2>2. ASSUME ~shaky, NEW i \in TokensOf(Admin)'
        PROVE  i \in ended \/ (tokens'[i].pw = known[Admin].pw
                                /\ tokens'[i].iat >= known[Admin].changed \div 2)
    <3>1. CASE i \in DOMAIN tokens
      BY <1>2, <1>6, <2>2, <3>1 DEF SessionsInv, RefusedHaveEnded, TokensOf
    <3>2. CASE i = k
      <4>1. n = Admin
        BY <1>5, <1>6, <2>2, <3>2 DEF TokensOf
      <4>2. cache[Admin].changed \in Nat /\ cache[Admin].changed <= now
        BY <1>2, <1>3, <4>1 DEF HasAdmin
      <4>3. cache[Admin].changed \div 2 <= now \div 2
        BY <1>2, <4>2, HalvesGrow
      <4>4. cache[Admin].changed \div 2 \in Nat
        BY <4>2, Halves
      <4> QED
        BY <1>2, <1>4, <1>5, <1>6, <2>2, <3>2, <4>1, <4>3, <4>4
    <3> QED
      BY <1>6, <2>2, <3>1, <3>2 DEF TokensOf
  <2> QED
    BY <1>1, <2>1, <2>2 DEF SessionsInv, RefusedHaveEnded
<1>16. ChecksAreSound'
  BY <1>1, <1>6 DEF SessionsInv, ChecksAreSound, Role
<1>17. PagesFollowCookies'
  <2> SUFFICES ASSUME NEW c \in Browsers
               PROVE  /\ page'[c].raced \/ \A r \in checks : r.by = c => r.token = cookie'[c]
                      /\ page'[c].screen = "app" /\ ~page'[c].raced /\ ~page'[c].again =>
                           /\ cookie'[c] # 0 /\ page'[c].user = tokens'[cookie'[c]].sub
                           /\ shaky \/ page'[c].menu = (known[page'[c].user].role = "admin")
    BY <1>1 DEF PagesFollowCookies
  <2>1. CASE c = b
    <3>1. page'[b] = p /\ cookie'[b] = k
      BY <1>1, <1>7, <1>9
    <3>2. p.raced \/ \A r \in checks : r.by # b
      BY <1>9
    <3>3. p.user = tokens'[k].sub /\ k # 0
      BY <1>5, <1>6, <1>9
    <3>4. ~p.again => shaky \/ p.menu = (known[p.user].role = "admin")
      BY <1>2, <1>9 DEF Role
    <3> QED
      BY <2>1, <3>1, <3>2, <3>3, <3>4
  <2>2. CASE c # b
    <3>1. page'[c] = page[c] /\ cookie'[c] = cookie[c]
      BY <1>1, <1>7, <1>9, <2>2
    <3>2. cookie[c] # 0 => tokens'[cookie[c]] = tokens[cookie[c]]
      BY <1>6, <1>7
    <3> QED
      BY <3>1, <3>2 DEF SessionsInv, PagesFollowCookies
  <2> QED
    BY <2>1, <2>2
<1> QED
  BY <1>1, <1>10, <1>11, <1>12, <1>13, <1>14, <1>15, <1>16, <1>17
     DEF SessionsInv, EndedSessionsGetNothing, OtherSessionsGoOn

LEMMA AskKeeps ==
  ASSUME SessionsInv, NEW b \in Browsers, NEW what \in Kinds, NEW n \in Names \cup {Nobody},
         what \in {"me", "api"} \/ n \in Names, Ask(b, what, n)
  PROVE  SessionsInv'
<1> DEFINE i == cookie[b]
           r == [by |-> b, what |-> what, on |-> n, token |-> i, at |-> now, over |-> Over(i)]
<1>1. /\ up /\ MayAsk(b, what)
      /\ UNCHANGED <<now, up, password, file, cache, known, shaky, tokens, revoked, cookie,
                     ended, lost, crossed, servedDead>>
  BY DEF Ask, userVars
<1>2. /\ cache # NoUsers /\ HasAdmin(cache) /\ now \in Nat /\ (~shaky => known = cache)
      /\ page \in [Browsers -> Pages] /\ i \in {0} \cup DOMAIN tokens
      /\ known # NoUsers
  BY <1>1 DEF SessionsInv, SessionsTypeOK, TablesHaveAdmin, ServerIsUpToDate
<1>3. TablesHaveAdmin' /\ ServerIsUpToDate' /\ TokensAreOfTheirTime'
  BY <1>1 DEF SessionsInv, TablesHaveAdmin, HasAdmin, HasActiveAdmin, ServerIsUpToDate,
              TokensAreOfTheirTime, FormerTokens, TokensOf
<1>4. EndedAreRefused' /\ RefusedHaveEnded' /\ EndedSessionsGetNothing'
  BY <1>1 DEF SessionsInv, EndedAreRefused, Refused, Expired, RefusedHaveEnded, TokensOf,
              EndedSessionsGetNothing
<1>5. CASE PassesState(i)
  <2>1. /\ checks' = checks \cup {r} /\ refusedLive' = refusedLive
        /\ page' = IF what = "me" THEN [page EXCEPT ![b].check = "asked"] ELSE page
    BY <1>5 DEF Ask
  <2>2. i \in DOMAIN tokens /\ ~Expired(i) /\ cache[tokens[i].sub].active /\ ~BeforeChange(i)
    BY <1>2, <1>5 DEF PassesState
  <2>3. /\ tokens[i].sub \in Names /\ tokens[i].exp \in Nat /\ tokens[i].iat \in Nat
        /\ now \in Nat /\ now \div 2 \in Nat /\ 2 * (now \div 2) <= now
    BY <1>2, <2>2, TokenTypes, Halves DEF SessionsInv, SessionsTypeOK
  <2>4. Over(i) => lost \/ i \in revoked
    <3> SUFFICES ASSUME Over(i), ~lost PROVE i \in revoked
      OBVIOUS
    <3>1. i \in ended
      BY <1>2, <2>2, LenProperties DEF Over, SessionsInv, SessionsTypeOK
    <3>2. Refused(i, cache)
      BY <1>2, <3>1 DEF SessionsInv, EndedAreRefused
    <3> QED
      BY <2>2, <3>2 DEF Refused, BeforeChange
  <2>5. i \in Nat /\ Over(i) \in BOOLEAN
    BY <2>2, LenProperties DEF Over, SessionsInv, SessionsTypeOK
  <2>6. /\ r \in PendingChecks /\ r.by = b /\ r.what = what /\ r.on = n /\ r.token = i /\ r.at = now
        /\ (r.over => lost \/ i \in revoked)
    <3> DEFINE asked(over) == [by |-> b, what |-> what, on |-> n, token |-> i, at |-> now,
                               over |-> over]
    <3>1. \A over \in BOOLEAN :
            /\ asked(over) \in PendingChecks /\ asked(over).by = b /\ asked(over).what = what
            /\ asked(over).on = n /\ asked(over).token = i /\ asked(over).at = now
            /\ asked(over).over = over
      BY <1>2, <2>5 DEF PendingChecks
    <3>2. r = asked(Over(i))
      OBVIOUS
    <3> HIDE DEF asked, r, i
    <3> QED
      BY <2>4, <2>5, <3>1, <3>2
  <2>7. tokens[i].exp >= now \div 2
    BY <2>2, <2>3 DEF Expired
  <2>8. what \in {"me", "api"} \/ Role(tokens[i].sub) = "admin"
    BY <1>1 DEF MayAsk
  <2> HIDE DEF r
  <2>9. /\ page' \in [Browsers -> Pages]
        /\ \A c \in Browsers :
             /\ page'[c].raced = page[c].raced /\ page'[c].again = page[c].again
             /\ page'[c].screen = page[c].screen /\ page'[c].user = page[c].user
             /\ page'[c].menu = page[c].menu
    <3>1. CASE what = "me"
      <4> DEFINE p == [page[b] EXCEPT !.check = "asked"]
      <4>1. page' = [page EXCEPT ![b] = p]
        BY <2>1, <3>1
      <4>2. /\ p \in Pages /\ p.raced = page[b].raced /\ p.again = page[b].again
            /\ p.screen = page[b].screen /\ p.user = page[b].user /\ p.menu = page[b].menu
        BY <1>2 DEF Pages
      <4> HIDE DEF p
      <4> QED
        BY <1>2, <4>1, <4>2
    <3>2. CASE what # "me"
      BY <1>2, <2>1, <3>2
    <3> QED
      BY <3>1, <3>2
  <2>10. SessionsTypeOK'
    BY <1>1, <2>1, <2>6, <2>9 DEF SessionsInv, SessionsTypeOK
  <2>11. ChecksAreSound'
    BY <1>1, <1>2, <2>1, <2>2, <2>6, <2>7, <2>8 DEF SessionsInv, ChecksAreSound, Role
  <2>12. PagesFollowCookies'
    BY <1>1, <2>1, <2>6, <2>9 DEF SessionsInv, PagesFollowCookies
  <2> QED
    BY <1>1, <1>3, <1>4, <2>1, <2>10, <2>11, <2>12 DEF SessionsInv, OtherSessionsGoOn
<1>6. CASE ~PassesState(i)
  <2>1. /\ Takes(b, what, i, "401") /\ checks' = checks
        /\ refusedLive' = IF Over(i) \/ SameSecond(i) THEN refusedLive ELSE refusedLive \cup {i}
    BY <1>6 DEF Ask
  <2>2. \A c \in Browsers : OfItsCookie(c, page[c])
    BY DEF SessionsInv, PagesFollowCookies, OfItsCookie
  <2>3. /\ page' \in [Browsers -> Pages]
        /\ \A c \in Browsers : page'[c].raced = page[c].raced /\ OfItsCookie(c, page'[c])
    BY <1>1, <1>2, <2>1, TakenPage
  <2>4. ~shaky => Over(i) \/ SameSecond(i)
    <3> SUFFICES ASSUME ~shaky, ~Over(i) PROVE SameSecond(i)
      OBVIOUS
    <3>1. i \in DOMAIN tokens /\ ~Expired(i) /\ i \notin ended
      BY <1>2 DEF Over
    <3>2. tokens[i].sub \in Names /\ tokens[i].iat \in Nat
      BY <3>1, TokenTypes DEF SessionsInv
    <3>3. cache[tokens[i].sub].active
      BY <1>2, <3>1 DEF SessionsInv, RefusedHaveEnded
    <3>4. BeforeChange(i)
      BY <1>2, <1>6, <3>1, <3>3 DEF PassesState, Over
    <3>5. tokens[i].sub = Admin
      BY <1>2, <3>2, <3>4 DEF BeforeChange, HasAdmin, Names
    <3>6. tokens[i].iat >= cache[Admin].changed \div 2
      BY <1>2, <3>1, <3>5 DEF SessionsInv, RefusedHaveEnded, TokensOf
    <3>7. cache[Admin].changed \in Nat
      BY <1>2, HasAdminIsNotEmpty, NoUserIsNone
         DEF SessionsInv, SessionsTypeOK, Tables, Users, HasAdmin
    <3>8. tokens[i].iat <= cache[Admin].changed \div 2
      BY <3>2, <3>4, <3>5, <3>7, Halves DEF BeforeChange
    <3>9. cache[Admin].changed \div 2 \in Nat
      BY <3>7, Halves
    <3> QED
      BY <3>2, <3>5, <3>6, <3>8, <3>9 DEF SameSecond
  <2>5. SessionsTypeOK'
    BY <1>1, <2>1, <2>3 DEF SessionsInv, SessionsTypeOK
  <2>6. ChecksAreSound'
    BY <1>1, <2>1 DEF SessionsInv, ChecksAreSound, Role
  <2>7. PagesFollowCookies'
    BY <1>1, <2>1, <2>3 DEF SessionsInv, PagesFollowCookies, OfItsCookie
  <2> QED
    BY <1>1, <1>3, <1>4, <2>1, <2>4, <2>5, <2>6, <2>7 DEF SessionsInv, OtherSessionsGoOn
<1> QED
  BY <1>5, <1>6

-----------------------------------------------------------------------------
(***************************************************************************)
(* The theorems.                                                           *)
(***************************************************************************)
LEMMA StutteringKeeps ==
  ASSUME SessionsInv, UNCHANGED sessionVars
  PROVE  SessionsInv'
<1>1. /\ UNCHANGED <<now, up, password, file, cache, known, shaky, tokens, revoked, checks>>
      /\ UNCHANGED <<cookie, page, ended, lost, crossed, servedDead, refusedLive>>
  BY DEF sessionVars, userVars, browserVars, answerVars
<1>2. SessionsTypeOK' /\ TablesHaveAdmin'
  BY <1>1 DEF SessionsInv, SessionsTypeOK, TablesHaveAdmin, HasAdmin, HasActiveAdmin
<1>3. ServerIsUpToDate' /\ TokensAreOfTheirTime'
  BY <1>1 DEF SessionsInv, ServerIsUpToDate, TokensAreOfTheirTime, FormerTokens, TokensOf
<1>4. EndedAreRefused' /\ RefusedHaveEnded'
  BY <1>1 DEF SessionsInv, EndedAreRefused, Refused, Expired, RefusedHaveEnded, TokensOf
<1>5. ChecksAreSound' /\ PagesFollowCookies'
  BY <1>1 DEF SessionsInv, ChecksAreSound, Role, PagesFollowCookies
<1>6. EndedSessionsGetNothing' /\ OtherSessionsGoOn'
  BY <1>1 DEF SessionsInv, EndedSessionsGetNothing, OtherSessionsGoOn
<1> QED
  BY <1>2, <1>3, <1>4, <1>5, <1>6 DEF SessionsInv

LEMMA SessionsStep == SessionsInv /\ [SessionsNext]_sessionVars => SessionsInv'
<1> SUFFICES ASSUME SessionsInv, [SessionsNext]_sessionVars PROVE SessionsInv'
  OBVIOUS
<1>1. CASE ServerNext
  BY <1>1, StartKeeps, StartFailsKeeps, CrashKeeps DEF ServerNext
<1>2. CASE TimeNext
  BY <1>2, TimeKeeps, PurgeKeeps DEF TimeNext
<1>3. CASE AnswersNext
  BY <1>3, AnswersKeep DEF AnswersNext
<1>4. ASSUME NEW b \in Browsers, PageNext(b)
      PROVE  SessionsInv'
  BY <1>4, ReloadKeeps, CheckTimesOutKeeps, SignOutKeeps, AskKeeps DEF PageNext, Kinds
<1>5. ASSUME NEW b \in Browsers, SessionRequests(b)
      PROVE  SessionsInv'
  BY <1>5, AskKeeps, SubmitAuthKeeps DEF SessionRequests, Kinds
<1>6. ASSUME NEW b \in Browsers, AdminRequests(b, {"admin", "user", "deactivate"}, Names)
      PROVE  SessionsInv'
  BY <1>6, AskKeeps DEF AdminRequests, Kinds
<1>7. CASE UNCHANGED sessionVars
  BY <1>7, StutteringKeeps
<1> QED
  BY <1>1, <1>2, <1>3, <1>4, <1>5, <1>6, <1>7 DEF SessionsNext

\* Users, tokens, the table of signed-out tokens, requests and pages fit together
\* through crashes, failed writes, restarts and purges.
THEOREM SessionsInvariance == SessionsSpec => []SessionsInv
<1>1. SessionsInit => SessionsInv
  BY EmptyInit
<1>2. SessionsInv /\ [SessionsNext]_sessionVars => SessionsInv'
  BY SessionsStep
<1> QED
  BY <1>1, <1>2, PTL DEF SessionsSpec

\* A session lasts until it is signed out, expires, or its user is deactivated or
\* gets another password, and no longer; and the page is of that session.
THEOREM SessionsEndOnce == SessionsSpec => []SessionsLastUntilEnded
<1>1. SessionsInv => SessionsLastUntilEnded
  <2> SUFFICES ASSUME SessionsInv PROVE PageIsOfOneSession
    BY DEF SessionsInv, SessionsLastUntilEnded
  <2>1. up /\ ~shaky => cache = known
    BY DEF SessionsInv, ServerIsUpToDate
  <2> QED
    BY <2>1 DEF SessionsInv, PagesFollowCookies, PageIsOfOneSession, Role
<1> QED
  BY <1>1, SessionsInvariance, PTL

\* A confirmed change of the users outlives crashes, and an active admin is always
\* left, unless two deactivated each other.
THEOREM UsersOutliveCrashes == SessionsSpec => []UsersAreKept
<1>1. SessionsInv => UsersAreKept
  BY DEF SessionsInv, ServerIsUpToDate, TablesHaveAdmin, HasActiveAdmin, Role, UsersAreKept,
         ConfirmedUsersAreKept, SomeAdminIsActive
<1> QED
  BY <1>1, SessionsInvariance, PTL

=============================================================================
