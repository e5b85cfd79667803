------------------------------ MODULE MCConsole ------------------------------
(* What surrounds a search: sessions and users, the admin page, the saved     *)
(* cases, the evidence drawer, the runner of the connectors and the budget of *)
(* the proxy.  They share no state that the modules tell apart, so that each  *)
(* is explored by itself, the others at rest.                                 *)
EXTENDS CaseBook, EvidenceDrawer, Sessions, AdminPanel, SearchForm, CaseLists,
        ConnectorRunner, ProxyBudget

CONSTANTS
  OneBrowser,   \* the browser of the scene with the clock
  ClockTime     \* bound on the time in that scene

ASSUME OneBrowserAssumption == OneBrowser \in Browsers

VARIABLE scene

MCCategories == [leaks |-> {"breach", "stealer"}, social |-> {"sherlock", "discord"}]
Log(day, user) == [ts |-> day, by |-> user]
TabSymmetry == Permutations(Tabs)
MCTargets == {<<"username", "hash">>, <<"phone", "hash">>}
MCOldLogs == {<<Log(1, "u1"), Log(2, "u1"), Log(2, "u2"), Log(2, "u1")>>}
MCReports ==
  {[status |-> "found", score |-> 130, evidence |-> 1],
   [status |-> "uncertain", score |-> 59, evidence |-> 0],
   [status |-> "blocked", score |-> -5, evidence |-> 0]}

ConsoleInit ==
  /\ CaseBookInit /\ DrawerInit /\ SessionsInit /\ PanelInit /\ FormInit /\ ListsInit
  /\ RunnerInit /\ BudgetInit
  /\ scene \in {"cases", "lists", "form", "scan", "drawer", "clock", "browsers", "admins",
               "logs", "dashboard", "users", "runner", "budget"}
  /\ scene # "cases" => stored = <<>>
  /\ scene # "scan" => engine = "legacy"

\* One browser and everything that happens to the server; two browsers whose
\* sessions end; two browsers from which users are changed.
SessionScenes ==
  \/ scene = "clock"
       /\ \/ ServerNext \/ PageNext(OneBrowser) \/ SessionRequests(OneBrowser)
          \/ now < ClockTime /\ TimeNext
          \/ AdminRequests(OneBrowser, {"deactivate", "user"}, Others)
  \/ scene = "browsers"
       /\ (Start \/ TimeNext \/ \E b \in Browsers : SignOut(b) \/ SessionRequests(b))
  \/ scene = "admins"
       /\ \/ Start
          \/ \E b \in Browsers :
               SessionRequests(b) \/ AdminRequests(b, {"deactivate", "admin"}, Names)
  \/ scene \in {"clock", "browsers", "admins"} /\ AnswersNext

ConsoleNext ==
  /\ UNCHANGED scene
  /\ IF scene \in {"form", "scan"}
     THEN (scene = "form" /\ FormNext) \/ (scene = "scan" /\ ScanNext)
     ELSE UNCHANGED <<formVars, scanVars>>
  /\ IF scene = "lists" THEN ListsNext ELSE UNCHANGED listVars
  /\ IF scene = "cases" THEN CasesNext ELSE UNCHANGED caseVars
  /\ IF scene = "drawer" THEN DrawerNext ELSE UNCHANGED drawerVars
  /\ IF scene \in {"clock", "browsers", "admins"} THEN SessionScenes ELSE UNCHANGED sessionVars
  /\ IF scene \in {"logs", "dashboard"}
     THEN (scene = "logs" /\ LogsNext) \/ (scene = "dashboard" /\ DashboardNext)
     ELSE UNCHANGED logVars
  /\ IF scene = "users" THEN UsersNext ELSE UNCHANGED accountVars
  /\ IF scene = "runner" THEN RunnerNext ELSE UNCHANGED runnerVars
  /\ IF scene = "budget" THEN BudgetNext ELSE UNCHANGED budgetVars

ConsoleSpec ==
  ConsoleInit
    /\ [][ConsoleNext]_<<scene, caseVars, drawerVars, sessionVars, logVars, accountVars,
                          formVars, scanVars, listVars, runnerVars, budgetVars>>

=============================================================================
