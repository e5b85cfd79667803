---------------------------- MODULE MCSearchReport ----------------------------
(***************************************************************************)
(* Three ways to sum up a search, each explored by itself: aggregate_results *)
(* on every short batch of results, the verdict on every check of a social   *)
(* platform, and one legacy search from its plan to its reports.             *)
(***************************************************************************)
EXTENDS LegacyReport, SearchOrchestrator

CONSTANTS
  Connectors,
  Statuses,     \* the statuses a result may have
  BatchScores,  \* the confidence scores a result may have
  MaxResults    \* bound on the length of a batch

ASSUME BatchAssumption == BatchScores \subseteq Int

VARIABLES
  scene,        \* what is explored: "batch", "check" or "search"
  results,      \* the batch
  check         \* the check of a platform

reportRunVars == <<scene, results, check, reportVars>>

-----------------------------------------------------------------------------
(* Inputs *)

Fine ==
  [fetch |-> "ok", signals |-> {}, site |-> "none", login |-> FALSE, low |-> FALSE,
   state |-> "not_found"]

States == {"confirmed", "likely", "not_found"}

\* A page that could not be fetched has no findings.
Checks ==
  [fetch : {"ok"}, signals : SUBSET GenericSignals, site : SiteFindings, login : BOOLEAN,
   low : BOOLEAN, state : States]
  \union [fetch : {"cf_challenge", "timeout", "other", "unsaid"}, signals : {{}},
          site : {"none"}, login : {FALSE}, low : BOOLEAN, state : {"not_found"}]

Confirmed ==
  [Fine EXCEPT !.signals = {"title", "canonical", "final_url", "jsonld"}, !.state = "confirmed"]
Likely == [Fine EXCEPT !.signals = {"canonical", "final_url", "title"}, !.state = "likely"]
Challenged == [Fine EXCEPT !.fetch = "cf_challenge"]
Unsure == [Fine EXCEPT !.signals = {"title"}]

MCPlatformLists ==
  {<<Fine>>, <<Confirmed, Unsure>>, <<Likely, Challenged>>, <<[Fine EXCEPT !.fetch = "unsaid"]>>}

MCManualMods ==
  {{"stealer"}, {"holehe", "sherlock"}, {"discord", "spiderfoot"}, {"discord_roblox", "steam"}}

-----------------------------------------------------------------------------
Init ==
  /\ \/ scene = "batch" /\ check = Fine
     \/ scene = "check" /\ check \in Checks
     \/ scene = "search" /\ check = Fine
  /\ results = <<>>
  /\ ReportInit
  /\ scene # "search" =>
       search = [mode |-> "automated", type |-> "phone", mods |-> {}, graphite |-> FALSE]

Answer(c, st, s) ==
  /\ Len(results) < MaxResults
  /\ results' = Append(results, [connector |-> c, status |-> st, score |-> s])

Next ==
  /\ UNCHANGED <<scene, check>>
  /\ \/ /\ scene = "batch" /\ UNCHANGED reportVars
        /\ \E c \in Connectors, st \in Statuses, s \in BatchScores : Answer(c, st, s)
     \/ scene = "search" /\ ReportNext /\ UNCHANGED results

Spec == Init /\ [][Next]_reportRunVars

Overall == AggregateResults(results)

\* The table in the module comment of search_orchestrator.py, rule by rule:
\* quorum, single FOUND, LIKELY only, unanimity, NOT_FOUND mixed with a failure.
Only(set) == results # <<>> /\ \A i \in DOMAIN results : results[i].status \in set

FollowsG3Table ==
  LET st == Overall.overall_status
      independent == Overall.independent_found
  IN  /\ independent >= 2 <=> st = "found"
      /\ independent = 1 => st = "likely"
      /\ Only({"likely"}) => st = "likely"
      /\ \A s \in {"blocked", "error", "not_found"} : Only({s}) <=> st = s
      /\ (Only({"not_found", "blocked", "error"}) /\ ~Only({"not_found"})
            /\ At(results, "not_found") # {}) => st = "uncertain"

\* A blocked source is never reported as "not found" or as a failure of ours.
BlockedNeverCollapses ==
  At(results, "blocked") # {} => Overall.overall_status \notin {"not_found", "error"}

\* The summary does not depend on the order in which connectors answered.
Swapped(i) ==
  [results EXCEPT ![i] = results[i + 1], ![i + 1] = results[i]]

OrderDoesNotMatter ==
  \A i \in 1..(Len(results) - 1) :
    LET other == AggregateResults(Swapped(i))
    IN  /\ other.overall_status = Overall.overall_status
        /\ other.overall_confidence = Overall.overall_confidence

\* One source alone, however sure of itself and however often it answers, stays
\* under the cap, and a summary without any hit has no confidence at all.
SingleFoundIsCapped ==
  /\ Overall.independent_found = 1 =>
       /\ Overall.overall_confidence <= SINGLE_FOUND_CONFIDENCE_CAP
       /\ Overall.overall_confidence_level # "high"
  /\ Overall.overall_confidence > 0 => Overall.overall_status \in {"found", "likely"}

\* The last answer has not undone a quorum, nor turned a hit into silence.
HitsAreNeverUndone ==
  results # <<>> =>
    LET before == Front(results)
    IN  /\ Quorum(before) => Overall.overall_status = "found"
        /\ OverallStatus(before) = "likely" => Overall.overall_status \in {"likely", "found"}

\* The quorum on every batch: its table, and what the table is for.
QuorumIsSound ==
  /\ FollowsG3Table /\ BlockedNeverCollapses /\ OrderDoesNotMatter /\ SingleFoundIsCapped
  /\ HitsAreNeverUndone

\* The page sums up the connectors of a saved case by itself, the server sums up
\* those of a job.  With one result per connector they agree on every hit, and
\* the page never turns a failure the server reports into silence.
CaseAgreesOnHits ==
  IsInjective([i \in DOMAIN results |-> results[i].connector]) =>
    LET case == SummaryStatus([i \in DOMAIN results |-> results[i].status])
        job == Overall.overall_status
    IN  /\ \A hit \in {"found", "likely"} : case = hit <=> job = hit
        /\ case = "not_found" => job \notin {"blocked", "error"}

-----------------------------------------------------------------------------
(* The verdict on a platform *)

\* The connector of a v2 search, the connector card of the page and the summary
\* of a case classify the same check in three languages: they agree on it,
\* except that a bot check or an authentication wall, which the connector
\* reports as blocked, reaches the page as an error.
HitsAreTheSameEverywhere ==
  LET p == Normalized(check)
  IN  /\ CardStatus(p) = CaseStatus(p)
      /\ ConnectorStatus(check) # CardStatus(p) =>
           AuthBlocked(check) /\ ConnectorStatus(check) = "blocked" /\ CardStatus(p) = "error"

\* A profile is never confirmed against a sign that there is none, from a page
\* that was not read or a login form, nor on a platform of low reliability
\* unless the site itself vouches for it; and what is confirmed is sure.
DoubtIsNeverConfirmed ==
  Scored(check).status = "confirmed" =>
    /\ check.fetch = "ok" /\ ~LoginInconclusive(check) /\ Found(check) \intersect HardNegative = {}
    /\ check.low => Found(check) \intersect HardPositive # {}
    /\ ConfidenceLevel(Scored(check).score) = "high"

\* render.js announces the list "confirmed first, then likely": a likely
\* profile of a validated list has a card.
LikelyProfilesAreListed ==
  \A i \in DOMAIN page.platforms :
    page.platforms[i].validation = "likely" => HasCard(page.platforms[i], FALSE)

-----------------------------------------------------------------------------
(* The search and its reports *)

\* A case is summed up as "not found" only when nobody failed: no platform of a
\* validated list was blocked or unreadable and, under the new theme, no module
\* ended in an error.  (A SpiderFoot scan that was refused is not an error.)
CaseNeverHidesFailure ==
  (Done /\ SummaryStatus(StatusList) = "not_found") =>
    /\ search.graphite => errors = {}
    /\ \A i \in DOMAIN page.platforms :
         page.platforms[i].validation # "invalid" /\ page.platforms[i].fetch # "cf_challenge"

\* The text report has the sections that are on the screen (of the profiles
\* only the confirmed ones), its totals are those of the stat grid until more
\* breaches are loaded, and its risk, which leaves the email services out, is
\* never above the risk on the screen.  What is a row on the screen is a row of
\* the CSV file too, and the file has no profile without a card.
ReportsAgreeWithTheScreen ==
  drawn.shown =>
    LET report == ExportTXT(page)
    IN  /\ \A x \in {"breach", "stealer", "email"} : x \in Sections(page) <=> x \in report.sections
        /\ ("social" \in report.sections /\ ~search.graphite) => "social" \in Sections(page)
        /\ page.count = drawn.breach =>
             /\ Total(report.counts) = Total(drawn)
             /\ report.risk <= ScreenRisk(drawn)
             /\ drawn.email = 0 => report.level = RiskLabel(ScreenRisk(drawn))
        /\ page.count # drawn.breach => report.counts.breach >= report.rows.breach
        /\ StealerTable(page) <= ExportCSV(page).rows.stealer
        /\ ~search.graphite => ExportCSV(page).rows.social <= SocialCards(page)

\* In an automated search no panel that has something to show is greyed out as
\* "not run", the panel of the lookups that breaches gave rise to included.
NoDataIsGreyed ==
  (drawn.shown /\ search.mode = "automated") => \A x \in Sections(page) : ~NotRun(x)

\* Every module whose block was entered is in modules_run at the end, or the
\* page was told of an error; and the progress bar passes 100% only when
\* Discord ids of the breaches were looked up, which the plan does not count.
ModulesAreAccountedFor ==
  /\ Done =>
       \A m \in Planned :
         \/ m \in ran
         \/ m = "discord_roblox" /\ search.type # "discord_id"
         \/ m = "holehe" /\ "breach" \in errors
         \/ m \in errors
  /\ steps > Cardinality(Planned) => "discord" \in ran \ Planned

\* A PDF printed from a saved case never shows less risk than the search had,
\* and more breaches only where the search had none.
CasePdfNeverUnderstates ==
  drawn.shown =>
    LET pdf == CasePDF(SavedCase(page))
    IN  /\ pdf.risk >= ExportPDF(page).risk
        /\ pdf.counts.breach # page.count => page.count = 0
        /\ pdf.counts.stealer = page.stealers

\* Server, page and saved case read the same results and the same check alike.
ReadersAgree == CaseAgreesOnHits /\ HitsAreTheSameEverywhere

\* A saved case hides no failure and understates no hit.
SavedCaseIsHonest == CaseNeverHidesFailure /\ CasePdfNeverUnderstates

\* What a search found is in the panels and the reports, what it could not do is
\* said.
SearchIsReported == ReportsAgreeWithTheScreen /\ NoDataIsGreyed /\ ModulesAreAccountedFor

=============================================================================
