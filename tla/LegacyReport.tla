---------------------------- MODULE LegacyReport ----------------------------
(***************************************************************************)
(* One search of POST /api/search from its plan to its reports: which      *)
(* modules _stream_search runs for a query, the events it sends, the       *)
(* result handleEvent builds from them, and everything that is made of     *)
(* that result: the panels of the page, the exports, the summary of a      *)
(* saved case and the report printed from it.  Lists stand for their       *)
(* lengths; the order in which requests interleave is the business of      *)
(* LegacyPage and SearchAdmission, here one search runs undisturbed.       *)
(***************************************************************************)
EXTENDS PlatformVerdict, Sequences, SequencesExt

CONSTANTS
  QueryTypes,    \* subset of the types detect_type knows
  ManualMods,    \* the module choices of a manual search that are explored
  RecordCounts,  \* the lengths a list of breaches, stealer logs or domains may have
  MaxLookups,    \* 3: automatic Discord lookups of one search
  PlatformLists, \* the lists of platform checks a search may return
  PdfNoteAt,     \* 50: more breaches than this and the PDF says it is cut
  StealerRows    \* 50: the page lists no more stealer logs than this

ExtraKinds ==
  {"ip_info", "subdomain", "steam", "xbox", "roblox", "ghunt", "victims", "discord_roblox"}

\* The order of the blocks of _stream_search.
Blocks == <<"oathnet", "sherlock", "discord", "ip_info", "subdomain", "steam", "xbox",
            "roblox", "ghunt", "victims", "discord_roblox", "spiderfoot">>

\* The names a plan is made of: the parts of OathNet and the other blocks.
Modules ==
  {"breach", "stealer", "holehe", "sherlock", "discord", "ip_info", "subdomain", "steam",
   "xbox", "roblox", "ghunt", "victims", "discord_roblox", "spiderfoot"}

ASSUME ReportAssumption ==
  /\ ManualMods \subseteq SUBSET Modules
  /\ RecordCounts \subseteq Nat
  /\ {MaxLookups, PdfNoteAt, StealerRows} \subseteq Nat
  /\ \A list \in PlatformLists : Len(list) \in Nat /\ DOMAIN list = 1..Len(list)

VARIABLES
  search,   \* the query: mode, type, modules of a manual search, and the page's theme
  block,    \* the block _stream_search is in; after the last one it is done
  steps,    \* progress events so far (done_cnt)
  ran,      \* modules_run
  errors,   \* the error rows of the scan box: the modules of the module_error events
  page,     \* currentResult; "count" is oathnet.breach_count, "breaches" the rows
  cards,    \* currentResult.connectorResultsByName: connector to status
  drawn     \* what renderResults put into the header and the stat grid

reportVars == <<search, block, steps, ran, errors, page, cards, drawn>>

EmptyPage ==
  [oath |-> FALSE, count |-> 0, breaches |-> 0, stealers |-> 0, domains |-> 0,
   social |-> "none", found |-> 0, likely |-> 0, checked |-> 0, platforms |-> <<>>,
   discords |-> 0, extras |-> [k \in ExtraKinds |-> "none"]]

NotDrawn == [shown |-> FALSE, breach |-> 0, stealer |-> 0, social |-> 0, email |-> 0]
NoCards == [c \in {} |-> "pending"]

-----------------------------------------------------------------------------
(* The plan *)

AutomatedPlan(t) ==
  {"breach", "stealer"}
    \union (IF t \in {"email", "username"} THEN {"sherlock", "victims"} ELSE {})
    \union (IF t = "email" THEN {"holehe", "ghunt"} ELSE {})
    \union (IF t = "username" THEN {"steam", "xbox", "roblox"} ELSE {})
    \union (IF t = "steam_id" THEN {"steam"} ELSE {})
    \union (IF t = "discord_id" THEN {"discord", "discord_roblox"} ELSE {})
    \union (IF t = "ip" THEN {"ip_info"} ELSE {})
    \union (IF t = "domain" THEN {"subdomain"} ELSE {})

Suits(m, t) ==
  CASE m = "sherlock" -> t \in {"email", "username"}
    [] m \in {"holehe", "ghunt"} -> t = "email"
    [] m = "ip_info" -> t = "ip"
    [] m = "subdomain" -> t = "domain"
    [] OTHER -> TRUE

Planned ==
  IF search.mode = "automated" THEN AutomatedPlan(search.type)
  ELSE {m \in search.mods : Suits(m, search.type)}

Runs(b) ==
  CASE b = "oathnet" -> Planned \intersect {"breach", "stealer", "holehe"} # {}
    [] b = "discord_roblox" -> b \in Planned /\ search.type = "discord_id"
    [] OTHER -> b \in Planned

ReportInit ==
  /\ search \in [mode : {"automated"}, type : QueryTypes, mods : {{}}, graphite : BOOLEAN]
               \union [mode : {"manual"}, type : QueryTypes, mods : ManualMods, graphite : BOOLEAN]
  /\ block = 1 /\ steps = 0 /\ ran = {} /\ errors = {}
  /\ page = EmptyPage /\ cards = NoCards /\ drawn = NotDrawn

-----------------------------------------------------------------------------
(* legacy-adapter.js.  A connector is named by its source and a number: the    *)
(* parts of OathNet, the places of a platform list; 0 is the card of an error. *)

ByCount(n) == IF n > 0 THEN "found" ELSE "not_found"

OathnetCards(p) ==
  [c \in {<<"oathnet", i>> : i \in 1..3} |-> ByCount(<<p.count, p.stealers, p.domains>>[c[2]])]

\* The older event lists hits only; the validated one lists every platform.
LegacyCards(list) ==
  [c \in {<<"sherlock", i>> : i \in {j \in DOMAIN list : LegacyBucket(list[j]) \in {"confirmed", "likely"}}}
     |-> IF LegacyBucket(list[c[2]]) = "confirmed" THEN "found" ELSE "likely"]

PlatformCards(platforms) ==
  [c \in {<<"sherlock", i>> : i \in DOMAIN platforms} |-> CardStatus(platforms[c[2]])]

IpCard(answer) == [c \in {<<"ip", 1>>} |-> IF answer = "data" THEN "found" ELSE "not_found"]

\* A scan that could not be started is "available" and has no results.
SpiderCard(answer) ==
  [c \in {<<"spiderfoot", 1>>} |->
     IF answer = "data" THEN "likely"
     ELSE IF answer \in {"nothing", "not_started"} THEN "not_found" ELSE "error"]

ErrorCard(module) == [c \in {<<module, 0>>} |-> "error"]

\* The later card of a connector replaces the earlier one.
Over(new, old) ==
  [c \in DOMAIN new \union DOMAIN old |-> IF c \in DOMAIN new THEN new[c] ELSE old[c]]

\* collectLegacyConnectorResults: under the new theme every event is adapted too.
Collect(new) == cards' = IF search.graphite THEN Over(new, cards) ELSE cards

-----------------------------------------------------------------------------
(* The blocks *)

Current(b) == block <= Len(Blocks) /\ Blocks[block] = b /\ Runs(b)
Advance == block' = block + 1 /\ UNCHANGED <<search, drawn>>

\* One progress event, the module entered in modules_run.
Step(modules) == steps' = steps + 1 /\ ran' = ran \union modules

\* A module_error event: a row in the scan box, and nothing else on the old page.
ModuleError(module) ==
  errors' = errors \union {module} /\ Collect(ErrorCard(module)) /\ UNCHANGED page

Answers(p, new) == page' = p /\ Collect(new) /\ UNCHANGED errors

Skip ==
  /\ block <= Len(Blocks) /\ ~Runs(Blocks[block])
  /\ Advance /\ UNCHANGED <<steps, ran, errors, page, cards>>

\* The breaches are searched whenever any of the three modules is wanted; only
\* the modules that were asked for are named in modules_run.  In an automated
\* search ids found in the breaches are looked up at once; a lookup may fail
\* without a word.
OathnetRan(answered) ==
  (Planned \intersect {"breach", "stealer"})
    \union (IF answered THEN Planned \intersect {"holehe"} ELSE {})

OathnetFails ==
  /\ Current("oathnet") /\ Advance
  /\ Step(OathnetRan(FALSE)) /\ ModuleError("breach")

OathnetAnswers ==
  /\ Current("oathnet") /\ Advance
  /\ \E n, s, d \in RecordCounts, lookups, answered \in 0..MaxLookups :
       /\ s > 0 => "stealer" \in Planned
       /\ d > 0 => "holehe" \in Planned
       /\ answered <= lookups
       /\ lookups > 0 => search.mode = "automated" /\ search.type # "discord_id" /\ lookups <= n
       /\ steps' = steps + 1 + lookups
       /\ ran' = ran \union OathnetRan(TRUE) \union (IF lookups > 0 THEN {"discord"} ELSE {})
       /\ LET p == [page EXCEPT !.oath = TRUE, !.count = n, !.breaches = n, !.stealers = s,
                                !.domains = d, !.discords = @ + answered]
          IN  Answers(p, OathnetCards(p))

Count(list, S(_)) == Cardinality({i \in DOMAIN list : S(list[i])})

\* The first event carries the verdicts of the older scoring; with
\* SHERLOCK_VALIDATION_V2 a second one replaces it in currentResult.sherlock.
SherlockEvent(list) ==
  [page EXCEPT
     !.social = "v1", !.checked = Len(list), !.platforms = <<>>,
     !.found = Count(list, LAMBDA c : LegacyBucket(c) = "confirmed"),
     !.likely = Count(list, LAMBDA c : LegacyBucket(c) = "likely")]

SherlockV2Event(list) ==
  [page EXCEPT
     !.social = "v2", !.checked = Len(list),
     !.platforms = [i \in DOMAIN list |-> Normalized(list[i])],
     !.found = Count(list, LAMBDA c : Scored(c).status = "confirmed"),
     !.likely = Count(list, LAMBDA c : Scored(c).status = "likely")]

SherlockBlock ==
  /\ Current("sherlock") /\ Advance /\ Step({"sherlock"})
  /\ \/ ModuleError("sherlock")          \* invalid name, budget exceeded, timed out
     \/ \E list \in PlatformLists :
          \/ Answers(SherlockEvent(list), LegacyCards(list))
          \/ LET p == SherlockV2Event(list)
             IN  Answers(p, Over(PlatformCards(p.platforms), LegacyCards(list)))

DiscordBlock ==
  /\ Current("discord") /\ Advance /\ Step({"discord"})
  /\ \/ search.type = "discord_id" /\ ModuleError("discord")
     \/ Answers([page EXCEPT !.discords = @ + 1], NoCards)

\* A lookup answers with data, or without (ok = false or nothing in it), or is
\* lost to a module_error.
ExtraBlock(k) ==
  /\ Current(k) /\ Advance /\ Step({k})
  /\ \/ ModuleError(k)
     \/ \E answer \in {"data", "failed"} :
          Answers([page EXCEPT !.extras[k] = answer],
                  IF k = "ip_info" THEN IpCard(answer) ELSE NoCards)

\* SpiderFoot takes domains and addresses; its events are not kept by the page.
SpiderfootBlock ==
  /\ Current("spiderfoot") /\ Advance
  /\ \/ /\ search.type \notin {"domain", "ip"}
        /\ ModuleError("spiderfoot") /\ UNCHANGED <<steps, ran>>
     \/ /\ search.type \in {"domain", "ip"} /\ Step({"spiderfoot"})
        /\ \E answer \in {"data", "nothing", "not_started", "unreachable"} :
             Answers(page, SpiderCard(answer))

Done == block = Len(Blocks) + 1

-----------------------------------------------------------------------------
(* renderResults and the panels.  A panel shows when its renderer has rows.    *)

BreachPanel(p) == p.oath /\ p.breaches > 0
StealerPanel(p) == p.oath /\ p.stealers > 0
EmailPanel(p) == p.oath /\ p.domains > 0
StealerTable(p) == Between(0, p.stealers, StealerRows)

\* renderSocial.  The new theme lists the connectors whatever their status; the
\* old one counts as found what the first filter lets through, with validation
\* statuses, and both lists of hits without.
SherlockConnectors == {c \in DOMAIN cards : c[1] = "sherlock"}

SocialPanel(p) ==
  IF search.graphite THEN p.social # "none" \/ SherlockConnectors # {}
  ELSE IF p.social = "v2" THEN \E i \in DOMAIN p.platforms : Visible(p.platforms[i], FALSE)
  ELSE p.found + p.likely > 0

SocialCards(p) ==
  IF search.graphite THEN Cardinality(SherlockConnectors)
  ELSE IF p.social = "v2" THEN Count(p.platforms, LAMBDA v : HasCard(v, FALSE))
  ELSE p.found + p.likely

\* renderExtras, a part for each kind of lookup.
AddressPart(answer) == answer = "data"
SteamPart(answer) == answer = "data"
XboxPart(answer) == answer \in {"data", "failed"}
RobloxPart(answer) == answer = "data"
GhuntPart(answer) == answer \in {"data", "failed"}
VictimsPart(answer) == answer = "data"      \* a failed search comes with an empty list
DiscordRobloxPart(answer) == answer \in {"data", "failed"}
DiscordParts(p) == p.discords

ExtraParts(p) ==
  {k \in ExtraKinds :
     CASE k \in {"ip_info", "subdomain"} -> AddressPart(p.extras[k])
       [] k = "steam" -> SteamPart(p.extras[k])
       [] k = "roblox" -> RobloxPart(p.extras[k])
       [] k = "xbox" -> XboxPart(p.extras[k])
       [] k = "ghunt" -> GhuntPart(p.extras[k])
       [] k = "victims" -> VictimsPart(p.extras[k])
       [] OTHER -> DiscordRobloxPart(p.extras[k])}

Sections(p) ==
  {x \in {"breach", "stealer", "social", "email", "extras"} :
     CASE x = "breach" -> BreachPanel(p)
       [] x = "stealer" -> StealerPanel(p)
       [] x = "social" -> SocialPanel(p)
       [] x = "email" -> EmailPanel(p)
       [] OTHER -> ExtraParts(p) # {} \/ DiscordParts(p) > 0}

\* applyPanelVisibility: the modules a panel waits for.
ExtraModules == ExtraKinds \union {"discord"}

PanelModules(x) ==
  CASE x = "breach" -> {"breach"} [] x = "stealer" -> {"stealer"} [] x = "social" -> {"sherlock"}
    [] x = "email" -> {"holehe"} [] OTHER -> ExtraModules

NotRun(x) == ran # {} /\ PanelModules(x) \intersect ran = {}

Min100(n) == Between(0, n, 100)

RiskLabel(n) ==
  IF n >= 75 THEN "CRITICAL" ELSE IF n >= 50 THEN "HIGH" ELSE IF n >= 25 THEN "MEDIUM" ELSE "LOW"

StatGrid(p) ==
  [shown |-> TRUE, breach |-> p.count, stealer |-> p.stealers, social |-> p.found, email |-> p.domains]

Total(grid) == grid.breach + grid.stealer + grid.social + grid.email
ScreenRisk(grid) == Min100(15 * grid.breach + 20 * grid.stealer + 3 * grid.email)

RenderResults ==
  /\ Done /\ ~drawn.shown
  /\ drawn' = StatGrid(page)
  /\ UNCHANGED <<search, block, steps, ran, errors, page, cards>>

\* A further page of breaches; the total, where the answer has one, replaces the
\* count, and the grid is not drawn again.
LoadMoreBreaches ==
  /\ drawn.shown /\ page.count > 0 /\ page.count = page.breaches /\ page.breaches < PdfNoteAt
  /\ \E n, beyond \in RecordCounts :
       /\ n > 0
       /\ page' = [page EXCEPT
                     !.breaches = @ + n,
                     !.count = IF beyond = 0 THEN @ ELSE page.breaches + n + beyond]
  /\ UNCHANGED <<search, block, steps, ran, errors, cards, drawn>>

ReportNext ==
  \/ Skip \/ OathnetFails \/ OathnetAnswers \/ SherlockBlock \/ DiscordBlock
  \/ \E k \in ExtraKinds : ExtraBlock(k)
  \/ SpiderfootBlock \/ RenderResults \/ LoadMoreBreaches

-----------------------------------------------------------------------------
(* export.js.  A report has the counts of its head, its risk and the rows of   *)
(* its sections; a profile is a row only where the result has a list "found".  *)

ReportSections == {"breach", "stealer", "social", "email"}

Rows(p) ==
  [breach |-> p.breaches, stealer |-> p.stealers,
   social |-> IF p.social = "v1" THEN p.found ELSE 0, email |-> p.domains]

ReportCounts(p) ==
  [breach |-> p.count, stealer |-> p.stealers, social |-> p.found, email |-> p.domains]

RiskOfRows(p) == Min100(15 * p.breaches + 20 * p.stealers)  \* variant: rows for the count
ReportRisk(p) == Min100(15 * p.count + 20 * p.stealers)

\* A section without rows is not copied, and left out of a text report.
CopySection(p, x) == Rows(p)[x]
Filled(p) == {x \in ReportSections : CopySection(p, x) > 0}

TextReport(p) ==
  [risk |-> ReportRisk(p), level |-> RiskLabel(ReportRisk(p)), counts |-> ReportCounts(p),
   sections |-> Filled(p), rows |-> Rows(p)]

ExportTXT(p) == TextReport(p)

PdfRows(p) == Rows(p)

\* The PDF has every section, an empty one says so, and a note that the list
\* of breaches is cut, which it is not.
ExportPDF(p) ==
  [risk |-> ReportRisk(p), level |-> RiskLabel(ReportRisk(p)), counts |-> ReportCounts(p),
   sections |-> ReportSections, rows |-> PdfRows(p), note |-> p.count > PdfNoteAt]

ExportCSV(p) == [sections |-> ReportSections, rows |-> Rows(p)]

-----------------------------------------------------------------------------
(* cases.js: the summary of a case, and the report printed from it alone.      *)

\* statusListFromCurrentResult
FromPage(p) ==
  <<ByCount(p.count), ByCount(p.stealers)>>
    \o (IF p.oath THEN <<ByCount(p.domains)>> ELSE <<>>)
    \o (IF p.social = "v2" THEN [i \in DOMAIN p.platforms |-> CaseStatus(p.platforms[i])]
        ELSE IF p.social = "v1" THEN
          (IF p.found > 0 THEN <<"found">> ELSE <<>>)
            \o (IF p.likely > 0 THEN <<"likely">> ELSE <<>>)
            \o (IF p.found + p.likely = 0 THEN <<"not_found">> ELSE <<>>)
        ELSE <<>>)

StatusList == IF DOMAIN cards # {} THEN cards ELSE FromPage(page)

\* buildSummarySnapshot
SummaryStatus(statuses) ==
  LET n(s) == Cardinality({i \in DOMAIN statuses : statuses[i] = s})
  IN  IF n("found") >= 2 THEN "found"
      ELSE IF n("found") = 1 \/ n("likely") > 0 THEN "likely"
      ELSE IF n("blocked") > 0 THEN "blocked"
      ELSE IF n("error") > 0 THEN "error"
      ELSE IF n("not_found") > 0 THEN "not_found"
      ELSE "uncertain"

CaseWithoutStealers(p) ==                   \* variant: stolen credentials not saved
  [breach |-> p.count, stealer |-> 0, social |-> p.found, risk |-> ReportRisk(p),
   found |-> Count(StatusList, LAMBDA s : s = "found")]

SavedCase(p) ==
  [breach |-> p.count, stealer |-> p.stealers, social |-> p.found, risk |-> ReportRisk(p),
   found |-> Count(StatusList, LAMBDA s : s = "found")]

\* caseResultFromSummary: a case without breaches borrows the number of sources
\* that found something.
CaseResult(c) ==
  [EmptyPage EXCEPT !.oath = TRUE, !.count = IF c.breach > 0 THEN c.breach ELSE c.found,
                    !.stealers = c.stealer, !.found = c.social]

\* The rows of such a result are empty; its head is that of any PDF.
CasePDF(c) == ExportPDF(CaseResult(c))
=============================================================================
