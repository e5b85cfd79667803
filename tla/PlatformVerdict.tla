--------------------------- MODULE PlatformVerdict ---------------------------
(***************************************************************************)
(* What becomes of the check of one social platform: the evidence that     *)
(* modules/username_check found is combined into a validation status and a *)
(* score (scoring.py), sent to the page (normalize.py), and classified     *)
(* again by everybody who reads it: the v2 connector (sherlock_adapter.py),*)
(* the connector cards of the page (legacy-adapter.js), the summary of a   *)
(* saved case (cases.js) and the social panel (render.js).                 *)
(*                                                                         *)
(* A check is a record                                                     *)
(*   fetch    "ok", or why the page could not be read: "cf_challenge",     *)
(*            "timeout" (which stands for connection_error and             *)
(*            proxy_unavailable too), "other" or "unsaid", an exception    *)
(*            without a text                                               *)
(*   signals  the findings of the generic validators                       *)
(*   site     the finding of the platform's own validator, or "none"       *)
(*   login    the final address is a login page                            *)
(*   low      the platform is listed with low reliability                  *)
(*   state    the verdict of the older scoring, _compute_confidence        *)
(***************************************************************************)
EXTENDS Integers, FiniteSets, FiniteSetsExt

GenericSignals ==
  {"title", "canonical", "final_url", "expected_url", "jsonld", "small_body",
   "redirect_to_homepage", "baseline_indistinguishable"}

SiteFindings ==
  {"none", "itemprop", "no_user", "bot_challenge", "login_wall", "auth_wall", "og_behind_login"}

Weight(s) ==
  CASE s \in {"title", "expected_url"} -> 15
    [] s = "canonical" -> 20
    [] s \in {"final_url", "jsonld", "og_behind_login"} -> 25
    [] s = "itemprop" -> 30
    [] s = "small_body" -> -20
    [] s = "redirect_to_homepage" -> -50
    [] s = "baseline_indistinguishable" -> -60
    [] s \in {"no_user", "bot_challenge", "auth_wall"} -> -100
    [] OTHER -> 0

HardPositive == {"itemprop", "og_behind_login"}

HardNegative ==
  {"redirect_to_homepage", "baseline_indistinguishable", "no_user", "bot_challenge", "auth_wall"}

Found(c) == c.signals \union ({c.site} \ {"none"})
RawScore(c) == MapThenSumSet(Weight, Found(c))
Positives(c) == {s \in Found(c) : Weight(s) > 0}
Between(lo, n, hi) == IF n < lo THEN lo ELSE IF n > hi THEN hi ELSE n

\* The platform answered with a bot check or an authentication wall.
AuthBlocked(c) == c.site \in {"bot_challenge", "auth_wall"}
LoginInconclusive(c) == c.login \/ c.site \in {"login_wall", "og_behind_login"}

-----------------------------------------------------------------------------
(* scoring.py *)

Uncapped(c) == Between(0, RawScore(c), 100)     \* variant: reliability forgotten

\* A low-reliability platform stays under the threshold of "confirmed" unless
\* the site itself vouches for the profile.
Capped(c) ==
  LET score == Between(0, RawScore(c), 100)
  IN  IF c.low /\ Found(c) \intersect HardPositive = {} THEN Between(0, score, 84) ELSE score

IsHardNegative(c) == Found(c) \intersect HardNegative # {}

FromScore(c, score) ==
  LET hard == Found(c) \intersect HardPositive # {}
      n == Cardinality(Positives(c))
  IN  IF score >= 85 /\ (hard \/ n >= 3) THEN "confirmed"
      ELSE IF score >= 60 /\ n >= 2 THEN "likely"
      ELSE IF score >= 30 \/ n >= 1 THEN "uncertain"
      ELSE IF score >= 10 THEN "likely_false_positive"
      ELSE "not_found"

\* combine_outcomes
Scored(c) ==
  LET verdict(status, score) == [status |-> status, score |-> score]
  IN  IF c.fetch # "ok" THEN verdict("invalid", 0)
      ELSE IF AuthBlocked(c) THEN verdict("invalid", 0)
      ELSE IF LoginInconclusive(c) /\ ~IsHardNegative(c)
        THEN verdict("uncertain", Between(30, RawScore(c), 59))
      ELSE IF IsHardNegative(c)
        THEN verdict(IF "baseline_indistinguishable" \in Found(c) \/ RawScore(c) > 0
                       THEN "likely_false_positive" ELSE "not_found",
                     Between(0, RawScore(c) + 40, 29))
      ELSE verdict(FromScore(c, Capped(c)), Capped(c))

\* normalize_platform.  An error without a text is read as no error at all.
FetchStatus(c) ==
  CASE c.fetch \in {"timeout", "cf_challenge"} -> c.fetch
    [] c.fetch = "other" -> "invalid"
    [] OTHER -> "ok"

Normalized(c) ==
  [validation |-> Scored(c).status, score |-> Scored(c).score, fetch |-> FetchStatus(c)]

-----------------------------------------------------------------------------
(* The readers *)

\* map_scored_to_connector_status
ConnectorStatus(c) ==
  CASE Scored(c).status = "confirmed" -> "found"
    [] Scored(c).status \in {"likely", "uncertain"} -> Scored(c).status
    [] Scored(c).status \in {"likely_false_positive", "not_found"} -> "not_found"
    [] OTHER -> IF AuthBlocked(c) \/ c.fetch = "cf_challenge" THEN "blocked" ELSE "error"

SHERLOCK_STATUS_MAP ==
  [confirmed |-> "found", likely |-> "likely", uncertain |-> "uncertain",
   likely_false_positive |-> "not_found", not_found |-> "not_found",
   cf_challenge |-> "blocked", timeout |-> "error", invalid |-> "error"]

Optimistic ==                             \* variant: an unsure profile counts as a hit
  [SHERLOCK_STATUS_MAP EXCEPT !.uncertain = "likely"]

CardByMap(p) == Optimistic[p.validation]    \* variant, see Optimistic

\* sherlockStatus: a blocked fetch wins, then the validation status.
CardStatus(p) ==
  IF p.fetch = "cf_challenge" THEN "blocked" ELSE SHERLOCK_STATUS_MAP[p.validation]

\* The branch of statusListFromCurrentResult for a platform.
CaseStatus(p) ==
  IF p.fetch = "cf_challenge" THEN "blocked"
  ELSE CASE p.validation = "confirmed" -> "found"
         [] p.validation \in {"likely", "uncertain"} -> p.validation
         [] p.validation \in {"likely_false_positive", "not_found"} -> "not_found"
         [] OTHER -> "error"

\* The bucket the older result list puts the check in.
LegacyBucket(c) ==
  IF c.fetch \notin {"ok", "unsaid"} THEN "errors"
  ELSE IF c.fetch = "ok" /\ c.state # "not_found" THEN c.state ELSE "not_found"

\* renderSocial, for a list with validation statuses: what the two filters let
\* through.  The first one admits the statuses the user asked to see and gives
\* each a display state, the second one builds the list of cards from the states.
Visible(p, showHidden) ==
  p.validation \in {"confirmed", "likely"}
    \union (IF showHidden THEN {"uncertain", "likely_false_positive"} ELSE {})

DisplayState(p) == IF p.validation = "confirmed" THEN "confirmed" ELSE "likely"

HasCard(p, showHidden) ==
  /\ Visible(p, showHidden)
  /\ DisplayState(p) = "confirmed"         \* state "likely" is taken from s.likely, which is []
=============================================================================
