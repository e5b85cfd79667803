---------------------------- MODULE EvidenceDrawer ----------------------------
(***************************************************************************)
(* The connector cards and the drawer that shows the evidence of one        *)
(* (components/*.js).  The list of cards is drawn anew with every result of *)
(* a running search, under an open drawer too; closing the drawer gives the *)
(* focus back to the card that opened it, which may be gone by then.        *)
(***************************************************************************)
EXTENDS Integers, Sequences, FiniteSets

CONSTANTS
  Connectors,
  Reports,     \* the results a connector may send: status, score, pieces of evidence
  MaxListings  \* bound on the results that arrive

ASSUME EvidenceDrawerAssumption ==
  /\ \A r \in Reports : r.evidence \in Nat
  /\ MaxListings \in Nat

VARIABLES
  results,     \* connectorResultsByName
  listing,     \* the number of the list on the page
  cardsShown,  \* its cards
  drawers,     \* the evidence shells in the document, in their order
  focus        \* the focused element

drawerVars == <<results, listing, cardsShown, drawers, focus>>

NoResultYet == [status |-> "none", score |-> 0, evidence |-> 0]
Body == [kind |-> "body", at |-> "none", of |-> 0]
CardOf(c, n) == [kind |-> "card", at |-> c, of |-> n]
Inside(d) == [kind |-> "drawer", at |-> d.card.at, of |-> d.card.of]

-----------------------------------------------------------------------------
(* createConnectorCard, createStatusPill, createConfidenceMeter.               *)

Clamp(n) == IF n < 0 THEN 0 ELSE IF n > 100 THEN 100 ELSE n

\* deriveConfidenceLevel, for a result that names no level.
Level(score) ==
  IF score >= 85 THEN "high" ELSE IF score >= 60 THEN "medium"
  ELSE IF score >= 30 THEN "low" ELSE "none"

Meter(r) == [score |-> Clamp(r.score), level |-> Level(Clamp(r.score))]

Card(r) == [pill |-> r.status, meter |-> Meter(r), evidence |-> r.evidence]

\* What a list that is drawn anew does to the focus: its cards are gone.
FocusAfterRedraw == IF focus.kind = "card" THEN Body ELSE focus

\* renderConnectorCardList, renderV2LiveConnectorResults: replaceChildren.
DrawList(new) ==
  /\ listing' = listing + 1
  /\ cardsShown' = [c \in {d \in Connectors : new[d] # NoResultYet} |-> Card(new[c])]
  /\ focus' = FocusAfterRedraw

\* storeConnectorResult, and the list drawn from what is stored.
ResultArrives ==
  /\ listing < MaxListings
  /\ \E c \in Connectors, r \in Reports : results' = [results EXCEPT ![c] = r]
  /\ DrawList(results')
  /\ UNCHANGED drawers

-----------------------------------------------------------------------------
(* openEvidenceDrawer and closeDrawer.                                         *)

\* closeExistingDrawer takes the first shell it finds out of the document.
WithoutExisting == IF drawers = <<>> THEN <<>> ELSE Tail(drawers)

\* renderEvidenceList: a row for each piece, or a line that says there is none.
EvidenceRows(card) == IF card.evidence = 0 THEN "none available" ELSE "listed"

\* By a click, or by Enter or space on the card.
OpenDrawer(c) ==
  LET d == [card |-> CardOf(c, listing), rows |-> EvidenceRows(cardsShown[c])]
  IN /\ drawers' = Append(WithoutExisting, d)
     /\ focus' = Inside(d)
     /\ UNCHANGED <<results, listing, cardsShown>>

Attached(card) == card.of = listing

FocusStays(card) == IF focus.kind = "drawer" THEN Body ELSE focus     \* variant

\* focus() does nothing to an element that is not in the document.
FocusAfterClose(card) ==
  IF Attached(card) THEN card ELSE IF focus.kind = "drawer" THEN Body ELSE focus

\* The button and the backdrop close; Escape does if the focus is in the shell.
CloseDrawer(i) ==
  /\ drawers' = SubSeq(drawers, 1, i - 1) \o SubSeq(drawers, i + 1, Len(drawers))
  /\ focus' = FocusAfterClose(drawers[i].card)
  /\ UNCHANGED <<results, listing, cardsShown>>

\* The drawer does not keep the Tab key to itself.
MoveFocus ==
  /\ focus' \in {CardOf(c, listing) : c \in DOMAIN cardsShown}
                  \cup {Inside(drawers[i]) : i \in DOMAIN drawers}
  /\ UNCHANGED <<results, listing, cardsShown, drawers>>

DrawerInit ==
  /\ results = [c \in Connectors |-> NoResultYet]
  /\ listing = 0 /\ cardsShown = [c \in {} |-> Card(NoResultYet)]
  /\ drawers = <<>> /\ focus = Body

DrawerNext ==
  \/ ResultArrives \/ MoveFocus
  \/ \E c \in DOMAIN cardsShown : OpenDrawer(c)
  \/ \E i \in DOMAIN drawers : CloseDrawer(i)

DrawerSpec == DrawerInit /\ [][DrawerNext]_drawerVars

-----------------------------------------------------------------------------
(***************************************************************************)
(* Properties.                                                             *)
(***************************************************************************)
\* Whichever way cards are opened over an open drawer, there is one drawer, and as
\* long as its card is on the page it lists the evidence of that card's connector.
OneDrawer ==
  /\ Len(drawers) <= 1
  /\ \A i \in DOMAIN drawers :
       Attached(drawers[i].card) =>
         (drawers[i].rows = "listed" <=> results[drawers[i].card.at].evidence > 0)

\* Closing the drawer brings the focus back to the card that opened it, unless the
\* list was drawn anew in the meantime.
FocusComesBack ==
  [][drawers # <<>> /\ drawers' = <<>> /\ Attached(drawers[1].card)
       => focus' = drawers[1].card]_drawerVars

\* One drawer, and the focus comes back from it.
DrawerReturns == []OneDrawer /\ FocusComesBack

=============================================================================
