---------------------------- MODULE VictimBrowser ----------------------------
(***************************************************************************)
(* The victims of a result (the last section of render.js): the list with  *)
(* its pages, the file tree of each stealer log, fetched when it is first  *)
(* opened, and the file viewer.  No button is disabled while its request   *)
(* is pending, and no answer is checked against what was asked for last:   *)
(* a page of victims is held by the result it was asked for, but is drawn  *)
(* into whatever list stands on the page by then.                          *)
(***************************************************************************)
EXTENDS Naturals, Sequences, FiniteSets, SequencesExt

CONSTANTS
  Results,      \* the searches whose victims are shown, numbered as they begin
  Files,        \* files of the victims' trees
  VictimPages,  \* pages of victims the server has, of one victim each
  MaxAsked,     \* bound on pages of victims, and on files, pending at a time
  MaxManifests, \* bound on manifests pending at a time
  Opened        \* the numbers of the cards whose trees are opened

ASSUME VictimAssumption ==
  /\ Results \subseteq Nat \ {0}
  /\ VictimPages \in Nat \ {0} /\ MaxAsked \in Nat /\ MaxManifests \in Nat
  /\ "loading" \notin Files       \* the file names are not the viewer's own texts

VARIABLES
  victims,      \* the victims event of each search, which its result holds
  current,      \* the search whose victims are currentResult.extras.victims
  list,         \* victimsList and its button, as last drawn
  trees,        \* the tree elements of the list, and openVictimTrees
  viewer        \* the file viewer

victimVars == <<victims, current, list, trees, viewer>>

NoSearch == 0

\* The log of a victim is named by the search that found it and its page.
Logs == Results \X (1 .. VictimPages)

NoLog == <<0, 0>>

NoVictims == [at |-> "idle", pages |-> <<>>, cursor |-> 0, asked |-> <<>>, twice |-> FALSE]

VictimsInit ==
  /\ victims = [r \in Results |-> NoVictims]
  /\ current = NoSearch
  /\ list = [drawn |-> NoSearch, cards |-> <<>>, button |-> FALSE, shown |-> FALSE,
             mixed |-> FALSE]
  /\ trees = [elements |-> <<>>, asked |-> <<>>, cached |-> {}]
  /\ viewer = [visible |-> FALSE, title |-> "none", content |-> "none", asked |-> <<>>,
               overtaken |-> {}]

-----------------------------------------------------------------------------
(***************************************************************************)
(* The searches around it: startSearch replaces the result and hides the   *)
(* page's, a stream brings the victims to whatever result is current, and  *)
(* 600 ms after its end renderResults draws the current one.               *)
(***************************************************************************)
\* The cursor behind a page, or none behind the last.
NextCursor(p) == IF p < VictimPages THEN p ELSE 0

Card(r, p, place) == [log |-> <<r, p>>, idx |-> place]

\* buildVictimCard for every victim held.
CardsOf(r, pages) == [i \in 1 .. Len(pages) |-> Card(r, pages[i], i)]

NewElement == [open |-> FALSE, body |-> "empty", of |-> NoLog, orphan |-> FALSE]

\* What is still asked for will be drawn into elements that have left the page.
Detached(asked) == [i \in 1 .. Len(asked) |-> [asked[i] EXCEPT !.at = 0]]

SearchBegins(r) ==
  /\ victims[r].at = "idle"
  /\ \A q \in Results : q < r => victims[q].at # "idle"
  /\ victims' = [victims EXCEPT ![r].at = "open"]
  /\ current' = NoSearch
  /\ list' = [list EXCEPT !.shown = FALSE]
  /\ UNCHANGED <<trees, viewer>>

VictimsEvent(r) ==
  /\ victims[r].at = "open"
  /\ victims' = [victims EXCEPT ![r] = [@ EXCEPT !.at = "told", !.pages = <<1>>,
                                                 !.cursor = NextCursor(1)]]
  /\ current' = r
  /\ UNCHANGED <<list, trees, viewer>>

ResultsDrawn(r) ==
  /\ victims[r].at \in {"open", "told"}
  /\ victims' = [victims EXCEPT ![r].at = "over"]
  /\ LET cards == IF current = NoSearch THEN <<>> ELSE CardsOf(current, victims[current].pages)
     IN /\ list' = [drawn |-> current, cards |-> cards, shown |-> TRUE, mixed |-> FALSE,
                    button |-> current # NoSearch /\ victims[current].cursor # 0]
        /\ trees' = [trees EXCEPT !.elements = [i \in 1 .. Len(cards) |-> NewElement],
                                  !.asked = Detached(@)]
  /\ UNCHANGED <<current, viewer>>

-----------------------------------------------------------------------------
(***************************************************************************)
(* loadMoreVictims.                                                        *)
(***************************************************************************)
PagesAsked == {q \in Results \X (1 .. MaxAsked) : q[2] \in DOMAIN victims[q[1]].asked}

LoadMoreVictims ==
  /\ list.shown /\ list.button
  /\ current # NoSearch
  /\ LET v == victims[current]
     IN /\ v.cursor # 0
        /\ Cardinality(PagesAsked) < MaxAsked
        /\ victims' = [victims EXCEPT ![current] =
                         [v EXCEPT !.asked = Append(@, v.cursor), !.twice = @ \/ v.asked # <<>>]]
  /\ UNCHANGED <<current, list, trees, viewer>>

\* Adding to innerHTML builds every card of the list again, and new ones behind it.
RebuiltTrees(new) ==
  LET awaited(i) == \E k \in DOMAIN trees.asked : trees.asked[k].at = i
      old == [i \in 1 .. Len(trees.elements) |->
                [trees.elements[i] EXCEPT !.orphan = @ \/ awaited(i)]]
  IN [trees EXCEPT !.elements = IF new THEN Append(old, NewElement) ELSE old,
                   !.asked = Detached(@)]

\* A page that is served: the victims that asked for it hold it, at the place its
\* card is numbered by, and the list of the page, if there is one, grows by it.
PageServed(r, i) ==
  LET v == victims[r]
      page == v.asked[i] + 1
  IN /\ victims' = [victims EXCEPT ![r] =
                      [v EXCEPT !.pages = Append(@, page), !.cursor = NextCursor(page),
                                !.asked = RemoveAt(@, i)]]
     /\ \/ /\ list.cards = <<>>
           /\ UNCHANGED <<list, trees>>
        \/ /\ list.cards # <<>>
           /\ list' = [list EXCEPT !.cards = Append(@, Card(r, page, Len(v.pages) + 1)),
                                   !.mixed = @ \/ r # list.drawn]
           /\ trees' = RebuiltTrees(TRUE)

\* An error whose body has no items and no cursor, which is not told from the
\* end of the list: the cards are built again all the same.
PageRefused(r, i) ==
  /\ victims' = [victims EXCEPT ![r] = [victims[r] EXCEPT !.cursor = 0, !.asked = RemoveAt(@, i)]]
  /\ UNCHANGED list
  /\ trees' = IF list.cards = <<>> THEN trees ELSE RebuiltTrees(FALSE)

\* A request that throws changes nothing.
PageFails(r, i) ==
  /\ victims' = [victims EXCEPT ![r] = [victims[r] EXCEPT !.asked = RemoveAt(@, i)]]
  /\ UNCHANGED <<list, trees>>

VictimAnswers ==
  /\ \E r \in Results : \E i \in DOMAIN victims[r].asked :
       PageServed(r, i) \/ PageRefused(r, i) \/ PageFails(r, i)
  /\ UNCHANGED <<current, viewer>>

-----------------------------------------------------------------------------
(***************************************************************************)
(* toggleVictimTree, renderTree, toggleTreeDir: folding inside a tree is   *)
(* lost when the tree is drawn again; it is left out.                      *)
(***************************************************************************)
\* getElementById finds the first card with the number of the one that is clicked.
FirstNumbered(k) ==
  CHOOSE j \in 1 .. k :
    /\ list.cards[j].idx = list.cards[k].idx
    /\ \A i \in 1 .. (j - 1) : list.cards[i].idx # list.cards[k].idx

CloseTree(j) == trees' = [trees EXCEPT !.elements[j].open = FALSE]

ShowCached(j, log) ==
  /\ log \in trees.cached
  /\ trees' = [trees EXCEPT !.elements[j] =
                 [open |-> TRUE, body |-> "tree", of |-> log, orphan |-> FALSE]]

FetchManifest(j, log) ==
  /\ log \notin trees.cached
  /\ Len(trees.asked) < MaxManifests
  /\ trees' = [trees EXCEPT !.asked = Append(@, [log |-> log, at |-> j]),
                 !.elements[j] = [open |-> TRUE, body |-> "loading", of |-> NoLog,
                                  orphan |-> FALSE]]

ToggleVictimTree(k) ==
  /\ list.shown /\ list.cards[k].idx \in Opened
  /\ LET j == FirstNumbered(k)
         log == list.cards[k].log
     IN \/ trees.elements[j].open /\ CloseTree(j)
        \/ ~trees.elements[j].open /\ (ShowCached(j, log) \/ FetchManifest(j, log))
  /\ UNCHANGED <<victims, current, list, viewer>>

ErrorKeepsBody(element) == element                                    \* variant

ErrorBody(element) == [element EXCEPT !.body = "error", !.of = NoLog]

\* An element that has left the page is written to unseen.
Written(j, element) ==
  IF j = 0 THEN trees.elements ELSE [trees.elements EXCEPT ![j] = element]

\* The manifest, an error of the server or an exception.
ManifestAnswered(i) ==
  /\ LET j == trees.asked[i].at
         log == trees.asked[i].log
         rest == RemoveAt(trees.asked, i)
     IN \/ trees' = [elements |-> Written(j, [trees.elements[j] EXCEPT !.body = "tree", !.of = log]),
                     asked |-> rest, cached |-> trees.cached \cup {log}]
        \/ trees' = [elements |-> Written(j, ErrorBody(trees.elements[j])),
                     asked |-> rest, cached |-> trees.cached]
  /\ UNCHANGED <<victims, current, list, viewer>>

-----------------------------------------------------------------------------
(***************************************************************************)
(* viewVictimFile, closeFileViewer, copyFileContent.                       *)
(***************************************************************************)
OpensEmpty(f) == [viewer EXCEPT !.visible = TRUE, !.title = f, !.content = "loading"]

\* overtaken: the files still to come when the last one was opened.
ViewVictimFile(f) ==
  /\ Len(viewer.asked) < MaxAsked
  /\ viewer' = [OpensEmpty(f) EXCEPT !.asked = Append(@, f), !.overtaken = Range(viewer.asked)]
  /\ UNCHANGED <<victims, current, list, trees>>

\* The answer goes into the viewer, whatever its title says by now.
FileAnswered(i) ==
  /\ \E text \in {viewer.asked[i], "error"} :
       viewer' = [viewer EXCEPT !.content = text, !.asked = RemoveAt(@, i)]
  /\ UNCHANGED <<victims, current, list, trees>>

FileAnswers == \E i \in DOMAIN viewer.asked : FileAnswered(i)

CloseFileViewer ==
  /\ viewer.visible
  /\ viewer' = [viewer EXCEPT !.visible = FALSE]
  /\ UNCHANGED <<victims, current, list, trees>>

-----------------------------------------------------------------------------
ListNext ==
  \/ \E r \in Results : SearchBegins(r) \/ VictimsEvent(r) \/ ResultsDrawn(r)
  \/ LoadMoreVictims \/ VictimAnswers
  \/ \E k \in DOMAIN list.cards : ToggleVictimTree(k)
  \/ \E i \in DOMAIN trees.asked : ManifestAnswered(i)

ViewerNext ==
  \/ \E f \in Files : ViewVictimFile(f)
  \/ FileAnswers \/ CloseFileViewer

-----------------------------------------------------------------------------
(***************************************************************************)
(* Properties.                                                             *)
(***************************************************************************)
\* In whatever order pages are asked for and answered, none is held without the
\* one before it; each is held once and in order as long as the button was not
\* clicked while a page of the same result was pending.
NoPageIsSkipped ==
  \A r \in Results : \A i \in DOMAIN victims[r].pages :
    LET pages == victims[r].pages
    IN /\ pages[i] = 1 \/ \E j \in 1 .. (i - 1) : pages[j] + 1 = pages[i]
       /\ ~victims[r].twice => pages[i] = i

\* The list shows every victim of the result it was drawn from, a search that has
\* begun since included, each one once and in order; nothing else is in it unless
\* a page of another result was answered after it was drawn.
ListShowsWhatIsHeld ==
  LET cards == list.cards
      own == {k \in DOMAIN cards : cards[k].log[1] = list.drawn}
  IN IF list.drawn = NoSearch THEN cards = <<>>
     ELSE LET held == CardsOf(list.drawn, victims[list.drawn].pages)
          IN /\ own = DOMAIN cards \/ list.mixed
             /\ \A k \in own : cards[k].idx \in DOMAIN held /\ cards[k] = held[cards[k].idx]
             /\ \A i \in DOMAIN held : \E k \in own : cards[k].idx = i
             /\ \A j, k \in own : j < k => cards[j].idx < cards[k].idx

\* However trees are opened and closed while their manifests are pending, an open
\* tree shows something; it shows "loading" only if an answer is to come, or if
\* a page of victims came first and took the element of the answer away.  What it
\* shows is the tree of its own victim, unless cards of two results share numbers.
TreesSettle ==
  \A k \in DOMAIN list.cards :
    LET tree == trees.elements[k]
    IN /\ tree.open => tree.body # "empty"
       /\ tree.body = "loading" => tree.orphan \/ \E i \in DOMAIN trees.asked : trees.asked[i].at = k
       /\ tree.body = "tree" =>
            tree.of \in trees.cached /\ (list.mixed \/ tree.of = list.cards[k].log)

\* The viewer never waits in vain, and shows the file of its title, or one that
\* was still to come when that was opened: a late answer is taken for the last.
ViewerShowsItsFile ==
  /\ viewer.content = "loading" => viewer.asked # <<>>
  /\ viewer.visible => viewer.content \in {"loading", "error", viewer.title} \cup viewer.overtaken

\* What the victims of a result show through searches, late pages, late trees and
\* late files, the stated mixtures of old and new included.
VictimsAreShown == NoPageIsSkipped /\ ListShowsWhatIsHeld /\ TreesSettle /\ ViewerShowsItsFile

=============================================================================
