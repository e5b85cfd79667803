------------------------------- MODULE CaseLists -------------------------------
(***************************************************************************)
(* Where the saved cases of a tab are listed: the cases panel (cases.js),   *)
(* drawn from memory when it opens and by what is deleted in it, and the    *)
(* rail of the signal page (v2-search.js), drawn from localStorage with     *)
(* every event of a running search.  A write to localStorage may be         *)
(* refused, and the cap on cases drops the oldest at every save.  Times are *)
(* numbered by the saves of cases and notes that have begun.                *)
(***************************************************************************)
EXTENDS Naturals, Sequences, FiniteSets, SequencesExt, FiniteSetsExt

CONSTANTS
  RailSize,    \* 4
  CasesKept,   \* 50
  MaxChanges   \* bound on the saves of cases and notes

ASSUME CaseListsAssumption ==
  RailSize \in Nat \ {0} /\ CasesKept \in Nat \ {0} /\ MaxChanges \in Nat

VARIABLES
  book,        \* cases, newest first: id, whether it has a hash, updated_at
  written,     \* nx_cases in localStorage
  changes,     \* saves begun so far: the time
  hashing,     \* the saves that wait for their hash, each by its id
  panel,       \* the cases panel: whether it is open, and the ids drawn in it
  rail,        \* the rail: whether it is drawn, and the ids on it
  sinceDrawn,  \* cases saved since the panel was drawn
  pushedOut,   \* cases the cap has dropped since then
  unwritten    \* cases whose last change is in memory only: the write was refused

listVars ==
  <<book, written, changes, hashing, panel, rail, sinceDrawn, pushedOut, unwritten>>

InBook == {c.id : c \in ToSet(book)}

\* caseSortTime, and the order of getSafeSignalCases: as many cases come before
\* one as were touched after it.
Later(set, c) == {d \in set : d.updated > c.updated}

LatestFirst(set) ==
  [i \in 1 .. Cardinality(set) |-> CHOOSE c \in set : Cardinality(Later(set, c)) = i - 1]
IdsInOrder(list) == [i \in DOMAIN list |-> list[i].id]

PanelClosed == [open |-> FALSE, ids |-> <<>>]
NoRail == [drawn |-> FALSE, ids |-> <<>>]

ListsInit ==
  /\ book = <<>> /\ written = <<>> /\ changes = 0 /\ hashing = {}
  /\ panel = PanelClosed /\ rail = NoRail
  /\ sinceDrawn = {} /\ pushedOut = {} /\ unwritten = {}

\* Another load of the page reads what is stored.
PageIsLoaded ==
  /\ book' = written /\ hashing' = {} /\ panel' = PanelClosed /\ rail' = NoRail
  /\ sinceDrawn' = {} /\ pushedOut' = {} /\ unwritten' = {}
  /\ UNCHANGED <<written, changes>>

-----------------------------------------------------------------------------
(***************************************************************************)
(* persistCases: any list may be refused but the empty one.  Only saveCase  *)
(* looks at the answer.                                                    *)
(***************************************************************************)
IsWritten == written' = book' /\ unwritten' = {}
IsRefused(ids) == written' = written /\ unwritten' = unwritten \cup ids

-----------------------------------------------------------------------------
(* The panel.                                                                  *)

\* renderCasesPanel.
Drawn(cases) == [open |-> TRUE, ids |-> IdsInOrder(LatestFirst(ToSet(cases)))]

DrawsPanel(cases) == panel' = Drawn(cases) /\ sinceDrawn' = {} /\ pushedOut' = {}

\* toggleCasesPanel.
TogglePanel ==
  /\ \/ ~panel.open /\ DrawsPanel(book)
     \/ panel.open /\ panel' = [panel EXCEPT !.open = FALSE] /\ UNCHANGED <<sinceDrawn, pushedOut>>
  /\ UNCHANGED <<book, written, changes, hashing, rail, unwritten>>

\* saveCase up to its await, which sets the id and both times.
SaveBegins ==
  /\ changes < MaxChanges /\ changes' = changes + 1
  /\ hashing' = hashing \cup {changes + 1}
  /\ UNCHANGED <<book, written, panel, rail, sinceDrawn, pushedOut, unwritten>>

\* What the cap leaves of the book when a case comes before it, and what it drops.
Kept == SubSeq(book, 1, Min({CasesKept - 1, Len(book)}))
OverCap == IF Len(book) = CasesKept THEN {book[CasesKept].id} ELSE {}

\* saveCase behind it, with the panel open or closed.  Of a save that is refused the
\* new case is taken out of memory again, but the one the cap dropped is not put back.
CaseIsSaved(id, hashed) ==
  /\ hashing' = hashing \ {id}
  /\ pushedOut' = pushedOut \cup OverCap
  /\ \/ /\ book' = <<[id |-> id, hashed |-> hashed, updated |-> id]>> \o Kept
        /\ sinceDrawn' = sinceDrawn \cup {id}
        /\ IsWritten
     \/ /\ book' = Kept
        /\ sinceDrawn' = sinceDrawn
        /\ IsRefused(OverCap)
  /\ UNCHANGED <<changes, panel, rail>>

\* A note is saved when its field loses the focus; the panel is not drawn again.
NoteIsSaved(i) ==
  /\ panel.open /\ book[i].id \in ToSet(panel.ids)
  /\ changes < MaxChanges /\ changes' = changes + 1
  /\ book' = [book EXCEPT ![i].updated = changes + 1]
  /\ IsWritten \/ IsRefused({book[i].id})
  /\ UNCHANGED <<hashing, panel, rail, sinceDrawn, pushedOut>>

Without(id) ==
  FoldLeft(LAMBDA kept, c : IF c.id = id THEN kept ELSE Append(kept, c), <<>>, book)

\* deleteCase and clearAllCases.  A case the cap has dropped can still be clicked.
DeleteListed(id) ==
  /\ panel.open
  /\ book' = Without(id) /\ DrawsPanel(book')
  /\ IsWritten \/ (book' # <<>> /\ IsRefused({id}))
  /\ UNCHANGED <<changes, hashing, rail>>

ClearBook ==
  /\ panel.open
  /\ book' = <<>> /\ DrawsPanel(book') /\ IsWritten
  /\ UNCHANGED <<changes, hashing, rail>>

-----------------------------------------------------------------------------
(* The rail.                                                                   *)

FirstOfBook ==                                                        \* variant
  LET safe == SelectSeq(written, LAMBDA c : c.hashed)
  IN  IdsInOrder(SubSeq(safe, 1, Min({RailSize, Len(safe)})))

\* safeStoredCase drops a case without a hash.  What history stores never has one.
SafeSignalCases ==
  LET safe == LatestFirst({c \in ToSet(written) : c.hashed})
  IN  IdsInOrder(SubSeq(safe, 1, Min({RailSize, Len(safe)})))

\* renderSignalCases, by an event of the running search.
DrawRail ==
  /\ rail' = [drawn |-> TRUE, ids |-> SafeSignalCases]
  /\ UNCHANGED <<book, written, changes, hashing, panel, sinceDrawn, pushedOut, unwritten>>

ListsNext ==
  \/ PageIsLoaded \/ TogglePanel \/ SaveBegins \/ ClearBook \/ DrawRail
  \/ \E id \in hashing, hashed \in BOOLEAN : CaseIsSaved(id, hashed)
  \/ \E i \in DOMAIN book : NoteIsSaved(i)
  \/ \E id \in ToSet(panel.ids) : DeleteListed(id)

ListsSpec == ListsInit /\ [][ListsNext]_listVars

-----------------------------------------------------------------------------
(***************************************************************************)
(* Properties.                                                             *)
(***************************************************************************)
\* An open panel lists every case there is, but for those saved since it was drawn;
\* none that is gone is listed, but for those the cap has dropped since then.
PanelShowsTheCases == panel.open => ToSet(panel.ids) = (InBook \cup pushedOut) \ sinceDrawn

\* What the rail shows of the cases, but for those whose last write was refused:
\* each one on it has a hash, and none that is left out was touched after one on it.
ShowsTheLatest(ids, others) ==
  /\ Len(ids) <= RailSize
  /\ \A id \in ToSet(ids) \ others : \E c \in ToSet(book) : c.id = id /\ c.hashed
  /\ \A c, d \in {e \in ToSet(book) : e.id \notin others} :
       (c.hashed /\ c.id \notin ToSet(ids) /\ d.id \in ToSet(ids))
         => Len(ids) = RailSize /\ c.updated < d.updated

\* When the rail is drawn it is in step with memory, whatever was saved, noted and
\* deleted; only the cases whose last write the storage refused may differ.
RailShowsTheLatest ==
  [][rail' # rail /\ rail'.drawn => ShowsTheLatest(rail'.ids, unwritten)]_listVars

\* Both lists of cases follow the case book.
ListsFollowTheBook == []PanelShowsTheCases /\ RailShowsTheLatest

=============================================================================
