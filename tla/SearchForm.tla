------------------------------ MODULE SearchForm ------------------------------
(***************************************************************************)
(* The search form and the scan box of the page (search.js, panels.js,      *)
(* state.js): the chips that choose modules, and the rows that a running    *)
(* search adds, one for each step it names.  The rows are kept in a map     *)
(* beside the document, which a search of the v2 engine empties and one of  *)
(* the legacy engine does not.                                              *)
(***************************************************************************)
EXTENDS Naturals, FiniteSets

CONSTANTS
  CATEGORIES,   \* the modules of each category: a function
  FirstCat,     \* activeCat at first
  DefaultMods,  \* selected by init
  Steps,        \* the labels of rows
  MaxScans      \* bound on the searches of a page

ASSUME SearchFormAssumption ==
  /\ FirstCat \in DOMAIN CATEGORIES /\ DefaultMods \subseteq CATEGORIES[FirstCat]
  /\ MaxScans \in Nat

VARIABLES
  mode, activeCat, selectedMods,
  lit,         \* the chips that are lit
  chosen,      \* a category has been chosen since the page was loaded
  engine,      \* which startSearch the page has
  scans,       \* searches begun
  asksFor,      \* what the running search asks for: mode and modules
  box,         \* the rows in the document: label to state
  moduleRows,  \* the labels that have a row, as the page remembers
  named,       \* the labels the running search has named, those named twice among them
  before,      \* labels named by earlier searches, where the page remembers them
  last         \* the label named last

formVars == <<mode, activeCat, selectedMods, lit, chosen>>
scanVars == <<engine, scans, asksFor, box, moduleRows, named, before, last>>

NoStep == "none"
NoRows == [l \in {} |-> "active"]

\* init draws the chips before it selects the default modules.
FormInit ==
  /\ mode = "auto" /\ activeCat = FirstCat
  /\ lit = {} /\ selectedMods = DefaultMods /\ chosen = FALSE
  /\ engine \in {"legacy", "v2"} /\ scans = 0
  /\ asksFor = [mode |-> "none", modules |-> {}]
  /\ box = NoRows /\ moduleRows = {} /\ before = {} /\ last = NoStep
  /\ named = [once |-> {}, again |-> {}]

-----------------------------------------------------------------------------
(* The chips.                                                                  *)

SetMode(m) == mode' = m /\ UNCHANGED <<activeCat, selectedMods, lit, chosen, scanVars>>

\* selectCat, which draws the chips of the category anew.
SelectCat(c) ==
  /\ activeCat' = c /\ selectedMods' = CATEGORIES[c] /\ lit' = CATEGORIES[c]
  /\ chosen' = TRUE /\ UNCHANGED <<mode, scanVars>>

Toggled(set, m) == IF m \in set THEN set \ {m} ELSE set \cup {m}

LitAfter(m, selected) == (lit \ {m}) \cup ({m} \cap selected)

ToggleMod(m) ==
  /\ m \in CATEGORIES[activeCat]
  /\ selectedMods' = Toggled(selectedMods, m)
  /\ lit' = LitAfter(m, selectedMods')
  /\ UNCHANGED <<mode, activeCat, chosen, scanVars>>

-----------------------------------------------------------------------------
(* The scan box.                                                               *)

RowsAfterReset(rows) == IF engine = "v2" THEN {} ELSE rows

\* The beginning of startSearch, of resetScanUi in the other engine.
BeginScan ==
  /\ scans < MaxScans /\ scans' = scans + 1
  /\ asksFor' = [mode |-> mode, modules |-> selectedMods]
  /\ box' = NoRows /\ moduleRows' = RowsAfterReset(moduleRows)
  /\ before' = IF engine = "v2" THEN {} ELSE before \cup named.once
  /\ named' = [once |-> {}, again |-> {}] /\ last' = NoStep
  /\ UNCHANGED <<formVars, engine>>

OthersStayActive(rows) == rows                                        \* variant

OthersAreDone(rows) ==
  [l \in DOMAIN rows |-> IF rows[l] = "active" THEN "done" ELSE rows[l]]

\* addModuleRow.  A row that is remembered is changed where it is, which may be
\* outside the document.
AddModuleRow(l, state) ==
  /\ IF l \in moduleRows
     THEN /\ box' = [k \in DOMAIN box |-> IF k = l THEN state ELSE box[k]]
          /\ UNCHANGED moduleRows
     ELSE /\ moduleRows' = moduleRows \cup {l}
          /\ box' = [k \in DOMAIN box \cup {l} |-> IF k = l THEN state ELSE OthersAreDone(box)[k]]
  /\ named' = [once |-> named.once \cup {l},
               again |-> named.again \cup ({l} \cap named.once)]
  /\ last' = l
  /\ UNCHANGED <<formVars, engine, scans, asksFor, before>>

\* markModuleDone.
MarkModuleDone(l) ==
  /\ box' = [k \in DOMAIN box |-> IF k = l THEN "done" ELSE box[k]]
  /\ UNCHANGED <<formVars, engine, scans, asksFor, moduleRows, named, before, last>>

FormNext ==
  \/ \E m \in {"auto", "manual"} : SetMode(m)
  \/ \E c \in DOMAIN CATEGORIES : SelectCat(c)
  \/ \E m \in UNION {CATEGORIES[c] : c \in DOMAIN CATEGORIES} : ToggleMod(m)
  \/ BeginScan

ScanNext ==
  \/ BeginScan
  \/ /\ scans > 0
     /\ \E l \in Steps : MarkModuleDone(l) \/ \E s \in {"active", "error"} : AddModuleRow(l, s)

FormSpec == FormInit /\ [][FormNext \/ ScanNext]_<<formVars, scanVars>>

-----------------------------------------------------------------------------
(***************************************************************************)
(* Properties.                                                             *)
(***************************************************************************)
\* A module whose chip is lit is asked for; once a category has been chosen, no
\* other is.  Before, the default modules are asked for with their chips unlit.
ChipsShowTheSelection ==
  /\ lit \subseteq selectedMods
  /\ selectedMods \ lit \subseteq (IF chosen THEN {} ELSE DefaultMods)

\* The box shows the rows of the running search only, the step named last among
\* them, and no earlier one as active; in the legacy engine a step that an earlier
\* search has named is left out.  A step that had a row already when it was named
\* last does not end the one before it.
ScanFollowsTheSearch ==
  /\ DOMAIN box = named.once \ before
  /\ \A l \in DOMAIN box :
       box[l] = "active" => l = last \/ l \in named.again \/ last \in before \cup named.again

\* Chips and scan box show what is selected and what runs.
FormFollowsTheSearch == ChipsShowTheSelection /\ ScanFollowsTheSearch

=============================================================================
