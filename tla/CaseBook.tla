------------------------------- MODULE CaseBook -------------------------------
(***************************************************************************)
(* The saved cases (cases.js) of the tabs of one browser.  A tab reads      *)
(* localStorage when it loads, changes its own list and writes the whole    *)
(* list back.  saveCase takes the result's counts, awaits the hash of the   *)
(* query and takes the rest, the snapshot and the place of the case id,     *)
(* from the result that is current by then.                                 *)
(***************************************************************************)
EXTENDS Integers, Sequences, FiniteSets, SequencesExt, FiniteSetsExt

CONSTANTS
  Tabs,        \* tabs of the browser
  CaseCap,     \* cases kept by saveCase (50)
  MaxResults,  \* bound on the results a tab shows
  MaxSaves,    \* bound on saves, in all tabs
  MaxPending   \* bound on saves of a tab that wait for their hash

ASSUME CaseBookAssumption ==
  /\ CaseCap \in Nat \ {0} /\ MaxResults \in Nat /\ MaxSaves \in Nat
  /\ MaxPending \in Nat

VARIABLES
  cases,      \* the list of each tab
  stored,     \* nx_cases in localStorage
  current,    \* currentResult of each tab: its number, and its case_id
  saving,     \* the saves of each tab that wait for their hash
  saves,      \* saves begun: their number stands for the time in the id
  overlapped, \* the saves during which the tab took another result
  behind,     \* the tabs whose list another tab has written over since they loaded
  gone,       \* cases deleted, or pushed out by the cap
  forgot      \* the tabs whose list lost its oldest case to a save that failed

caseVars == <<cases, stored, current, saving, saves, overlapped, behind, gone, forgot>>

NoCase == 0
NoResult == 0

\* A case written before snapshots were left out: it holds its result whole.
OldResult == -1
LegacyCase == [id |-> NoCase, of |-> OldResult, summary |-> OldResult]

IdsOf(list) == {c.id : c \in ToSet(list)}

CaseBookInit ==
  /\ \E old \in {<<>>, <<LegacyCase>>} : stored = old /\ cases = [t \in Tabs |-> old]
  /\ current = [t \in Tabs |-> [n |-> NoResult, case |-> NoCase]]
  /\ saving = [t \in Tabs |-> <<>>]
  /\ saves = 0
  /\ overlapped = {} /\ behind = {} /\ gone = {} /\ forgot = {}

-----------------------------------------------------------------------------
(***************************************************************************)
(* persistCases.  Any list but the empty one may be refused: notes, which   *)
(* are left out, take room too.  Only saveCase looks at the answer.         *)
(***************************************************************************)
CanBeRefused(list) == list # <<>>

Persist(t, list, ok) ==
  IF ok THEN stored' = list /\ behind' = (Tabs \ {t}) \cup (behind \ {t})
        ELSE CanBeRefused(list) /\ UNCHANGED <<stored, behind>>

-----------------------------------------------------------------------------
(***************************************************************************)
(* saveCase.                                                               *)
(***************************************************************************)
\* A search of the tab, or a legacy case, puts another object in currentResult.
TakeResult(t, n) ==
  /\ current' = [current EXCEPT ![t] = [n |-> n, case |-> NoCase]]
  /\ overlapped' = overlapped \cup {c.id : c \in ToSet(saving[t])}

NewResultShown(t) ==
  /\ current[t].n < MaxResults
  /\ TakeResult(t, Max({current[t].n, NoResult}) + 1)
  /\ UNCHANGED <<cases, stored, saving, saves, behind, gone, forgot>>

\* Up to the await: the query, the counts, the id.
SaveCase(t) ==
  /\ current[t].n # NoResult
  /\ saves < MaxSaves /\ Len(saving[t]) < MaxPending
  /\ saves' = saves + 1
  /\ saving' = [saving EXCEPT ![t] = Append(@, [id |-> saves + 1, of |-> current[t].n])]
  /\ UNCHANGED <<cases, stored, current, overlapped, behind, gone, forgot>>

WithoutCase(list, id) ==
  FoldLeft(LAMBDA kept, c : IF c.id = id THEN kept ELSE Append(kept, c), <<>>, list)

AfterFailedSave(list, id) == WithoutCase(list, id)

KeepsOneTooFew(list, c) ==
  SubSeq(<<c>> \o list, 1, Min({CaseCap - 1, Len(list) + 1}))           \* variant

WithCase(list, c) == SubSeq(<<c>> \o list, 1, Min({CaseCap, Len(list) + 1}))

\* After the await, whatever became of the hash.
CaseSaved(t, i) ==
  LET begun == saving[t][i]
      id == begun.id
      new == [id |-> id, of |-> begun.of, summary |-> current[t].n]
      list == WithCase(cases[t], new)
      pushedOut == IF Len(cases[t]) = CaseCap THEN {Last(cases[t]).id} ELSE {}
  IN \E ok \in BOOLEAN :
       /\ current' = [current EXCEPT ![t].case = id]
       /\ Persist(t, list, ok)
       /\ cases' = [cases EXCEPT ![t] = IF ok THEN list ELSE AfterFailedSave(list, id)]
       /\ gone' = IF ok THEN gone \cup pushedOut ELSE gone
       /\ forgot' = IF ok \/ pushedOut = {} THEN forgot ELSE forgot \cup {t}
       /\ saving' = [saving EXCEPT ![t] = RemoveAt(@, i)]
       /\ UNCHANGED <<saves, overlapped>>

-----------------------------------------------------------------------------
(***************************************************************************)
(* deleteCase, clearAllCases, saveCaseNote, loadCase, and a new page load. *)
(***************************************************************************)
SetCases(t, list) ==
  /\ cases' = [cases EXCEPT ![t] = list]
  /\ \E ok \in BOOLEAN : Persist(t, list, ok)

DeleteCase(t, id) ==
  /\ SetCases(t, WithoutCase(cases[t], id))
  /\ gone' = gone \cup {id}
  /\ UNCHANGED <<current, saving, saves, overlapped, forgot>>

ClearAllCases(t) ==
  /\ SetCases(t, <<>>)
  /\ gone' = gone \cup IdsOf(cases[t])
  /\ UNCHANGED <<current, saving, saves, overlapped, forgot>>

\* saveCaseNote: the whole list is written; the notes are left out.
SaveCaseNote(t) ==
  /\ cases[t] # <<>>
  /\ SetCases(t, cases[t])
  /\ UNCHANGED <<current, saving, saves, overlapped, gone, forgot>>

\* Only a legacy case brings a result; another one asks for a new search.
LoadCase(t) ==
  /\ LegacyCase.id \in IdsOf(cases[t])
  /\ TakeResult(t, OldResult)
  /\ UNCHANGED <<cases, stored, saving, saves, behind, gone, forgot>>

ReloadTab(t) ==
  /\ cases' = [cases EXCEPT ![t] = stored]
  /\ current' = [current EXCEPT ![t] = [n |-> NoResult, case |-> NoCase]]
  /\ saving' = [saving EXCEPT ![t] = <<>>]
  /\ behind' = behind \ {t} /\ forgot' = forgot \ {t}
  /\ UNCHANGED <<stored, saves, overlapped, gone>>

CasesNext ==
  \E t \in Tabs :
    \/ NewResultShown(t) \/ SaveCase(t) \/ LoadCase(t) \/ ClearAllCases(t)
    \/ SaveCaseNote(t) \/ ReloadTab(t)
    \/ \E i \in DOMAIN saving[t] : CaseSaved(t, i)
    \/ \E id \in IdsOf(cases[t]) : DeleteCase(t, id)

CasesSpec == CaseBookInit /\ [][CasesNext]_caseVars

-----------------------------------------------------------------------------
(***************************************************************************)
(* Properties.                                                             *)
(***************************************************************************)
\* A case is of one search, and the result that bears its id is the result it
\* was made from, unless the tab took another result while the hash was pending.
CaseIsOfOneSearch ==
  \A t \in Tabs :
    /\ \A c \in ToSet(cases[t]) : c.id \notin overlapped => c.summary = c.of
    /\ \A c \in ToSet(cases[t]) :
         (c.id # NoCase /\ c.id \notin overlapped /\ current[t].case = c.id)
           => current[t].n = c.of

\* However saves end, whatever fits or not: a tab over whose list no other has
\* written shows no case that the next page load will not find.
NothingOnlyInMemory ==
  \A t \in Tabs \ behind : IdsOf(cases[t]) \subseteq IdsOf(stored)

\* A case leaves the storage because it was deleted, or because it was the oldest
\* of a full list; unless the tab that writes has a list that is out of date: another
\* tab has written since it loaded, or a failed save of its own has shortened it.
\* (A write leaves every tab behind but the one that writes.)
NoSilentLoss ==
  [][\/ IdsOf(stored) \ IdsOf(stored') \subseteq gone'
     \/ \E t \in behind \cup forgot : behind' = Tabs \ {t}]_caseVars

\* A case is of the search it was saved for and is lost only as the user was told.
CasesAreSafe == []CaseIsOfOneSearch /\ []NothingOnlyInMemory /\ NoSilentLoss

=============================================================================
