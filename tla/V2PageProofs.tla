----------------------------- MODULE V2PageProofs -----------------------------
(***************************************************************************)
(* Theorems about V2Page, the page of the v2 search, for any number of     *)
(* overlapping searches, any connectors and any plans of them.             *)
(***************************************************************************)
EXTENDS V2Page, SequenceTheorems, FiniteSetTheorems, TLAPS

-----------------------------------------------------------------------------
(***************************************************************************)
(* The log of a job and the progress made of it.                           *)
(***************************************************************************)
LEMMA PlanFacts ==
  ASSUME NEW plan \in Plans
  PROVE  /\ plan \in Seq(Connectors)
         /\ Len(plan) \in Nat \ {0}
         /\ Range(plan) = {plan[i] : i \in 1..Len(plan)}
         /\ Range(plan) \in SUBSET Connectors
         /\ Range(plan) # {}
<1>1. plan \in Seq(Connectors) /\ plan # <<>>
  BY V2PageAssumption
<1>2. Len(plan) \in Nat \ {0}
  BY <1>1, EmptySeq, LenProperties
<1>3. DOMAIN plan = 1..Len(plan) /\ \A i \in 1..Len(plan) : plan[i] \in Connectors
  BY <1>1, ElementOfSeq, LenProperties
<1>4. Range(plan) = {plan[i] : i \in 1..Len(plan)}
  BY <1>3 DEF Range
<1>5. 1 \in 1..Len(plan)
  BY <1>2
<1> QED
  BY <1>1, <1>2, <1>3, <1>4, <1>5

\* Where an event of each type stands in the log.
LEMMA PlaceInLog ==
  ASSUME NEW plan \in Plans, NEW n \in Nat, n < LogLength(plan)
  PROVE  /\ LogLength(plan) = 2 * Len(plan) + 3
         /\ LogLength(plan) \in Nat
         /\ EventAt(plan, n + 1) = Event("job_started", "none") => n = 0
         /\ EventAt(plan, n + 1) = Event("summary", "none") => n + 1 = LogLength(plan) - 1
         /\ EventAt(plan, n + 1) = Event("job_done", "none") => n + 1 = LogLength(plan)
         /\ \A c : EventAt(plan, n + 1) = Event("connector_started", c) =>
              \E i \in 1..Len(plan) : n + 1 = 2 * i /\ c = plan[i]
         /\ \A c : EventAt(plan, n + 1) = Event("connector_result", c) =>
              \E i \in 1..Len(plan) : n = 2 * i /\ c = plan[i]
<1> DEFINE m == Len(plan)
<1>1. m \in Nat \ {0}
  BY PlanFacts
<1>2. LogLength(plan) = 2 * m + 3
  BY DEF LogLength
<1> HIDE DEF m
<1>3. CASE n = 0
  <2>1. EventAt(plan, n + 1) = [type |-> "job_started", connector |-> "none"]
    BY <1>1, <1>2, <1>3 DEF EventAt, Event
  <2> QED
    BY <2>1, <1>1, <1>2, <1>3 DEF Event, m
<1>4. CASE n + 1 = LogLength(plan) - 1
  <2>1. EventAt(plan, n + 1) = [type |-> "summary", connector |-> "none"]
    BY <1>1, <1>2, <1>4 DEF EventAt, Event
  <2> QED
    BY <2>1, <1>1, <1>2, <1>4 DEF Event, m
<1>5. CASE n + 1 = LogLength(plan)
  <2>1. EventAt(plan, n + 1) = [type |-> "job_done", connector |-> "none"]
    BY <1>1, <1>2, <1>5 DEF EventAt, Event
  <2> QED
    BY <2>1, <1>1, <1>2, <1>5 DEF Event, m
<1>6. CASE n # 0 /\ n + 1 < LogLength(plan) - 1
  <2>1. EventAt(plan, n + 1) =
          [type |-> IF (n + 1) % 2 = 0 THEN "connector_started" ELSE "connector_result",
           connector |-> plan[(n + 1) \div 2]]
    BY <1>1, <1>2, <1>6 DEF EventAt, Event
  <2> DEFINE i == (n + 1) \div 2
  <2>2. i \in 1..m
    BY <1>1, <1>2, <1>6
  <2>3. /\ (n + 1) % 2 = 0 => n + 1 = 2 * i
        /\ (n + 1) % 2 # 0 => n = 2 * i
    OBVIOUS
  <2> HIDE DEF i
  <2>4. EventAt(plan, n + 1) =
          [type |-> IF (n + 1) % 2 = 0 THEN "connector_started" ELSE "connector_result",
           connector |-> plan[i]]
    BY <2>1 DEF i
  <2> QED
    BY <2>2, <2>3, <2>4, <1>1, <1>2, <1>6 DEF Event, m
<1> QED
  BY <1>1, <1>2, <1>3, <1>4, <1>5, <1>6

LEMMA PlaceOfStart ==
  ASSUME NEW plan \in Plans, NEW n \in Nat, n < LogLength(plan), NEW c,
         EventAt(plan, n + 1) = Event("connector_started", c)
  PROVE  \E i \in 1..Len(plan) : n + 1 = 2 * i /\ c = plan[i]
<1>1. \A d : EventAt(plan, n + 1) = Event("connector_started", d) =>
               \E i \in 1..Len(plan) : n + 1 = 2 * i /\ d = plan[i]
  BY PlaceInLog
<1> QED
  BY <1>1, Zenon

LEMMA PlaceOfResult ==
  ASSUME NEW plan \in Plans, NEW n \in Nat, n < LogLength(plan), NEW c,
         EventAt(plan, n + 1) = Event("connector_result", c)
  PROVE  \E i \in 1..Len(plan) : n = 2 * i /\ c = plan[i]
<1>1. \A d : EventAt(plan, n + 1) = Event("connector_result", d) =>
               \E i \in 1..Len(plan) : n = 2 * i /\ d = plan[i]
  BY PlaceInLog
<1> QED
  BY <1>1, Zenon

LEMMA Quotients ==
  ASSUME NEW a \in Nat, NEW b \in Nat, NEW n \in Nat \ {0}, a <= b
  PROVE  a \div n \in Nat /\ b \div n \in Nat /\ a \div n <= b \div n
<1>1. a \div n \in Int /\ b \div n \in Int
  OBVIOUS
<1>2. n * (a \div n) <= a /\ a < n * ((a \div n) + 1)
  OBVIOUS
<1>3. n * (b \div n) <= b /\ b < n * ((b \div n) + 1)
  OBVIOUS
<1> DEFINE x == a \div n
           y == b \div n
<1> HIDE DEF x, y
<1>4. \A i, j \in Int : i < j => n * (i + 1) <= n * j
  OBVIOUS
<1>5. x \in Int /\ y \in Int /\ n * x <= a /\ a < n * (x + 1) /\ n * y <= b /\ b < n * (y + 1)
  BY <1>1, <1>2, <1>3 DEF x, y
<1>6. x >= 0 /\ y >= 0
  BY <1>4, <1>5
<1>7. x <= y
  BY <1>4, <1>5
<1> QED
  BY <1>1, <1>5, <1>6, <1>7 DEF x, y

\* With more results of the same plan the bar is not shorter.
LEMMA ProgressGrows ==
  ASSUME NEW r \in PageResults, NEW q \in PageResults, r.planned # {},
         q.planned = r.planned, DOMAIN r.results \subseteq DOMAIN q.results
  PROVE  /\ UpdateProgress(r) \in 10..95 /\ UpdateProgress(q) \in 10..95
         /\ UpdateProgress(r) <= UpdateProgress(q)
<1> DEFINE p == Cardinality(r.planned)
           k == Cardinality(DOMAIN r.results)
           l == Cardinality(DOMAIN q.results)
<1>1. /\ r.planned \in SUBSET Connectors
      /\ DOMAIN q.results \in SUBSET Connectors
      /\ DOMAIN r.results \in SUBSET DOMAIN q.results
  BY DEF PageResults
<1>2. /\ IsFiniteSet(r.planned) /\ IsFiniteSet(DOMAIN q.results)
  BY <1>1, V2PageAssumption, FS_Subset
<1>3. l \in Nat /\ k \in Nat /\ k <= l
  BY <1>1, <1>2, FS_Subset, FS_CardinalityType
<1>4. p \in Nat \ {0}
  BY <1>2, FS_EmptySet, FS_CardinalityType
<1>5. UpdateProgress(r) = LET pct == 10 + (2 * 85 * k + p) \div (2 * p)
                          IN CASE p = 0 -> 15 [] p > 0 /\ pct > 95 -> 95 [] OTHER -> pct
  BY DEF UpdateProgress
<1>6. UpdateProgress(q) = LET pct == 10 + (2 * 85 * l + p) \div (2 * p)
                          IN CASE p = 0 -> 15 [] p > 0 /\ pct > 95 -> 95 [] OTHER -> pct
  BY DEF UpdateProgress
<1> HIDE DEF p, k, l
<1> DEFINE x == (2 * 85 * k + p) \div (2 * p)
           y == (2 * 85 * l + p) \div (2 * p)
<1>7. x \in Nat /\ y \in Nat /\ x <= y
  <2>1. /\ 2 * 85 * k + p \in Nat /\ 2 * 85 * l + p \in Nat /\ 2 * p \in Nat \ {0}
        /\ 2 * 85 * k + p <= 2 * 85 * l + p
    BY <1>3, <1>4
  <2> QED
    BY <2>1, Quotients
<1> HIDE DEF x, y
<1>8. UpdateProgress(r) = IF 10 + x > 95 THEN 95 ELSE 10 + x
  BY <1>4, <1>5 DEF x
<1>9. UpdateProgress(q) = IF 10 + y > 95 THEN 95 ELSE 10 + y
  BY <1>4, <1>6 DEF y
<1> QED
  BY <1>7, <1>8, <1>9

-----------------------------------------------------------------------------
(***************************************************************************)
(* What every step keeps: the parts of the invariant that speak of one     *)
(* result, whichever search an event comes from.                           *)
(***************************************************************************)
\* The result of a step is rendered: the selection is one of its items.
LEMMA Rendered ==
  ASSUME selected = NoKey \/ selected \in Connectors \X (Nat \ {0}),
         currentResult' \in PageResults, RenderSignalUi, signal' = signal
  PROVE  /\ SelectedEvidenceIsListed'
         /\ selected' = NoKey \/ selected' \in Connectors \X (Nat \ {0})
<1> DEFINE r == currentResult'
           keys == EvidenceKeys(r)
<1>1. \A k \in keys : k \in Connectors \X (Nat \ {0})
  <2> TAKE k \in keys
  <2>1. PICK c \in DOMAIN r.results : \E i \in 1 .. r.results[c].evidence : k = <<c, i>>
    BY DEF EvidenceKeys
  <2>2. PICK D \in SUBSET Connectors : r.results \in [D -> ConnectorResults]
    BY DEF PageResults
  <2>3. c \in Connectors /\ r.results[c].evidence \in {0, 1}
    BY <2>1, <2>2 DEF ConnectorResults
  <2> QED
    BY <2>1, <2>3
<1>2. selected' = IF signal THEN SelectEvidence(r, selected) ELSE selected
  BY DEF RenderSignalUi
<1>3. SelectEvidence(r, selected) =
        IF keys = {} \/ selected \in keys THEN selected ELSE CHOOSE k \in keys : TRUE
  BY DEF SelectEvidence
<1>4. SelectedEvidenceIsListed' = ((signal' /\ keys # {}) => selected' \in keys)
  BY DEF SelectedEvidenceIsListed
<1> HIDE DEF keys
<1>5. keys # {} => (CHOOSE k \in keys : TRUE) \in keys
  OBVIOUS
<1>6. signal /\ keys # {} => selected' \in keys
  BY <1>2, <1>3, <1>5
<1>7. selected' = selected \/ selected' \in keys
  BY <1>2, <1>3, <1>5
<1> QED
  BY <1>1, <1>4, <1>6, <1>7

LEMMA RememberedTyped ==
  ASSUME NEW r \in PageResults, NEW s \in Searches, NEW seq \in Nat
  PROVE  RememberEvent(r, s, seq) \in PageResults
<1>1. [job |-> s, seq |-> seq] \in [job: Searches, seq: Nat]
  OBVIOUS
<1> DEFINE n == IF seq > r.last_seq THEN seq ELSE r.last_seq
           seen == r.seen \cup {[job |-> s, seq |-> seq]}
<1>2. n \in Nat /\ seen \in SUBSET [job: Searches, seq: Nat]
  BY <1>1 DEF PageResults
<1>3. RememberEvent(r, s, seq) = [r EXCEPT !.last_seq = n, !.seen = seen]
  BY DEF RememberEvent
<1> HIDE DEF n, seen
<1> QED
  BY <1>2, <1>3 DEF PageResults

\* An event remembered may be the highest of the result, or come late.
LEMMA RememberKeepsHighest ==
  ASSUME currentResult \in PageResults, HighestSeen, NEW s \in Searches, NEW seq \in Nat,
         currentResult'.last_seq = RememberEvent(currentResult, s, seq).last_seq,
         currentResult'.seen = RememberEvent(currentResult, s, seq).seen
  PROVE  HighestSeen'
<1> DEFINE new == [job |-> s, seq |-> seq]
           last == currentResult.last_seq
           seen == currentResult.seen
<1>1. /\ currentResult'.last_seq = IF seq > last THEN seq ELSE last
      /\ currentResult'.seen = seen \cup {new}
      /\ new.seq = seq
  BY DEF RememberEvent, PageResults
<1>2. last \in Nat /\ \A m \in seen : m.seq \in Nat
  BY DEF PageResults
<1>3. (\A m \in seen : m.seq <= last) /\ (last = 0 \/ \E m \in seen : m.seq = last)
  BY DEF HighestSeen
<1> HIDE DEF new, last, seen
<1>4. \A m \in currentResult'.seen : m.seq <= currentResult'.last_seq
  BY <1>1, <1>2, <1>3
<1>5. \/ currentResult'.last_seq = 0
      \/ \E m \in currentResult'.seen : m.seq = currentResult'.last_seq
  BY <1>1, <1>2, <1>3
<1> QED
  BY <1>4, <1>5 DEF HighestSeen

\* A step of a search that runs: of the others none is undisturbed.
LEMMA StepOfOneSearch ==
  ASSUME AloneInv, NEW s \in Searches, Running(s), NEW entry,
         search' = [search EXCEPT ![s] = entry], s \in DOMAIN search, DOMAIN search = Searches,
         entry.undisturbed = search[s].undisturbed,
         (Alone(s) /\ entry.at \in Awaiting \cup {"timer"}) => ShowsItsOwn(s)'
  PROVE  AloneInv'
<1>1. \A r \in Searches : search'[r] = IF r = s THEN entry ELSE search[r]
  OBVIOUS
<1>2. \A r \in Searches : Running(r)' => Running(r)
  BY <1>1 DEF Running
<1>3. \A r \in Searches : Alone(r)' => Alone(r)
  BY <1>1, <1>2 DEF Alone
<1>4. SUFFICES ASSUME NEW t \in Searches, Alone(t)'
               PROVE  (\A r \in Searches : Running(r)' => r = t) /\ ShowsItsOwn(t)'
  BY DEF AloneInv
<1>5. Alone(t) /\ \A r \in Searches : Running(r) => r = t
  BY <1>3, <1>4 DEF AloneInv
<1>6. s = t
  BY <1>5
<1>7. entry.at \in Awaiting \cup {"timer"}
  BY <1>1, <1>4, <1>6 DEF Alone, Running
<1> QED
  BY <1>2, <1>5, <1>6, <1>7

-----------------------------------------------------------------------------
(***************************************************************************)
(* How an action moves its search.                                         *)
(***************************************************************************)
SearchTypes ==
  [at: Places, plan: Plans \cup {<<>>}, seq: Nat, logged: Nat,
   undisturbed: BOOLEAN]

LEMMA SearchEntry ==
  ASSUME PageTyped, NEW s \in Searches
  PROVE  /\ search \in [Searches -> SearchTypes] /\ search[s] \in SearchTypes
         /\ DOMAIN search = Searches
         /\ search[s] = [at |-> search[s].at, plan |-> search[s].plan, seq |-> search[s].seq,
                         logged |-> search[s].logged, undisturbed |-> search[s].undisturbed]
  BY DEF PageTyped, PageTypeOK, SearchTypes

\* The search s goes to a place, with a plan and a position.
Moved(s, place, plan, seq, logged) ==
  search' = [search EXCEPT ![s] = [at |-> place, plan |-> plan, seq |-> seq,
                                   logged |-> logged, undisturbed |-> search[s].undisturbed]]

\* The same said of each search: an EXCEPT of two fields is read more easily so.
LEMMA MovedPointwise ==
  ASSUME NEW s \in Searches, NEW place, NEW plan, NEW seq, NEW logged,
         DOMAIN search' = Searches, search' = [r \in Searches |-> search'[r]],
         search \in [Searches -> SearchTypes],
         search'[s] = [at |-> place, plan |-> plan, seq |-> seq, logged |-> logged,
                       undisturbed |-> search[s].undisturbed],
         \A r \in Searches \ {s} : search'[r] = search[r]
  PROVE  Moved(s, place, plan, seq, logged)
  BY DEF Moved

LEMMA MovesOfActions ==
  ASSUME PageTyped, NEW s \in Searches
  PROVE  /\ \A place : MoveTo(s, place) =>
              Moved(s, place, search[s].plan, search[s].seq, search[s].logged)
         /\ \A place : Advance(s, place) =>
              Moved(s, place, search[s].plan, search[s].seq + 1, search[s].logged)
         /\ WaitForEvents(s) =>
              Moved(s, "streaming", search[s].plan, currentResult.last_seq, search[s].logged)
         /\ \A plan, logged :
              search' = [search EXCEPT ![s].at = "loading", ![s].plan = plan,
                                       ![s].logged = logged] =>
                Moved(s, "loading", plan, search[s].seq, logged)
<1>1. search[s] \in SearchTypes /\ search \in [Searches -> SearchTypes]
  BY SearchEntry
<1>2. ASSUME NEW place, MoveTo(s, place)
      PROVE  Moved(s, place, search[s].plan, search[s].seq, search[s].logged)
  <2>1. /\ DOMAIN search' = Searches /\ search' = [r \in Searches |-> search'[r]]
        /\ search'[s] = [at |-> place, plan |-> search[s].plan, seq |-> search[s].seq,
                         logged |-> search[s].logged, undisturbed |-> search[s].undisturbed]
        /\ \A r \in Searches \ {s} : search'[r] = search[r]
    BY <1>1, <1>2 DEF MoveTo, SearchTypes
  <2> QED
    BY <1>1, <2>1, MovedPointwise
<1>3. ASSUME NEW place, Advance(s, place)
      PROVE  Moved(s, place, search[s].plan, search[s].seq + 1, search[s].logged)
  <2>1. /\ DOMAIN search' = Searches /\ search' = [r \in Searches |-> search'[r]]
        /\ search'[s] = [at |-> place, plan |-> search[s].plan, seq |-> search[s].seq + 1,
                         logged |-> search[s].logged, undisturbed |-> search[s].undisturbed]
        /\ \A r \in Searches \ {s} : search'[r] = search[r]
    BY <1>1, <1>3 DEF Advance, SearchTypes
  <2> QED
    BY <1>1, <2>1, MovedPointwise
<1>4. ASSUME WaitForEvents(s)
      PROVE  Moved(s, "streaming", search[s].plan, currentResult.last_seq, search[s].logged)
  <2>1. /\ DOMAIN search' = Searches /\ search' = [r \in Searches |-> search'[r]]
        /\ search'[s] = [at |-> "streaming", plan |-> search[s].plan,
                         seq |-> currentResult.last_seq, logged |-> search[s].logged,
                         undisturbed |-> search[s].undisturbed]
        /\ \A r \in Searches \ {s} : search'[r] = search[r]
    BY <1>1, <1>4 DEF WaitForEvents, ConnectFrom, SearchTypes
  <2> QED
    BY <1>1, <2>1, MovedPointwise
<1>5. ASSUME NEW plan, NEW logged,
             search' = [search EXCEPT ![s].at = "loading", ![s].plan = plan,
                                      ![s].logged = logged]
      PROVE  Moved(s, "loading", plan, search[s].seq, logged)
  <2>1. /\ DOMAIN search' = Searches /\ search' = [r \in Searches |-> search'[r]]
        /\ search'[s] = [at |-> "loading", plan |-> plan, seq |-> search[s].seq,
                         logged |-> logged, undisturbed |-> search[s].undisturbed]
        /\ \A r \in Searches \ {s} : search'[r] = search[r]
    BY <1>1, <1>5 DEF SearchTypes
  <2> QED
    BY <1>1, <2>1, MovedPointwise
<1> QED
  BY <1>2, <1>3, <1>4, <1>5

\* What a move of a running search keeps, whatever else its action does.
LEMMA MovedKeeps ==
  ASSUME PageInv, NEW s \in Searches, Running(s),
         NEW place \in Places \ {"idle"}, NEW plan \in Plans \cup {<<>>}, NEW seq \in Nat,
         NEW logged \in Nat, Moved(s, place, plan, seq, logged),
         place \in {"loading", "streaming", "timer"} =>
           plan \in Plans /\ logged <= LogLength(plan),
         currentResult' \in PageResults, currentResult'.owner = currentResult.owner,
         (Alone(s) /\ place \in Awaiting \cup {"timer"}) => ShowsItsOwn(s)'
  PROVE  /\ search' \in [Searches -> SearchTypes]
         /\ \A r \in Searches : search'[r].at \in {"loading", "streaming", "timer"} =>
                                  /\ search'[r].plan \in Plans
                              /\ search'[r].logged <= LogLength(search'[r].plan)
         /\ OwnerHasBegun' /\ AloneInv'
<1> DEFINE entry == [at |-> place, plan |-> plan, seq |-> seq, logged |-> logged,
                     undisturbed |-> search[s].undisturbed]
<1>1. /\ search \in [Searches -> SearchTypes] /\ DOMAIN search = Searches
      /\ search[s].undisturbed \in BOOLEAN
  BY SearchEntry DEF PageInv, SearchTypes
<1>2. entry \in SearchTypes
  BY <1>1 DEF SearchTypes
<1>3. /\ search' = [search EXCEPT ![s] = entry]
      /\ entry.at = place /\ entry.plan = plan /\ entry.logged = logged
      /\ entry.undisturbed = search[s].undisturbed
  BY DEF Moved
<1> HIDE DEF entry
<1>4. \A r \in Searches : search'[r] = IF r = s THEN entry ELSE search[r]
  BY <1>1, <1>3
<1>5. search' \in [Searches -> SearchTypes]
  BY <1>1, <1>2, <1>3
<1>6. \A r \in Searches : search'[r].at \in {"loading", "streaming", "timer"} =>
                            search'[r].plan \in Plans /\ search'[r].logged <= LogLength(search'[r].plan)
  BY <1>3, <1>4 DEF PageInv, PageTyped
<1>7. OwnerHasBegun'
  <2>1. currentResult.owner \in Searches \cup {None}
    BY DEF PageInv, PageTyped, PageResults
  <2> QED
    BY <2>1, <1>3, <1>4 DEF PageInv, OwnerHasBegun
<1>8. AloneInv'
  BY <1>1, <1>3, StepOfOneSearch DEF PageInv
<1> QED
  BY <1>5, <1>6, <1>7, <1>8

\* The button and the scan box, when the search still awaits its log.
LEMMA ControlsOfAMove ==
  ASSUME PageInv, NEW s \in Searches, Running(s),
         NEW place \in Places, NEW plan, NEW seq, NEW logged,
         Moved(s, place, plan, seq, logged),
         \/ place \in Awaiting /\ page'.button = page.button /\ page'.scan = page.scan
         \/ place = "timer" /\ page'.button = TRUE /\ page'.scan = page.scan
         \/ search[s].at = "timer" /\ page'.button = page.button /\ page'.scan = FALSE
         \/ page'.button = TRUE /\ page'.scan = FALSE
  PROVE  ControlsComeBack'
<1>1. /\ \A r \in Searches : r # s => search'[r] = search[r]
      /\ search'[s].at = place
  <2>1. DOMAIN search = Searches
    BY SearchEntry DEF PageInv
  <2> QED
    BY <2>1 DEF Moved
<1>2. page'.button = TRUE \/ page'.button = page.button
  OBVIOUS
<1>3. ASSUME ~page'.button PROVE \E r \in Searches : search'[r].at \in Awaiting
  <2>1. page'.button = page.button
    BY <1>2, <1>3
  <2>2. PICK r \in Searches : search[r].at \in Awaiting
    BY <2>1, <1>3 DEF PageInv, ControlsComeBack
  <2> QED
    BY <2>1, <2>2, <1>1, <1>3 DEF Awaiting
<1>4. ASSUME page'.scan PROVE \E r \in Searches : Running(r)'
  <2>1. place \in Awaiting \cup {"timer"}
    BY <1>4
  <2> QED
    BY <2>1, <1>1 DEF Running
<1> QED
  BY <1>3, <1>4 DEF ControlsComeBack

-----------------------------------------------------------------------------
(***************************************************************************)
(* A step of a running search, and what follows for every such step.       *)
(***************************************************************************)
ConnectorsForward ==
  currentResult'.owner = currentResult.owner =>
    \A c \in ConnectorNames(currentResult) :
      /\ c \in ConnectorNames(currentResult') \/ ConnectorStatus(currentResult, c) = "pending"
      /\ c \in ConnectorNames(currentResult') =>
           Rank(ConnectorStatus(currentResult', c)) >= Rank(ConnectorStatus(currentResult, c))

BarForward ==
  \A s \in Searches :
    (search[s].at \in Awaiting /\ search'[s].undisturbed) => page'.pct >= page.pct

PageTypes == [scan: BOOLEAN, results: BOOLEAN, button: BOOLEAN, pct: 0 .. 100]

\* Starts and results of connectors are only added.
LEMMA ConnectorsKept ==
  ASSUME currentResult \in PageResults, currentResult' \in PageResults,
         currentResult.started \subseteq currentResult'.started,
         DOMAIN currentResult.results \subseteq DOMAIN currentResult'.results
  PROVE  ConnectorsForward
<1> SUFFICES ASSUME NEW c \in ConnectorNames(currentResult)
             PROVE  /\ \/ c \in ConnectorNames(currentResult')
                       \/ ConnectorStatus(currentResult, c) = "pending"
                    /\ Rank(ConnectorStatus(currentResult', c))
                         >= Rank(ConnectorStatus(currentResult, c))
  BY DEF ConnectorsForward
<1> DEFINE r == currentResult
           q == currentResult'
<1>1. /\ c \in DOMAIN r.results => r.results[c].status \in {"found", "blocked"}
      /\ c \in DOMAIN q.results => q.results[c].status \in {"found", "blocked"}
  BY DEF PageResults, ConnectorResults
<1>2. r.started \subseteq q.started /\ DOMAIN r.results \subseteq DOMAIN q.results
  OBVIOUS
<1>3. /\ ConnectorStatus(r, c) = IF c \in DOMAIN r.results THEN r.results[c].status
                                 ELSE IF c \in r.started THEN "running" ELSE "pending"
      /\ ConnectorStatus(q, c) = IF c \in DOMAIN q.results THEN q.results[c].status
                                 ELSE IF c \in q.started THEN "running" ELSE "pending"
  BY DEF ConnectorStatus
<1>4. c \in ConnectorNames(q) \/ (c \notin q.started /\ c \notin DOMAIN q.results)
  BY DEF ConnectorNames
<1> HIDE DEF r, q
<1>5. CASE c \in DOMAIN r.results
  BY <1>1, <1>2, <1>3, <1>4, <1>5 DEF Rank, r, q
<1>6. CASE c \notin DOMAIN r.results /\ c \in r.started
  BY <1>1, <1>2, <1>3, <1>4, <1>6 DEF Rank, r, q
<1>7. CASE c \notin DOMAIN r.results /\ c \notin r.started
  BY <1>1, <1>2, <1>3, <1>4, <1>7 DEF Rank, r, q
<1> QED
  BY <1>5, <1>6, <1>7

\* Search s moves on, and whatever it does to the page keeps the page in order.
SearchStep(s, place, plan, seq, logged) ==
  /\ Running(s) /\ place \in Places \ {"idle"} /\ plan \in Plans \cup {<<>>} /\ seq \in Nat
  /\ logged \in Nat
  /\ place \in {"loading", "streaming", "timer"} =>
       plan \in Plans /\ logged <= LogLength(plan)
  /\ Moved(s, place, plan, seq, logged)
  /\ signal' = signal
  /\ currentResult' \in PageResults /\ currentResult'.owner = currentResult.owner
  /\ currentResult.started \subseteq currentResult'.started
  /\ DOMAIN currentResult.results \subseteq DOMAIN currentResult'.results
  /\ HighestSeen'
  /\ RenderSignalUi \/ UNCHANGED <<currentResult, selected>>
  /\ modulesRan' \in SUBSET ModulesOf(Connectors)
  /\ page' \in PageTypes
  /\ \/ place \in Awaiting /\ page'.button = page.button /\ page'.scan = page.scan
     \/ place = "timer" /\ page'.button = TRUE /\ page'.scan = page.scan
     \/ search[s].at = "timer" /\ page'.button = page.button /\ page'.scan = FALSE
     \/ page'.button = TRUE /\ page'.scan = FALSE
  /\ Alone(s) /\ place \in Awaiting \cup {"timer"} => ShowsItsOwn(s)'
  /\ Alone(s) /\ search[s].at \in Awaiting => page'.pct >= page.pct

LEMMA SearchStepKeeps ==
  ASSUME PageInv, NEW s \in Searches, NEW place, NEW plan, NEW seq, NEW logged,
         SearchStep(s, place, plan, seq, logged)
  PROVE  PageInv' /\ ConnectorsForward /\ BarForward
<1> USE DEF SearchStep
<1>1. /\ search' \in [Searches -> SearchTypes]
      /\ \A r \in Searches : search'[r].at \in {"loading", "streaming", "timer"} =>
                               /\ search'[r].plan \in Plans
                              /\ search'[r].logged <= LogLength(search'[r].plan)
      /\ OwnerHasBegun' /\ AloneInv'
  BY MovedKeeps
<1>2. ControlsComeBack'
  BY ControlsOfAMove
<1>3. SelectedEvidenceIsListed' /\ (selected' = NoKey \/ selected' \in Connectors \X (Nat \ {0}))
  <2>1. selected = NoKey \/ selected \in Connectors \X (Nat \ {0})
    BY DEF PageInv, PageTyped, PageTypeOK
  <2>2. CASE RenderSignalUi
    BY <2>1, <2>2, Rendered
  <2>3. CASE UNCHANGED <<currentResult, selected>>
    BY <2>1, <2>3 DEF PageInv, SelectedEvidenceIsListed, EvidenceKeys
  <2> QED
    BY <2>2, <2>3
<1>4. PageTyped'
  BY <1>1, <1>3 DEF PageInv, PageTyped, PageTypeOK, PageTypes, SearchTypes
<1>5. ConnectorsForward
  BY ConnectorsKept DEF PageInv, PageTyped
<1>6. BarForward
  <2> SUFFICES ASSUME NEW t \in Searches, search[t].at \in Awaiting, search'[t].undisturbed
               PROVE  page'.pct >= page.pct
    BY DEF BarForward
  <2>1. search'[t].undisturbed = search[t].undisturbed
    BY SearchEntry DEF Moved, PageInv
  <2>2. Alone(t)
    BY <2>1 DEF Alone, Running
  <2>3. s = t
    BY <2>2 DEF PageInv, AloneInv
  <2> QED
    BY <2>2, <2>3
<1> QED
  BY <1>1, <1>2, <1>3, <1>4, <1>5, <1>6 DEF PageInv

-----------------------------------------------------------------------------
(***************************************************************************)
(* The actions: the requests of a search.                                  *)
(***************************************************************************)
\* The parts of the invariant about one search that every action starts from.
LEMMA InvOfSearch ==
  ASSUME PageInv, NEW s \in Searches
  PROVE  /\ currentResult \in PageResults /\ page \in PageTypes /\ HighestSeen
         /\ modulesRan \in SUBSET ModulesOf(Connectors)
         /\ search[s] \in SearchTypes /\ search[s].seq \in Nat
         /\ search[s].plan \in Plans \cup {<<>>}
         /\ search[s].logged \in Nat
         /\ search[s].at \in {"loading", "streaming", "timer"} =>
              search[s].plan \in Plans /\ search[s].logged <= LogLength(search[s].plan)
         /\ search[s].at \in Awaiting \cup {"timer"} => Running(s)
         /\ Alone(s) => ShowsItsOwn(s)
<1>1. search[s] \in SearchTypes
  BY SearchEntry DEF PageInv
<1> QED
  BY <1>1 DEF PageInv, PageTyped, PageTypeOK, PageTypes, SearchTypes, Running, AloneInv

\* A move with its search at the new place.
LEMMA MovedTo ==
  ASSUME PageInv, NEW s \in Searches, NEW place, NEW plan, NEW seq, NEW logged,
         Moved(s, place, plan, seq, logged)
  PROVE  /\ search'[s].at = place /\ search'[s].plan = plan /\ search'[s].seq = seq
         /\ search'[s].undisturbed = search[s].undisturbed
  BY SearchEntry DEF Moved, PageInv

LEMMA JobCreatedKeeps ==
  ASSUME PageInv, NEW s \in Searches, JobCreated(s)
  PROVE  PageInv' /\ ConnectorsForward /\ BarForward
<1>1. PICK plan \in Plans : \E n \in 0 .. LogLength(plan) :
        search' = [search EXCEPT ![s].at = "loading", ![s].plan = plan, ![s].logged = n]
  BY DEF JobCreated
<1> PICK n \in 0 .. LogLength(plan) :
        search' = [search EXCEPT ![s].at = "loading", ![s].plan = plan, ![s].logged = n]
  BY <1>1
<1>2. Moved(s, "loading", plan, search[s].seq, n)
  BY <1>1, MovesOfActions DEF PageInv
<1>3. /\ search[s].at = "creating" /\ currentResult' = [currentResult EXCEPT !.job = s]
      /\ page' = [page EXCEPT !.pct = 5] /\ RenderSignalUi
      /\ signal' = signal /\ modulesRan' = modulesRan
  BY DEF JobCreated
<1>4. page' \in PageTypes /\ page'.pct = 5 /\ page'.button = page.button
      /\ page'.scan = page.scan /\ page'.results = page.results
  BY <1>3, InvOfSearch DEF PageTypes
<1>5. /\ currentResult' \in PageResults
      /\ currentResult'.owner = currentResult.owner
      /\ currentResult'.started = currentResult.started
      /\ currentResult'.results = currentResult.results
      /\ currentResult'.last_seq = currentResult.last_seq
      /\ currentResult'.seen = currentResult.seen
  BY <1>3, InvOfSearch DEF PageResults
<1>6. HighestSeen'
  BY <1>5, InvOfSearch DEF HighestSeen
<1>7. ASSUME Alone(s) PROVE ShowsItsOwn(s)' /\ page'.pct >= page.pct
  <2>1. ShowsItsOwn(s)
    BY <1>7, InvOfSearch
  <2>2. search'[s].at = "loading"
    BY <1>2, MovedTo
  <2> QED
    BY <2>1, <2>2, <1>3, <1>4, <1>5 DEF ShowsItsOwn
<1>9. n \in Nat /\ n <= LogLength(plan)
  BY PlanFacts DEF LogLength
<1>8. SearchStep(s, "loading", plan, search[s].seq, n)
  BY <1>9, <1>2, <1>3, <1>4, <1>5, <1>6, <1>7, InvOfSearch DEF SearchStep, Awaiting, Places
<1> QED
  BY <1>8, SearchStepKeeps

LEMMA SnapshotLoadedKeeps ==
  ASSUME PageInv, NEW s \in Searches, SnapshotLoaded(s)
  PROVE  PageInv' /\ ConnectorsForward /\ BarForward
<1> DEFINE plan == search[s].plan
           seq == currentResult.last_seq
<1>1. PICK st \in SnapshotStatuses(s) : currentResult' = ApplySnapshot(currentResult, s, st)
  BY DEF SnapshotLoaded
<1>2. /\ search[s].at = "loading" /\ WaitForEvents(s)
      /\ page' = [page EXCEPT !.pct = 8] /\ RenderSignalUi
      /\ signal' = signal /\ modulesRan' = modulesRan
  BY DEF SnapshotLoaded
<1>3. Moved(s, "streaming", plan, seq, search[s].logged)
  BY <1>2, MovesOfActions DEF PageInv
<1>4. plan \in Plans /\ Range(plan) \in SUBSET Connectors /\ seq \in Nat
  BY <1>2, InvOfSearch, PlanFacts DEF PageResults
<1>5. page' \in PageTypes /\ page'.pct = 8 /\ page'.button = page.button
      /\ page'.scan = page.scan /\ page'.results = page.results
  BY <1>2, InvOfSearch DEF PageTypes
<1>6. /\ currentResult' \in PageResults
      /\ currentResult'.owner = currentResult.owner
      /\ currentResult'.job = s
      /\ currentResult'.planned = Range(plan)
      /\ currentResult'.started = currentResult.started
      /\ currentResult'.results = currentResult.results
      /\ currentResult'.last_seq = currentResult.last_seq
      /\ currentResult'.seen = currentResult.seen
  BY <1>1, <1>4, InvOfSearch DEF PageResults, ApplySnapshot, SnapshotStatuses
<1>7. HighestSeen'
  BY <1>6, InvOfSearch DEF HighestSeen
<1>8. ASSUME Alone(s) PROVE ShowsItsOwn(s)' /\ page'.pct >= page.pct
  <2>1. /\ currentResult = [NewResult(s) EXCEPT !.job = s] /\ modulesRan = {}
        /\ page.pct = 5 /\ ~page.results /\ currentResult.owner = s
    BY <1>2, <1>8, InvOfSearch DEF ShowsItsOwn
  <2>2. /\ seq = 0 /\ currentResult.seen = {} /\ currentResult.started = {}
        /\ DOMAIN currentResult.results = {}
    BY <2>1 DEF NewResult
  <2>3. search'[s].at = "streaming" /\ search'[s].plan = plan /\ search'[s].seq = 0
    BY <1>3, <2>2, MovedTo
  <2>4. /\ LogLength(plan) \in Nat /\ 1 < LogLength(plan)
    BY <1>4, PlanFacts DEF LogLength
  <2> HIDE DEF plan
  <2>5. {[job |-> s, seq |-> i] : i \in 1 .. 0} = {}
    OBVIOUS
  <2>6. {plan[i] : i \in {k \in 1 .. Len(plan) : 2 * k < 0}} = {}
    OBVIOUS
  <2>7. FollowsTheLog(s)'
    <3>1. /\ currentResult'.job = s /\ currentResult'.planned = Range(plan)
          /\ currentResult'.last_seq = 0 /\ currentResult'.seen = {}
          /\ currentResult'.started = {} /\ DOMAIN currentResult'.results = {}
          /\ modulesRan' = {} /\ page'.pct = 8
      BY <2>1, <2>2, <1>2, <1>5, <1>6
    <3>2. /\ currentResult'.seen = {[job |-> s, seq |-> i] : i \in 1 .. search'[s].seq}
          /\ DOMAIN currentResult'.results =
               {search'[s].plan[i] :
                  i \in {k \in 1 .. Len(search'[s].plan) : 2 * k < search'[s].seq}}
      BY <2>3, <2>5, <2>6, <3>1
    <3>3. modulesRan' = ModulesOf(DOMAIN currentResult'.results)
      BY <3>1 DEF ModulesOf
    <3> QED
      BY <2>3, <2>4, <3>1, <3>2, <3>3 DEF FollowsTheLog
  <2> QED
    BY <2>1, <2>3, <2>7, <1>5, <1>6 DEF ShowsItsOwn
<1>9. SearchStep(s, "streaming", plan, seq, search[s].logged)
  BY <1>2, <1>3, <1>4, <1>5, <1>6, <1>7, <1>8, InvOfSearch DEF SearchStep, Awaiting, Places
<1> QED
  BY <1>9, SearchStepKeeps

LEMMA RequestFailsKeeps ==
  ASSUME PageInv, NEW s \in Searches, RequestFails(s)
  PROVE  PageInv' /\ ConnectorsForward /\ BarForward
<1>1. /\ search[s].at \in {"creating", "loading"} /\ MoveTo(s, "failed")
      /\ page' = [page EXCEPT !.scan = FALSE, !.button = TRUE]
      /\ UNCHANGED <<signal, currentResult, modulesRan, selected>>
  BY DEF RequestFails, EndsInFailure
<1>2. Moved(s, "failed", search[s].plan, search[s].seq, search[s].logged)
  BY <1>1, MovesOfActions DEF PageInv
<1>3. page' \in PageTypes /\ page'.pct = page.pct /\ page'.button = TRUE /\ page'.scan = FALSE
  BY <1>1, InvOfSearch DEF PageTypes
<1>4. HighestSeen'
  BY <1>1, InvOfSearch DEF HighestSeen
<1>5. page'.pct >= page.pct
  <2>1. page.pct \in 0 .. 100
    BY InvOfSearch DEF PageTypes
  <2> QED
    BY <2>1, <1>3
<1>6. SearchStep(s, "failed", search[s].plan, search[s].seq, search[s].logged)
  BY <1>1, <1>2, <1>3, <1>4, <1>5, InvOfSearch DEF SearchStep, Awaiting, Places
<1> QED
  BY <1>6, SearchStepKeeps

LEMMA FinalizeSearchKeeps ==
  ASSUME PageInv, NEW s \in Searches, FinalizeSearch(s)
  PROVE  PageInv' /\ ConnectorsForward /\ BarForward
<1>1. /\ search[s].at = "timer" /\ MoveTo(s, "shown")
      /\ page' = [page EXCEPT !.scan = FALSE, !.results = IF signal THEN FALSE ELSE TRUE]
      /\ UNCHANGED <<signal, currentResult, modulesRan>>
      /\ RenderSignalUi
  BY DEF FinalizeSearch
<1>2. Moved(s, "shown", search[s].plan, search[s].seq, search[s].logged)
  BY <1>1, MovesOfActions DEF PageInv
<1>3. page' \in PageTypes /\ page'.pct = page.pct /\ page'.button = page.button
      /\ page'.scan = FALSE
  BY <1>1, InvOfSearch DEF PageTypes
<1>4. HighestSeen'
  BY <1>1, InvOfSearch DEF HighestSeen
<1>5. page'.pct >= page.pct
  <2>1. page.pct \in 0 .. 100
    BY InvOfSearch DEF PageTypes
  <2> QED
    BY <2>1, <1>3
<1>6. SearchStep(s, "shown", search[s].plan, search[s].seq, search[s].logged)
  BY <1>1, <1>2, <1>3, <1>4, <1>5, InvOfSearch DEF SearchStep, Awaiting, Places
<1> QED
  BY <1>6, SearchStepKeeps

-----------------------------------------------------------------------------
(***************************************************************************)
(* The actions: the events of a stream.                                    *)
(***************************************************************************)
LEMMA ProgressBounds ==
  ASSUME NEW r \in PageResults
  PROVE  UpdateProgress(r) \in 10..95
<1>1. CASE r.planned # {}
  BY <1>1, ProgressGrows
<1>2. CASE r.planned = {}
  BY <1>2, FS_EmptySet DEF UpdateProgress
<1> QED
  BY <1>1, <1>2

\* What is remembered of an event, and that it keeps the highest position.
LEMMA RememberedFields ==
  ASSUME PageInv, NEW s \in Searches
  PROVE  /\ Remembered(s) \in PageResults
         /\ Remembered(s).owner = currentResult.owner
         /\ Remembered(s).job = currentResult.job
         /\ Remembered(s).status = currentResult.status
         /\ Remembered(s).planned = currentResult.planned
         /\ Remembered(s).started = currentResult.started
         /\ Remembered(s).results = currentResult.results
         /\ currentResult'.last_seq = Remembered(s).last_seq
              /\ currentResult'.seen = Remembered(s).seen => HighestSeen'
<1> DEFINE seq == search[s].seq + 1
<1>1. currentResult \in PageResults /\ HighestSeen /\ seq \in Nat
  BY InvOfSearch
<1>2. Remembered(s) = RememberEvent(currentResult, s, seq)
  BY DEF Remembered
<1> HIDE DEF seq
<1>3. Remembered(s) \in PageResults
  BY <1>1, <1>2, RememberedTyped
<1>4. ASSUME currentResult'.last_seq = Remembered(s).last_seq,
             currentResult'.seen = Remembered(s).seen
      PROVE  HighestSeen'
  BY <1>1, <1>2, <1>4, RememberKeepsHighest
<1> QED
  BY <1>1, <1>2, <1>3, <1>4 DEF RememberEvent, PageResults

\* Of a search that runs alone the result has seen one event more.
LEMMA SeenGrows ==
  ASSUME PageInv, NEW s \in Searches, FollowsTheLog(s)
  PROVE  /\ Remembered(s).last_seq = search[s].seq + 1
         /\ Remembered(s).seen = {[job |-> s, seq |-> i] : i \in 1 .. search[s].seq + 1}
<1> DEFINE seq == search[s].seq
<1>1. /\ seq \in Nat /\ currentResult \in PageResults /\ currentResult.last_seq = seq
      /\ currentResult.seen = {[job |-> s, seq |-> i] : i \in 1 .. seq}
  BY InvOfSearch DEF FollowsTheLog
<1>2. /\ Remembered(s).last_seq = IF seq + 1 > currentResult.last_seq THEN seq + 1
                                  ELSE currentResult.last_seq
      /\ Remembered(s).seen = currentResult.seen \cup {[job |-> s, seq |-> seq + 1]}
  BY <1>1 DEF Remembered, RememberEvent, PageResults
<1> HIDE DEF seq
<1>3. 1 .. seq + 1 = (1 .. seq) \cup {seq + 1}
  BY <1>1
<1>4. {[job |-> s, seq |-> i] : i \in 1 .. seq + 1} =
        {[job |-> s, seq |-> i] : i \in 1 .. seq} \cup {[job |-> s, seq |-> seq + 1]}
  BY <1>3
<1> QED
  BY <1>1, <1>2, <1>4 DEF seq

\* The connectors whose results are among the first events of the log.
ResultsUpTo(plan, seq) == {plan[i] : i \in {k \in 1 .. Len(plan) : 2 * k < seq}}

LEMMA NoResultNow ==
  ASSUME NEW plan, Len(plan) \in Nat, NEW seq \in Nat, \A i \in 1 .. Len(plan) : seq # 2 * i
  PROVE  ResultsUpTo(plan, seq + 1) = ResultsUpTo(plan, seq)
<1>1. {k \in 1 .. Len(plan) : 2 * k < seq + 1} = {k \in 1 .. Len(plan) : 2 * k < seq}
  OBVIOUS
<1> QED
  BY <1>1 DEF ResultsUpTo

LEMMA ResultNow ==
  ASSUME NEW plan, Len(plan) \in Nat, NEW n \in 1 .. Len(plan)
  PROVE  ResultsUpTo(plan, 2 * n + 1) = ResultsUpTo(plan, 2 * n) \cup {plan[n]}
<1>1. {k \in 1 .. Len(plan) : 2 * k < 2 * n + 1} = {k \in 1 .. Len(plan) : 2 * k < 2 * n} \cup {n}
  OBVIOUS
<1> QED
  BY <1>1 DEF ResultsUpTo

\* The log goes on with the next event, of which a handler keeps what it needs.
LEMMA LogGoesOn ==
  ASSUME PageInv, NEW s \in Searches, FollowsTheLog(s), search[s].at = "streaming",
         NEW place \in {"streaming", "timer"},
         Moved(s, place, search[s].plan, search[s].seq + 1, search[s].logged),
         currentResult'.job = currentResult.job,
         currentResult'.planned = currentResult.planned,
         currentResult'.last_seq = Remembered(s).last_seq,
         currentResult'.seen = Remembered(s).seen,
         currentResult'.started \subseteq Range(search[s].plan),
         DOMAIN currentResult'.results = ResultsUpTo(search[s].plan, search[s].seq + 1),
         modulesRan' = ModulesOf(DOMAIN currentResult'.results),
         \A c \in DOMAIN currentResult'.results :
           currentResult'.results[c].job = s /\ currentResult'.results[c].redacted,
         place = "streaming" =>
           /\ search[s].seq + 1 < LogLength(search[s].plan)
           /\ IF search[s].seq + 1 = LogLength(search[s].plan) - 1 THEN page'.pct = 98
              ELSE page'.pct <= UpdateProgress(currentResult'),
         place = "timer" =>
           search[s].seq + 1 = LogLength(search[s].plan) /\ currentResult'.status = "done"
  PROVE  FollowsTheLog(s)'
<1> DEFINE plan == search[s].plan
           seq == search[s].seq + 1
<1>1. /\ search'[s].at = place /\ search'[s].plan = plan /\ search'[s].seq = seq
  BY MovedTo
<1>2. seq \in Nat \ {0} /\ plan \in Plans
  BY InvOfSearch
<1>3. LogLength(plan) \in Nat /\ 1 < LogLength(plan)
  BY <1>2, PlanFacts DEF LogLength
<1>4. /\ currentResult'.last_seq = seq
      /\ currentResult'.seen = {[job |-> s, seq |-> i] : i \in 1 .. seq}
  BY SeenGrows
<1>5. currentResult'.job = s /\ currentResult'.planned = Range(plan)
  BY DEF FollowsTheLog
<1>6. DOMAIN currentResult'.results = {plan[i] : i \in {k \in 1 .. Len(plan) : 2 * k < seq}}
  BY DEF ResultsUpTo
<1>7. place = "streaming" =>
        /\ seq < LogLength(plan)
        /\ IF seq = LogLength(plan) - 1 THEN page'.pct = 98
           ELSE page'.pct <= UpdateProgress(currentResult')
  OBVIOUS
<1>8. place = "timer" => seq = LogLength(plan) /\ currentResult'.status = "done"
  OBVIOUS
<1>9. currentResult'.started \subseteq Range(plan)
  OBVIOUS
<1> HIDE DEF plan, seq
<1>10. UpdateProgress(currentResult)' = UpdateProgress(currentResult')
  BY DEF UpdateProgress
<1> QED
  BY <1>1, <1>2, <1>3, <1>4, <1>5, <1>6, <1>7, <1>8, <1>9, <1>10 DEF FollowsTheLog

\* The search whose stream brings an event, and the place of the event.
LEMMA StreamFacts ==
  ASSUME PageInv, NEW s \in Searches, NEW e, NextEvent(s, e)
  PROVE  /\ search[s].at = "streaming" /\ Running(s)
         /\ search[s].plan \in Plans /\ search[s].seq \in Nat
         /\ search[s].seq < LogLength(search[s].plan)
         /\ LogLength(search[s].plan) \in Nat
         /\ LogLength(search[s].plan) = 2 * Len(search[s].plan) + 3
         /\ Len(search[s].plan) \in Nat \ {0}
         /\ e = EventAt(search[s].plan, search[s].seq + 1)
         /\ Alone(s) => ShowsItsOwn(s) /\ FollowsTheLog(s)
<1>4. search[s].at = "streaming" /\ search[s].seq < search[s].logged
  BY DEF NextEvent
<1>2. search[s].plan \in Plans /\ search[s].seq \in Nat /\ Running(s)
  BY <1>4, InvOfSearch DEF Awaiting
<1>5. Len(search[s].plan) \in Nat /\ search[s].logged \in Nat
  BY <1>2, InvOfSearch, PlanFacts
<1>1. search[s].at = "streaming" /\ search[s].seq < LogLength(search[s].plan)
  BY <1>2, <1>4, <1>5, InvOfSearch DEF LogLength
<1>3. Alone(s) => ShowsItsOwn(s) /\ FollowsTheLog(s)
  BY <1>1, InvOfSearch DEF ShowsItsOwn
<1> QED
  BY <1>1, <1>2, <1>3, PlaceInLog, PlanFacts DEF NextEvent

\* An event that brings no result: the result grows by the event alone.
LEMMA EventWithoutResult ==
  ASSUME PageInv, NEW s \in Searches, NEW e, NextEvent(s, e), Alone(s),
         \A i \in 1 .. Len(search[s].plan) : search[s].seq # 2 * i,
         currentResult'.results = currentResult.results, modulesRan' = modulesRan
  PROVE  /\ DOMAIN currentResult'.results = ResultsUpTo(search[s].plan, search[s].seq + 1)
         /\ modulesRan' = ModulesOf(DOMAIN currentResult'.results)
         /\ \A c \in DOMAIN currentResult'.results :
              currentResult'.results[c].job = s /\ currentResult'.results[c].redacted
<1>1. FollowsTheLog(s)
  BY StreamFacts
<1>2. DOMAIN currentResult.results = ResultsUpTo(search[s].plan, search[s].seq)
  BY <1>1 DEF FollowsTheLog, ResultsUpTo
<1>3. ResultsUpTo(search[s].plan, search[s].seq + 1) = ResultsUpTo(search[s].plan, search[s].seq)
  BY StreamFacts, NoResultNow
<1> QED
  BY <1>1, <1>2, <1>3 DEF FollowsTheLog

LEMMA OnJobStartedKeeps ==
  ASSUME PageInv, NEW s \in Searches, OnJobStarted(s)
  PROVE  PageInv' /\ ConnectorsForward /\ BarForward
<1> DEFINE plan == search[s].plan
           seq == search[s].seq
<1>1. /\ NextEvent(s, Event("job_started", "none")) /\ Advance(s, "streaming")
      /\ currentResult' = Remembered(s) /\ page' = [page EXCEPT !.pct = 10]
      /\ RenderSignalUi /\ signal' = signal /\ modulesRan' = modulesRan
  BY DEF OnJobStarted
<1>2. /\ search[s].at = "streaming" /\ Running(s) /\ plan \in Plans /\ seq \in Nat
      /\ seq < LogLength(plan) /\ LogLength(plan) = 2 * Len(plan) + 3 /\ Len(plan) \in Nat \ {0}
      /\ EventAt(plan, seq + 1) = Event("job_started", "none")
  BY <1>1, StreamFacts
<1>3. seq = 0
  BY <1>2, PlaceInLog
<1>4. Moved(s, "streaming", plan, seq + 1, search[s].logged)
  BY <1>1, MovesOfActions DEF PageInv
<1>5. /\ page' \in PageTypes /\ page'.pct = 10 /\ page'.button = page.button
      /\ page'.scan = page.scan /\ page'.results = page.results
  BY <1>1, InvOfSearch DEF PageTypes
<1>6. /\ currentResult' \in PageResults
      /\ currentResult'.owner = currentResult.owner
      /\ currentResult'.job = currentResult.job
      /\ currentResult'.planned = currentResult.planned
      /\ currentResult'.started = currentResult.started
      /\ currentResult'.results = currentResult.results
      /\ HighestSeen'
  BY <1>1, RememberedFields
<1>7. ASSUME Alone(s) PROVE ShowsItsOwn(s)' /\ page'.pct >= page.pct
  <2>1. ShowsItsOwn(s) /\ FollowsTheLog(s)
    BY <1>1, <1>7, StreamFacts
  <2>2. \A i \in 1 .. Len(plan) : seq # 2 * i
    BY <1>2, <1>3
  <2>3. /\ DOMAIN currentResult'.results = ResultsUpTo(plan, seq + 1)
        /\ modulesRan' = ModulesOf(DOMAIN currentResult'.results)
        /\ \A c \in DOMAIN currentResult'.results :
             currentResult'.results[c].job = s /\ currentResult'.results[c].redacted
    BY <1>1, <1>6, <1>7, <2>2, EventWithoutResult
  <2>4. page'.pct <= UpdateProgress(currentResult')
    BY <1>5, <1>6, ProgressBounds
  <2>5. seq + 1 < LogLength(plan) /\ seq + 1 # LogLength(plan) - 1
    BY <1>2, <1>3
  <2>6. FollowsTheLog(s)'
    <3>1. currentResult'.started \subseteq Range(plan)
      BY <1>6, <2>1 DEF FollowsTheLog
    <3> QED
      BY <1>1, <1>2, <1>4, <1>6, <2>1, <2>3, <2>4, <2>5, <3>1, LogGoesOn
  <2>7. page.pct = 8
    BY <1>2, <1>3, <2>1 DEF FollowsTheLog
  <2>8. search'[s].at = "streaming"
    BY <1>4, MovedTo
  <2> QED
    BY <1>5, <1>6, <2>1, <2>6, <2>7, <2>8 DEF ShowsItsOwn
<1>8. SearchStep(s, "streaming", plan, seq + 1, search[s].logged)
  BY <1>1, <1>2, <1>4, <1>5, <1>6, <1>7, InvOfSearch DEF SearchStep, Awaiting, Places
<1> QED
  BY <1>8, SearchStepKeeps

LEMMA OnConnectorStartedKeeps ==
  ASSUME PageInv, NEW s \in Searches, OnConnectorStarted(s)
  PROVE  PageInv' /\ ConnectorsForward /\ BarForward
<1> DEFINE plan == search[s].plan
           seq == search[s].seq
<1>1. PICK c \in Connectors :
        /\ NextEvent(s, Event("connector_started", c))
        /\ currentResult' = [Remembered(s) EXCEPT !.started = @ \cup {c}]
        /\ Advance(s, "streaming")
  BY DEF OnConnectorStarted
<1>2. RenderSignalUi /\ signal' = signal /\ page' = page /\ modulesRan' = modulesRan
  BY DEF OnConnectorStarted
<1>3. /\ search[s].at = "streaming" /\ Running(s) /\ plan \in Plans /\ seq \in Nat
      /\ seq < LogLength(plan) /\ LogLength(plan) = 2 * Len(plan) + 3 /\ Len(plan) \in Nat \ {0}
      /\ EventAt(plan, seq + 1) = Event("connector_started", c)
  BY <1>1, StreamFacts
<1>4. /\ c \in Range(plan) /\ \A k \in 1 .. Len(plan) : seq # 2 * k
      /\ seq # 0 /\ seq # LogLength(plan) - 1
      /\ seq + 1 < LogLength(plan) /\ seq + 1 # LogLength(plan) - 1
  <2>1. PICK i \in 1 .. Len(plan) : seq + 1 = 2 * i /\ c = plan[i]
    <3>1. /\ plan \in Plans /\ seq \in Nat /\ seq < LogLength(plan)
          /\ EventAt(plan, seq + 1) = Event("connector_started", c)
      BY <1>3
    <3> HIDE DEF plan, seq
    <3> QED
      BY <3>1, PlaceOfStart
  <2>2. c \in Range(plan)
    BY <1>3, <2>1, PlanFacts
  <2> QED
    BY <1>3, <2>1, <2>2
<1>5. Moved(s, "streaming", plan, seq + 1, search[s].logged)
  BY <1>1, MovesOfActions DEF PageInv
<1>6. /\ page' \in PageTypes /\ page'.pct = page.pct /\ page'.button = page.button
      /\ page'.scan = page.scan /\ page'.results = page.results
      /\ page.pct \in 0 .. 100 /\ page'.pct >= page.pct
  <2>1. page \in PageTypes
    BY InvOfSearch
  <2>2. page.pct \in 0 .. 100
    BY <2>1 DEF PageTypes
  <2>3. page' = page
    BY <1>2
  <2> QED
    BY <2>1, <2>2, <2>3
<1>7. /\ currentResult' \in PageResults
      /\ currentResult'.owner = currentResult.owner
      /\ currentResult'.job = currentResult.job
      /\ currentResult'.planned = currentResult.planned
      /\ currentResult'.started = currentResult.started \cup {c}
      /\ currentResult'.results = currentResult.results
      /\ currentResult'.last_seq = Remembered(s).last_seq
      /\ currentResult'.seen = Remembered(s).seen
  BY <1>1, RememberedFields DEF PageResults
<1>8. HighestSeen'
  BY <1>7, RememberedFields
<1>9. ASSUME Alone(s) PROVE ShowsItsOwn(s)'
  <2>1. ShowsItsOwn(s) /\ FollowsTheLog(s)
    BY <1>1, <1>9, StreamFacts
  <2>3. /\ DOMAIN currentResult'.results = ResultsUpTo(plan, seq + 1)
        /\ modulesRan' = ModulesOf(DOMAIN currentResult'.results)
        /\ \A d \in DOMAIN currentResult'.results :
             currentResult'.results[d].job = s /\ currentResult'.results[d].redacted
    BY <1>1, <1>2, <1>4, <1>7, <1>9, EventWithoutResult
  <2>4. page'.pct <= UpdateProgress(currentResult')
    <3>1. page.pct <= UpdateProgress(currentResult)
      BY <1>3, <1>4, <2>1 DEF FollowsTheLog
    <3>2. currentResult.planned # {}
      BY <1>3, <2>1, PlanFacts DEF FollowsTheLog
    <3>3. UpdateProgress(currentResult) <= UpdateProgress(currentResult')
      BY <1>7, <3>2, InvOfSearch, ProgressGrows
    <3>4. UpdateProgress(currentResult) \in 10..95 /\ UpdateProgress(currentResult') \in 10..95
      BY <1>7, InvOfSearch, ProgressBounds
    <3> DEFINE x == UpdateProgress(currentResult)
               y == UpdateProgress(currentResult')
               z == page.pct
    <3>5. x \in Int /\ y \in Int /\ z \in Int /\ z <= x /\ x <= y
      BY <1>6, <3>1, <3>3, <3>4
    <3> HIDE DEF x, y, z
    <3>6. z <= y
      BY <3>5
    <3> QED
      BY <1>6, <3>6 DEF y, z
  <2>6. FollowsTheLog(s)'
    <3>1. currentResult'.started \subseteq Range(plan)
      BY <1>4, <1>7, <2>1 DEF FollowsTheLog
    <3> QED
      BY <1>3, <1>4, <1>5, <1>7, <2>1, <2>3, <2>4, <3>1, LogGoesOn
  <2>7. search'[s].at = "streaming"
    BY <1>5, MovedTo
  <2> QED
    BY <1>6, <1>7, <2>1, <2>6, <2>7 DEF ShowsItsOwn
<1>10. SearchStep(s, "streaming", plan, seq + 1, search[s].logged)
  BY <1>2, <1>3, <1>5, <1>6, <1>7, <1>8, <1>9, InvOfSearch DEF SearchStep, Awaiting, Places
<1> QED
  BY <1>10, SearchStepKeeps

\* An outcome of the server is kept as a result of its connector.
LEMMA StoreResultTyped ==
  ASSUME NEW r \in PageResults, NEW s \in Searches, NEW c \in Connectors, NEW o \in Outcomes
  PROVE  /\ StoreResult(r, s, c, o) \in PageResults
         /\ StoreResult(r, s, c, o).owner = r.owner
         /\ StoreResult(r, s, c, o).job = r.job
         /\ StoreResult(r, s, c, o).planned = r.planned
         /\ StoreResult(r, s, c, o).started = r.started
         /\ StoreResult(r, s, c, o).last_seq = r.last_seq
         /\ StoreResult(r, s, c, o).seen = r.seen
         /\ DOMAIN StoreResult(r, s, c, o).results = DOMAIN r.results \cup {c}
         /\ StoreResult(r, s, c, o).results[c].job = s
         /\ StoreResult(r, s, c, o).results[c].redacted = (r.owner = s)
         /\ \A d \in DOMAIN r.results \ {c} : StoreResult(r, s, c, o).results[d] = r.results[d]
<1> DEFINE new == [job |-> s, status |-> o.status, evidence |-> o.evidence,
                   redacted |-> r.owner = s]
           results == [d \in DOMAIN r.results \cup {c} |-> IF d = c THEN new ELSE r.results[d]]
<1>1. StoreResult(r, s, c, o) = [r EXCEPT !.results = results]
  BY DEF StoreResult
<1>2. PICK D \in SUBSET Connectors : r.results \in [D -> ConnectorResults]
  BY DEF PageResults
<1>3. new \in ConnectorResults /\ new.job = s /\ new.redacted = (r.owner = s)
  BY DEF ConnectorResults, Outcomes
<1> HIDE DEF new
<1>4. results \in [D \cup {c} -> ConnectorResults] /\ D \cup {c} \in SUBSET Connectors
  BY <1>2, <1>3
<1>5. /\ DOMAIN results = DOMAIN r.results \cup {c} /\ results[c] = new
      /\ \A d \in DOMAIN r.results \ {c} : results[d] = r.results[d]
  OBVIOUS
<1> HIDE DEF results
<1>6. results \in UNION {[E -> ConnectorResults] : E \in SUBSET Connectors}
  BY <1>4
<1>7. StoreResult(r, s, c, o) \in PageResults
  BY <1>1, <1>6 DEF PageResults
<1>8. StoreResult(r, s, c, o).results = results
  BY <1>1 DEF PageResults
<1> QED
  BY <1>1, <1>3, <1>5, <1>7, <1>8 DEF PageResults

LEMMA OnConnectorResultKeeps ==
  ASSUME PageInv, NEW s \in Searches, OnConnectorResult(s)
  PROVE  PageInv' /\ ConnectorsForward /\ BarForward
<1> DEFINE plan == search[s].plan
           seq == search[s].seq
<1>1. PICK c \in Connectors, o \in Outcomes :
        /\ NextEvent(s, Event("connector_result", c))
        /\ currentResult' = StoreResult(Remembered(s), s, c, o)
        /\ modulesRan' = modulesRan \cup {ConnectorToModule(c)}
  BY DEF OnConnectorResult
<1>2. /\ Advance(s, "streaming") /\ page' = [page EXCEPT !.pct = UpdateProgress(currentResult')]
      /\ RenderSignalUi /\ signal' = signal
  BY DEF OnConnectorResult
<1>3. /\ search[s].at = "streaming" /\ Running(s) /\ plan \in Plans /\ seq \in Nat
      /\ seq < LogLength(plan) /\ LogLength(plan) = 2 * Len(plan) + 3 /\ Len(plan) \in Nat \ {0}
      /\ EventAt(plan, seq + 1) = Event("connector_result", c)
  BY <1>1, StreamFacts
<1>4. /\ ResultsUpTo(plan, seq + 1) = ResultsUpTo(plan, seq) \cup {c}
      /\ seq # 0 /\ seq # LogLength(plan) - 1
      /\ seq + 1 < LogLength(plan) /\ seq + 1 # LogLength(plan) - 1
  <2>1. PICK i \in 1 .. Len(plan) : seq = 2 * i /\ c = plan[i]
    <3>1. /\ plan \in Plans /\ seq \in Nat /\ seq < LogLength(plan)
          /\ EventAt(plan, seq + 1) = Event("connector_result", c)
      BY <1>3
    <3> HIDE DEF plan, seq
    <3> QED
      BY <3>1, PlaceOfResult
  <2>2. ResultsUpTo(plan, seq + 1) = ResultsUpTo(plan, seq) \cup {c}
    BY <1>3, <2>1, ResultNow
  <2> QED
    BY <1>3, <2>1, <2>2
<1>5. Moved(s, "streaming", plan, seq + 1, search[s].logged)
  BY <1>2, MovesOfActions DEF PageInv
<1>6. /\ Remembered(s) \in PageResults
      /\ Remembered(s).owner = currentResult.owner
      /\ Remembered(s).job = currentResult.job
      /\ Remembered(s).planned = currentResult.planned
      /\ Remembered(s).started = currentResult.started
      /\ Remembered(s).results = currentResult.results
  BY RememberedFields
<1>7. /\ currentResult' \in PageResults
      /\ currentResult'.owner = currentResult.owner
      /\ currentResult'.job = currentResult.job
      /\ currentResult'.planned = currentResult.planned
      /\ currentResult'.started = currentResult.started
      /\ currentResult'.last_seq = Remembered(s).last_seq
      /\ currentResult'.seen = Remembered(s).seen
      /\ DOMAIN currentResult'.results = DOMAIN currentResult.results \cup {c}
      /\ currentResult'.results[c].job = s
      /\ currentResult'.results[c].redacted = (currentResult.owner = s)
      /\ \A d \in DOMAIN currentResult.results \ {c} :
           currentResult'.results[d] = currentResult.results[d]
  BY <1>1, <1>6, StoreResultTyped
<1>8. HighestSeen'
  BY <1>7, RememberedFields
<1>9. UpdateProgress(currentResult') \in 10..95
  BY <1>7, ProgressBounds
<1>10. /\ page' \in PageTypes /\ page'.pct = UpdateProgress(currentResult')
       /\ page'.button = page.button /\ page'.scan = page.scan /\ page'.results = page.results
  <2>1. page \in PageTypes
    BY InvOfSearch
  <2> DEFINE pct == UpdateProgress(currentResult')
  <2>2. pct \in 0 .. 100
    BY <1>9
  <2>3. page' = [page EXCEPT !.pct = pct]
    BY <1>2
  <2> HIDE DEF pct
  <2>4. /\ page' \in PageTypes /\ page'.pct = pct
        /\ page'.button = page.button /\ page'.scan = page.scan /\ page'.results = page.results
    BY <2>1, <2>2, <2>3 DEF PageTypes
  <2> QED
    BY <2>4 DEF pct
<1>11. modulesRan' \in SUBSET ModulesOf(Connectors)
  BY <1>1, InvOfSearch DEF ModulesOf
<1>12. ASSUME Alone(s) PROVE ShowsItsOwn(s)' /\ page'.pct >= page.pct
  <2>1. ShowsItsOwn(s) /\ FollowsTheLog(s) /\ currentResult.owner = s
    BY <1>1, <1>12, StreamFacts DEF ShowsItsOwn
  <2>2. /\ DOMAIN currentResult'.results = ResultsUpTo(plan, seq + 1)
        /\ modulesRan' = ModulesOf(DOMAIN currentResult'.results)
    <3>1. /\ DOMAIN currentResult.results = ResultsUpTo(plan, seq)
          /\ modulesRan = ModulesOf(DOMAIN currentResult.results)
      BY <2>1 DEF FollowsTheLog, ResultsUpTo
    <3>2. ModulesOf(DOMAIN currentResult'.results) =
            ModulesOf(DOMAIN currentResult.results) \cup {ConnectorToModule(c)}
      BY <1>7 DEF ModulesOf
    <3> QED
      BY <1>1, <1>4, <1>7, <3>1, <3>2
  <2>3. \A d \in DOMAIN currentResult'.results :
          currentResult'.results[d].job = s /\ currentResult'.results[d].redacted
    BY <1>7, <2>1 DEF FollowsTheLog
  <2>4. page'.pct <= UpdateProgress(currentResult')
    BY <1>9, <1>10
  <2>5. FollowsTheLog(s)'
    <3>1. currentResult'.started \subseteq Range(plan)
      BY <1>7, <2>1 DEF FollowsTheLog
    <3> QED
      BY <1>3, <1>4, <1>5, <1>7, <2>1, <2>2, <2>3, <2>4, <3>1, LogGoesOn
  <2>6. search'[s].at = "streaming"
    BY <1>5, MovedTo
  <2>7. page'.pct >= page.pct
    <3>1. page.pct <= UpdateProgress(currentResult)
      BY <1>3, <1>4, <2>1 DEF FollowsTheLog
    <3>2. currentResult.planned # {}
      BY <1>3, <2>1, PlanFacts DEF FollowsTheLog
    <3>3. UpdateProgress(currentResult) <= UpdateProgress(currentResult')
      BY <1>7, <3>2, InvOfSearch, ProgressGrows
    <3>4. UpdateProgress(currentResult) \in 10..95
      BY InvOfSearch, ProgressBounds
    <3>5. page.pct \in 0 .. 100
      BY InvOfSearch DEF PageTypes
    <3> QED
      BY <1>9, <1>10, <3>1, <3>3, <3>4, <3>5
  <2> QED
    BY <1>7, <1>10, <2>1, <2>5, <2>6, <2>7 DEF ShowsItsOwn
<1>13. SearchStep(s, "streaming", plan, seq + 1, search[s].logged)
  BY <1>2, <1>3, <1>5, <1>7, <1>8, <1>10, <1>11, <1>12, InvOfSearch
  DEF SearchStep, Awaiting, Places
<1> QED
  BY <1>13, SearchStepKeeps

LEMMA OnSummaryKeeps ==
  ASSUME PageInv, NEW s \in Searches, OnSummary(s)
  PROVE  PageInv' /\ ConnectorsForward /\ BarForward
<1> DEFINE plan == search[s].plan
           seq == search[s].seq
<1>1. /\ NextEvent(s, Event("summary", "none")) /\ Advance(s, "streaming")
      /\ currentResult' = Remembered(s) /\ page' = [page EXCEPT !.pct = 98]
      /\ RenderSignalUi /\ signal' = signal /\ modulesRan' = modulesRan
  BY DEF OnSummary
<1>2. /\ search[s].at = "streaming" /\ Running(s) /\ plan \in Plans /\ seq \in Nat
      /\ seq < LogLength(plan) /\ LogLength(plan) = 2 * Len(plan) + 3 /\ Len(plan) \in Nat \ {0}
      /\ EventAt(plan, seq + 1) = Event("summary", "none")
  BY <1>1, StreamFacts
<1>3. /\ seq + 1 = LogLength(plan) - 1 /\ seq # 0 /\ seq # LogLength(plan) - 1
      /\ seq + 1 < LogLength(plan) /\ \A i \in 1 .. Len(plan) : seq # 2 * i
  <2>1. seq + 1 = LogLength(plan) - 1
    BY <1>2, PlaceInLog
  <2> QED
    BY <1>2, <2>1
<1>4. Moved(s, "streaming", plan, seq + 1, search[s].logged)
  BY <1>1, MovesOfActions DEF PageInv
<1>5. /\ page' \in PageTypes /\ page'.pct = 98 /\ page'.button = page.button
      /\ page'.scan = page.scan /\ page'.results = page.results
  BY <1>1, InvOfSearch DEF PageTypes
<1>6. /\ currentResult' \in PageResults
      /\ currentResult'.owner = currentResult.owner
      /\ currentResult'.job = currentResult.job
      /\ currentResult'.planned = currentResult.planned
      /\ currentResult'.started = currentResult.started
      /\ currentResult'.results = currentResult.results
      /\ HighestSeen'
  BY <1>1, RememberedFields
<1>7. ASSUME Alone(s) PROVE ShowsItsOwn(s)' /\ page'.pct >= page.pct
  <2>1. ShowsItsOwn(s) /\ FollowsTheLog(s)
    BY <1>1, <1>7, StreamFacts
  <2>2. /\ DOMAIN currentResult'.results = ResultsUpTo(plan, seq + 1)
        /\ modulesRan' = ModulesOf(DOMAIN currentResult'.results)
        /\ \A c \in DOMAIN currentResult'.results :
             currentResult'.results[c].job = s /\ currentResult'.results[c].redacted
    BY <1>1, <1>3, <1>6, <1>7, EventWithoutResult
  <2>3. FollowsTheLog(s)'
    <3>1. currentResult'.started \subseteq Range(plan)
      BY <1>6, <2>1 DEF FollowsTheLog
    <3> QED
      BY <1>1, <1>2, <1>3, <1>4, <1>5, <1>6, <2>1, <2>2, <3>1, LogGoesOn
  <2>4. page.pct <= UpdateProgress(currentResult)
    BY <1>2, <1>3, <2>1 DEF FollowsTheLog
  <2>5. page'.pct >= page.pct
    <3>1. UpdateProgress(currentResult) \in 10..95
      BY InvOfSearch, ProgressBounds
    <3>2. page.pct \in 0 .. 100
      BY InvOfSearch DEF PageTypes
    <3> QED
      BY <1>5, <2>4, <3>1, <3>2
  <2>6. search'[s].at = "streaming"
    BY <1>4, MovedTo
  <2> QED
    BY <1>5, <1>6, <2>1, <2>3, <2>5, <2>6 DEF ShowsItsOwn
<1>8. SearchStep(s, "streaming", plan, seq + 1, search[s].logged)
  BY <1>1, <1>2, <1>4, <1>5, <1>6, <1>7, InvOfSearch DEF SearchStep, Awaiting, Places
<1> QED
  BY <1>8, SearchStepKeeps

LEMMA OnJobDoneKeeps ==
  ASSUME PageInv, NEW s \in Searches, OnJobDone(s)
  PROVE  PageInv' /\ ConnectorsForward /\ BarForward
<1> DEFINE plan == search[s].plan
           seq == search[s].seq
<1>1. /\ NextEvent(s, Event("job_done", "none")) /\ Advance(s, "timer")
      /\ currentResult' = [Remembered(s) EXCEPT !.status = "done"]
      /\ page' = [page EXCEPT !.pct = 100, !.button = TRUE]
      /\ RenderSignalUi /\ signal' = signal /\ modulesRan' = modulesRan
  BY DEF OnJobDone
<1>2. /\ search[s].at = "streaming" /\ Running(s) /\ plan \in Plans /\ seq \in Nat
      /\ seq < LogLength(plan) /\ LogLength(plan) = 2 * Len(plan) + 3 /\ Len(plan) \in Nat \ {0}
      /\ EventAt(plan, seq + 1) = Event("job_done", "none")
  BY <1>1, StreamFacts
<1>3. seq + 1 = LogLength(plan) /\ \A i \in 1 .. Len(plan) : seq # 2 * i
  <2>1. seq + 1 = LogLength(plan)
    BY <1>2, PlaceInLog
  <2> QED
    BY <1>2, <2>1
<1>4. Moved(s, "timer", plan, seq + 1, search[s].logged)
  BY <1>1, MovesOfActions DEF PageInv
<1>5. /\ page' \in PageTypes /\ page'.pct = 100 /\ page'.button = TRUE
      /\ page'.scan = page.scan /\ page'.results = page.results
  <2>1. page \in PageTypes
    BY InvOfSearch
  <2> DEFINE n == 100
  <2>2. page' = [page EXCEPT !.pct = n, !.button = TRUE] /\ n \in 0 .. 100
    BY <1>1
  <2> HIDE DEF n
  <2>3. /\ page' \in PageTypes /\ page'.pct = n /\ page'.button = TRUE
        /\ page'.scan = page.scan /\ page'.results = page.results
    BY <2>1, <2>2 DEF PageTypes
  <2> QED
    BY <2>3 DEF n
<1>6. /\ currentResult' \in PageResults
      /\ currentResult'.owner = currentResult.owner
      /\ currentResult'.job = currentResult.job
      /\ currentResult'.status = "done"
      /\ currentResult'.planned = currentResult.planned
      /\ currentResult'.started = currentResult.started
      /\ currentResult'.results = currentResult.results
      /\ currentResult'.last_seq = Remembered(s).last_seq
      /\ currentResult'.seen = Remembered(s).seen
  BY <1>1, RememberedFields DEF PageResults
<1>7. HighestSeen'
  BY <1>6, RememberedFields
<1>8. page'.pct >= page.pct
  <2>1. page.pct \in 0 .. 100
    BY InvOfSearch DEF PageTypes
  <2> QED
    BY <1>5, <2>1
<1>9. ASSUME Alone(s) PROVE ShowsItsOwn(s)'
  <2>1. ShowsItsOwn(s) /\ FollowsTheLog(s)
    BY <1>1, <1>9, StreamFacts
  <2>2. /\ DOMAIN currentResult'.results = ResultsUpTo(plan, seq + 1)
        /\ modulesRan' = ModulesOf(DOMAIN currentResult'.results)
        /\ \A c \in DOMAIN currentResult'.results :
             currentResult'.results[c].job = s /\ currentResult'.results[c].redacted
    BY <1>1, <1>3, <1>6, <1>9, EventWithoutResult
  <2>3. FollowsTheLog(s)'
    <3>1. currentResult'.started \subseteq Range(plan)
      BY <1>6, <2>1 DEF FollowsTheLog
    <3> QED
      BY <1>2, <1>3, <1>4, <1>6, <2>1, <2>2, <3>1, LogGoesOn
  <2>4. search'[s].at = "timer"
    BY <1>4, MovedTo
  <2> QED
    BY <1>5, <1>6, <2>1, <2>3, <2>4 DEF ShowsItsOwn
<1>10. SearchStep(s, "timer", plan, seq + 1, search[s].logged)
  BY <1>1, <1>2, <1>4, <1>5, <1>6, <1>7, <1>8, <1>9, InvOfSearch DEF SearchStep, Awaiting, Places
<1> QED
  BY <1>10, SearchStepKeeps

-----------------------------------------------------------------------------
(***************************************************************************)
(* The actions of the user.                                                *)
(***************************************************************************)
\* A new search ends the solitude of every other, and has the page for itself
\* only if there is none.
LEMMA StartV2SearchKeeps ==
  ASSUME PageInv, NEW s \in Searches, StartV2Search(s)
  PROVE  PageInv' /\ ConnectorsForward /\ BarForward
<1> DEFINE alone == \A r \in Searches : ~Running(r)
           new == [IdleSearch EXCEPT !.at = "creating", !.undisturbed = alone]
<1>1. search[s].at = "idle" /\ s \in Nat \ {0}
  BY V2PageAssumption DEF StartV2Search
<1>2. /\ search' = [r \in Searches |->
                      IF r = s THEN new
                      ELSE IF Running(r) THEN [search[r] EXCEPT !.undisturbed = FALSE]
                      ELSE search[r]]
      /\ currentResult' = NewResult(s)
      /\ page' = [page EXCEPT !.scan = TRUE, !.results = FALSE, !.button = FALSE, !.pct = 0]
      /\ modulesRan' = {} /\ RenderSignalUi /\ signal' = signal
  BY DEF StartV2Search, ResetResult, ResetControls, ResetModules
<1>3. new.at = "creating" /\ new.undisturbed = alone /\ new \in SearchTypes
  <2>1. alone \in BOOLEAN
    OBVIOUS
  <2> HIDE DEF alone
  <2>2. /\ new.at = "creating" /\ new.undisturbed = alone /\ new \in SearchTypes
    BY <2>1 DEF IdleSearch, SearchTypes, Places, Awaiting
  <2> QED
    BY <2>2 DEF alone
<1> HIDE DEF new
<1>4. /\ search \in [Searches -> SearchTypes]
      /\ \A r \in Searches : [search[r] EXCEPT !.undisturbed = FALSE] \in SearchTypes
  BY SearchEntry DEF PageInv, SearchTypes
<1>5. search' \in [Searches -> SearchTypes]
  BY <1>2, <1>3, <1>4
<1>6. /\ search'[s].at = "creating" /\ search'[s].undisturbed = alone
      /\ search'[s] \in SearchTypes
  BY <1>2, <1>3
<1>7. \A r \in Searches \ {s} :
        /\ search'[r].at = search[r].at /\ search'[r].plan = search[r].plan
        /\ search'[r].logged = search[r].logged
        /\ Running(r) => search'[r].undisturbed = FALSE
  BY <1>2, <1>4 DEF SearchTypes
<1>8. /\ page' \in PageTypes /\ page'.pct = 0 /\ page'.results = FALSE
  <2>1. page \in PageTypes
    BY InvOfSearch
  <2> DEFINE n == 0
  <2>2. /\ page' = [page EXCEPT !.scan = TRUE, !.results = FALSE, !.button = FALSE, !.pct = n]
        /\ n \in 0 .. 100
    BY <1>2
  <2> HIDE DEF n
  <2>3. page' \in PageTypes /\ page'.pct = n /\ page'.results = FALSE
    BY <2>1, <2>2 DEF PageTypes
  <2> QED
    BY <2>3 DEF n
<1>9. currentResult' \in PageResults /\ currentResult'.owner = s
  <2>1. [c \in {} |-> 0] \in [{} -> ConnectorResults]
    OBVIOUS
  <2>2. [c \in {} |-> 0] \in UNION {[D -> ConnectorResults] : D \in SUBSET Connectors}
    BY <2>1
  <2> QED
    BY <1>2, <2>2 DEF NewResult, PageResults, None
<1>10. SelectedEvidenceIsListed' /\ (selected' = NoKey \/ selected' \in Connectors \X (Nat \ {0}))
  BY <1>2, <1>9, Rendered DEF PageInv, PageTyped, PageTypeOK
<1>11. PageTyped'
  <2>1. \A r \in Searches : search'[r].at \in {"loading", "streaming", "timer"} =>
                              /\ search'[r].plan \in Plans
                              /\ search'[r].logged <= LogLength(search'[r].plan)
    BY <1>6, <1>7 DEF PageInv, PageTyped
  <2> QED
    BY <1>2, <1>5, <1>8, <1>9, <1>10, <2>1
    DEF PageInv, PageTyped, PageTypeOK, PageTypes, SearchTypes
<1>12. OwnerHasBegun'
  BY <1>6, <1>9 DEF OwnerHasBegun
<1>13. HighestSeen'
  BY <1>2 DEF HighestSeen, NewResult
<1>14. ControlsComeBack'
  BY <1>6 DEF ControlsComeBack, Running, Awaiting
<1>15. AloneInv'
  <2> SUFFICES ASSUME NEW t \in Searches, Alone(t)'
               PROVE  (\A r \in Searches : Running(r)' => r = t) /\ ShowsItsOwn(t)'
    BY DEF AloneInv
  <2>1. t = s
    BY <1>7 DEF Alone, Running
  <2>2. alone
    BY <1>6, <2>1 DEF Alone
  <2>3. \A r \in Searches : Running(r)' => r = s
    BY <1>7, <2>2 DEF Running
  <2>4. ShowsItsOwn(s)'
    BY <1>2, <1>6, <1>8, <1>9 DEF ShowsItsOwn, NewResult
  <2> QED
    BY <2>1, <2>3, <2>4
<1>16. ConnectorsForward
  <2>1. currentResult.owner # s
    BY <1>1 DEF PageInv, OwnerHasBegun, None
  <2> QED
    BY <1>9, <2>1 DEF ConnectorsForward
<1>17. BarForward
  BY <1>1, <1>7 DEF BarForward, Running, Awaiting
<1> QED
  BY <1>10, <1>11, <1>12, <1>13, <1>14, <1>15, <1>16, <1>17 DEF PageInv

\* A button of the results: while a search has the page for itself there are none.
LEMMA NewSearchKeeps ==
  ASSUME PageInv, NewSearch
  PROVE  PageInv' /\ ConnectorsForward /\ BarForward
<1>1. /\ page.results /\ page' = [page EXCEPT !.results = FALSE] /\ modulesRan' = {}
      /\ UNCHANGED <<signal, search, currentResult, selected>>
  BY DEF NewSearch
<1>2. page \in PageTypes
  BY DEF PageInv, PageTyped, PageTypeOK, PageTypes
<1>3. /\ page' \in PageTypes /\ page'.pct = page.pct /\ page'.button = page.button
      /\ page'.scan = page.scan
  BY <1>1, <1>2 DEF PageTypes
<1>4. PageTyped'
  BY <1>1, <1>3 DEF PageInv, PageTyped, PageTypeOK, PageTypes
<1>5. OwnerHasBegun' /\ HighestSeen' /\ SelectedEvidenceIsListed'
  BY <1>1 DEF PageInv, OwnerHasBegun, HighestSeen, SelectedEvidenceIsListed, EvidenceKeys
<1>6. ControlsComeBack'
  BY <1>1, <1>3 DEF PageInv, ControlsComeBack, Running
<1>7. AloneInv'
  <2>1. \A s \in Searches : Alone(s)' => Alone(s)
    BY <1>1 DEF Alone, Running
  <2> QED
    BY <1>1, <2>1 DEF PageInv, AloneInv, ShowsItsOwn
<1>8. ConnectorsForward
  BY <1>1, ConnectorsKept DEF PageInv, PageTyped
<1>9. BarForward
  <2>1. page.pct \in 0 .. 100
    BY <1>2 DEF PageTypes
  <2> QED
    BY <1>3, <2>1 DEF BarForward
<1> QED
  BY <1>4, <1>5, <1>6, <1>7, <1>8, <1>9 DEF PageInv

\* A click, or nothing: only the selection may be another.
LEMMA SelectionKeeps ==
  ASSUME PageInv, UNCHANGED <<signal, search, currentResult, page, modulesRan>>,
         selected' = selected \/ selected' \in EvidenceKeys(currentResult)
  PROVE  PageInv' /\ ConnectorsForward /\ BarForward
<1>1. selected' = NoKey \/ selected' \in Connectors \X (Nat \ {0})
  <2>1. CASE selected' = selected
    BY <2>1 DEF PageInv, PageTyped, PageTypeOK
  <2>2. CASE selected' \in EvidenceKeys(currentResult)
    <3>1. PICK c \in DOMAIN currentResult.results :
            \E i \in 1 .. currentResult.results[c].evidence : selected' = <<c, i>>
      BY <2>2 DEF EvidenceKeys
    <3>2. c \in Connectors /\ currentResult.results[c].evidence \in {0, 1}
      BY <3>1 DEF PageInv, PageTyped, PageResults, ConnectorResults
    <3> QED
      BY <3>1, <3>2
  <2> QED
    BY <2>1, <2>2
<1>2. PageTyped'
  BY <1>1 DEF PageInv, PageTyped, PageTypeOK
<1>3. SelectedEvidenceIsListed'
  BY DEF PageInv, SelectedEvidenceIsListed, EvidenceKeys
<1>4. OwnerHasBegun' /\ HighestSeen' /\ ControlsComeBack'
  BY DEF PageInv, OwnerHasBegun, HighestSeen, ControlsComeBack, Running
<1>5. AloneInv'
  <2>1. \A s \in Searches : FollowsTheLog(s)' = FollowsTheLog(s)
    BY DEF FollowsTheLog, UpdateProgress
  <2>2. \A s \in Searches : ShowsItsOwn(s)' = ShowsItsOwn(s)
    BY <2>1 DEF ShowsItsOwn
  <2>3. \A s \in Searches : Alone(s)' = Alone(s) /\ Running(s)' = Running(s)
    BY DEF Alone, Running
  <2> QED
    BY <2>2, <2>3 DEF PageInv, AloneInv
<1>6. ConnectorsForward
  BY ConnectorsKept DEF PageInv, PageTyped
<1>7. BarForward
  <2>1. page.pct \in 0 .. 100
    BY DEF PageInv, PageTyped, PageTypeOK
  <2> QED
    BY <2>1 DEF BarForward
<1> QED
  BY <1>2, <1>3, <1>4, <1>5, <1>6, <1>7 DEF PageInv

-----------------------------------------------------------------------------
(***************************************************************************)
(* The invariant.                                                          *)
(***************************************************************************)
LEMMA PageInvInit == PageInit => PageInv
<1> SUFFICES ASSUME PageInit PROVE PageInv
  OBVIOUS
<1>1. /\ signal \in BOOLEAN /\ search = [s \in Searches |-> IdleSearch]
      /\ currentResult = NewResult(None)
      /\ page = [scan |-> FALSE, results |-> FALSE, button |-> TRUE, pct |-> 0]
      /\ modulesRan = {} /\ selected = NoKey
  BY DEF PageInit
<1>2. \A s \in Searches : search[s].at = "idle" /\ search[s] \in SearchTypes
  BY <1>1 DEF IdleSearch, SearchTypes, Places
<1>3. currentResult \in PageResults
  <2>1. [c \in {} |-> 0] \in [{} -> ConnectorResults]
    OBVIOUS
  <2>2. [c \in {} |-> 0] \in UNION {[D -> ConnectorResults] : D \in SUBSET Connectors}
    BY <2>1
  <2> QED
    BY <1>1, <2>2 DEF NewResult, PageResults
<1>4. PageTyped
  <2>1. page \in PageTypes
    BY <1>1 DEF PageTypes
  <2>2. search \in [Searches -> SearchTypes]
    BY <1>1, <1>2
  <2> QED
    BY <1>1, <1>2, <1>3, <2>1, <2>2 DEF PageTyped, PageTypeOK, PageTypes, SearchTypes
<1>5. OwnerHasBegun /\ HighestSeen
  BY <1>1 DEF OwnerHasBegun, HighestSeen, NewResult
<1>6. SelectedEvidenceIsListed
  BY <1>1 DEF SelectedEvidenceIsListed, EvidenceKeys, NewResult
<1>7. ControlsComeBack
  BY <1>1 DEF ControlsComeBack
<1>8. AloneInv
  BY <1>2 DEF AloneInv, Alone, Running, Awaiting
<1> QED
  BY <1>4, <1>5, <1>6, <1>7, <1>8 DEF PageInv

LEMMA PageInvStep ==
  ASSUME PageInv, [PageNext]_pageVars
  PROVE  PageInv' /\ ConnectorsForward /\ BarForward
<1>1. CASE NewSearch
  BY <1>1, NewSearchKeeps
<1>2. CASE ClickEvidence
  BY <1>2, SelectionKeeps DEF ClickEvidence
<1>3. ASSUME NEW s \in Searches, StartV2Search(s)
      PROVE  PageInv' /\ ConnectorsForward /\ BarForward
  BY <1>3, StartV2SearchKeeps
<1>4. ASSUME NEW s \in Searches, JobCreated(s) \/ SnapshotLoaded(s) \/ FinalizeSearch(s)
      PROVE  PageInv' /\ ConnectorsForward /\ BarForward
  BY <1>4, JobCreatedKeeps, SnapshotLoadedKeeps, FinalizeSearchKeeps
<1>5. ASSUME NEW s \in Searches, HandleV2Event(s)
      PROVE  PageInv' /\ ConnectorsForward /\ BarForward
  BY <1>5, OnJobStartedKeeps, OnConnectorStartedKeeps, OnConnectorResultKeeps, OnSummaryKeeps,
     OnJobDoneKeeps DEF HandleV2Event
<1>6. ASSUME NEW s \in Searches, RequestFails(s)
      PROVE  PageInv' /\ ConnectorsForward /\ BarForward
  BY <1>6, RequestFailsKeeps
<1>7. CASE UNCHANGED pageVars
  BY <1>7, SelectionKeeps DEF pageVars
<1> QED
  BY <1>1, <1>2, <1>3, <1>4, <1>5, <1>6, <1>7 DEF PageNext, Answer

-----------------------------------------------------------------------------
(***************************************************************************)
(* What the invariant means for the page.                                  *)
(***************************************************************************)
LEMMA HighestIsTheLast == PageInv => LastSeqIsTheHighestSeen
<1> SUFFICES ASSUME PageInv PROVE LastSeqIsTheHighestSeen
  OBVIOUS
<1> DEFINE last == currentResult.last_seq
           seqs == {m.seq : m \in currentResult.seen} \cup {0}
<1>1. last \in Nat /\ \A m \in currentResult.seen : m.seq \in Nat
  BY DEF PageInv, PageTyped, PageResults
<1>2. last \in seqs /\ \A n \in seqs : n \in Nat /\ last >= n
  BY <1>1 DEF PageInv, HighestSeen
<1> HIDE DEF last, seqs
<1>3. Max(seqs) = CHOOSE x \in seqs : \A y \in seqs : x >= y
  BY DEF Max
<1>4. Max(seqs) \in seqs /\ \A y \in seqs : Max(seqs) >= y
  BY <1>2, <1>3
<1>5. Max(seqs) = last
  BY <1>2, <1>4
<1> QED
  BY <1>5 DEF LastSeqIsTheHighestSeen, last, seqs

LEMMA CompleteAtTheEnd == PageInv => UndisturbedSearchIsComplete
<1> SUFFICES ASSUME PageInv, NEW s \in Searches, search[s].at = "timer", search[s].undisturbed
             PROVE  /\ currentResult.owner = s /\ currentResult.job = s
                    /\ currentResult.status = "done"
                    /\ currentResult.seen =
                         {[job |-> s, seq |-> i] : i \in 1 .. LogLength(search[s].plan)}
                    /\ DOMAIN currentResult.results = currentResult.planned
                    /\ modulesRan = ModulesOf(currentResult.planned)
                    /\ \A c \in currentResult.planned :
                         currentResult.results[c].job = s /\ currentResult.results[c].redacted
  BY DEF UndisturbedSearchIsComplete
<1> DEFINE plan == search[s].plan
<1>1. Alone(s)
  BY DEF Alone, Running
<1>2. FollowsTheLog(s) /\ currentResult.owner = s
  BY <1>1 DEF PageInv, AloneInv, ShowsItsOwn
<1>3. plan \in Plans
  BY InvOfSearch
<1>4. Len(plan) \in Nat /\ LogLength(plan) = 2 * Len(plan) + 3
  BY <1>3, PlanFacts DEF LogLength
<1>5. {k \in 1 .. Len(plan) : 2 * k < LogLength(plan)} = 1 .. Len(plan)
  BY <1>4
<1>6. {plan[i] : i \in {k \in 1 .. Len(plan) : 2 * k < LogLength(plan)}} = Range(plan)
  BY <1>3, <1>5, PlanFacts
<1>7. DOMAIN currentResult.results = currentResult.planned
  BY <1>2, <1>6 DEF FollowsTheLog
<1>8. modulesRan = ModulesOf(currentResult.planned)
  BY <1>2, <1>7 DEF FollowsTheLog
<1> QED
  BY <1>2, <1>7, <1>8 DEF FollowsTheLog

\* A job that is done has a result of every connector, so that found and blocked
\* ones are all of them.
LEMMA SettledAtTheEnd == PageInv => SignalSettlesWithTheJob
<1> DEFINE r == currentResult
<1> SUFFICES ASSUME PageInv, NEW s \in Searches, search[s].at = "timer", search[s].undisturbed
             PROVE  /\ SignalOutput(r, "pending") + SignalOutput(r, "running") = 0
                    /\ SignalOutput(r, "found") + SignalOutput(r, "blocked")
                         = Cardinality(DOMAIN SignalLayers(r))
  BY DEF SignalSettlesWithTheJob
<1> DEFINE names == ConnectorNames(r)
           having(status) == {c \in names : ConnectorStatus(r, c) = status}
           found == having("found")
           blocked == having("blocked")
<1>1. r.started \subseteq r.planned /\ DOMAIN r.results = r.planned
  <2>1. Alone(s)
    BY DEF Alone, Running
  <2>2. FollowsTheLog(s)
    BY <2>1 DEF PageInv, AloneInv, ShowsItsOwn
  <2> QED
    BY <2>2, CompleteAtTheEnd DEF FollowsTheLog, UndisturbedSearchIsComplete
<1>2. names = DOMAIN r.results
  BY <1>1 DEF ConnectorNames
<1>3. \A c \in names : ConnectorStatus(r, c) \in {"found", "blocked"}
  BY <1>2 DEF ConnectorStatus, PageInv, PageTyped, PageResults, ConnectorResults
<1>4. \A status : SignalOutput(r, status) = Cardinality(having(status))
  BY DEF SignalOutput, SignalLayers
<1>5. DOMAIN SignalLayers(r) = names
  BY DEF SignalLayers
<1>6. having("pending") = {} /\ having("running") = {}
  BY <1>3
<1>7. found \cup blocked = names /\ found \cap blocked = {}
  BY <1>3
<1>8. IsFiniteSet(names)
  <2>1. names \in SUBSET Connectors
    BY <1>2 DEF PageInv, PageTyped, PageResults
  <2> QED
    BY <2>1, V2PageAssumption, FS_Subset
<1>9. found \in SUBSET names /\ blocked \in SUBSET names
  OBVIOUS
<1>10. SignalOutput(r, "pending") = 0 /\ SignalOutput(r, "running") = 0
  BY <1>4, <1>6, FS_EmptySet
<1>11. /\ SignalOutput(r, "found") = Cardinality(found)
       /\ SignalOutput(r, "blocked") = Cardinality(blocked)
  BY <1>4
<1> HIDE DEF names, found, blocked
<1>12. Cardinality(found) + Cardinality(blocked) = Cardinality(names)
  <2>1. IsFiniteSet(found) /\ IsFiniteSet(blocked)
    BY <1>8, <1>9, FS_Subset
  <2>2. Cardinality(found) \in Nat /\ Cardinality(blocked) \in Nat
    BY <2>1, FS_CardinalityType
  <2>3. Cardinality(found \cup blocked) =
          Cardinality(found) + Cardinality(blocked) - Cardinality(found \cap blocked)
    BY <2>1, FS_Union
  <2>4. Cardinality(found \cap blocked) = 0
    BY <1>7, FS_EmptySet
  <2>5. Cardinality(found \cup blocked) = Cardinality(names)
    BY <1>7
  <2>6. Cardinality(names) = Cardinality(found) + Cardinality(blocked) - 0
    BY <2>3, <2>4, <2>5
  <2> DEFINE a == Cardinality(found)
             b == Cardinality(blocked)
  <2>7. a \in Nat /\ b \in Nat /\ Cardinality(names) = a + b - 0
    BY <2>2, <2>6
  <2> HIDE DEF a, b
  <2>8. Cardinality(names) = a + b
    BY <2>7
  <2> QED
    BY <2>8 DEF a, b
<1> QED
  BY <1>5, <1>10, <1>11, <1>12

-----------------------------------------------------------------------------
\* However searches overlap on one page: an undisturbed one ends with exactly its
\* own job's log, the position to reconnect from is the highest seq seen, the
\* selected evidence is listed, and a job that is done leaves no layer unsettled.
THEOREM PageFits == PageSpec => []PageFitsTogether
<1>1. PageInit => PageInv
  BY PageInvInit
<1>2. PageInv /\ [PageNext]_pageVars => PageInv'
  BY PageInvStep
<1>3. PageInv => PageFitsTogether
  BY HighestIsTheLast, CompleteAtTheEnd, SettledAtTheEnd
  DEF PageFitsTogether, PageInv, PageTyped
<1> QED
  BY <1>1, <1>2, <1>3, PTL DEF PageSpec

\* The button and the scan box never outlive the last search that restores them,
\* whether it ends in results or in a refused request.
THEOREM ControlsAreRestored == PageSpec => []ControlsComeBack
<1>1. PageInit => PageInv
  BY PageInvInit
<1>2. PageInv /\ [PageNext]_pageVars => PageInv'
  BY PageInvStep
<1>3. PageInv => ControlsComeBack
  BY DEF PageInv
<1> QED
  BY <1>1, <1>2, <1>3, PTL DEF PageSpec

\* Within one result a connector never goes back, also when an older job's start
\* comes late; the bar of an undisturbed search never does.
THEOREM PageOnlyAdvances == PageSpec => NothingMovesBack
<1>1. PageInit => PageInv
  BY PageInvInit
<1>2. PageInv /\ [PageNext]_pageVars => PageInv'
  BY PageInvStep
<1>3. PageInv /\ [PageNext]_pageVars => [ConnectorsForward]_pageVars
  BY PageInvStep
<1>4. PageInv /\ [PageNext]_pageVars => [BarForward]_pageVars
  BY PageInvStep
<1> QED
  BY <1>1, <1>2, <1>3, <1>4, PTL
  DEF PageSpec, NothingMovesBack, ConnectorsOnlyAdvance, ProgressNeverMovesBack,
      ConnectorsForward, BarForward

=============================================================================
