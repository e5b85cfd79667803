------------------------- MODULE SearchReportProofs -------------------------
(***************************************************************************)
(* Theorems about MCSearchReport: the verdict on any check of a platform,  *)
(* the quorum over batches of any length with any scores, and one legacy   *)
(* search with any lists, from its plan to its reports.                    *)
(***************************************************************************)
EXTENDS MCSearchReport, DataLemmas

-----------------------------------------------------------------------------
(***************************************************************************)
(* The verdict on a platform.                                              *)
(***************************************************************************)
IsCheck(c) ==
  /\ c.signals \subseteq GenericSignals /\ c.site \in SiteFindings

LEMMA GenericSignalsFinite == IsFiniteSet(GenericSignals)
<1> DEFINE E == {}
<1>1. IsFiniteSet(E)
  BY FS_EmptySet
<1>2. GenericSignals = E \cup {"title"} \cup {"canonical"} \cup {"final_url"} \cup {"expected_url"}
                         \cup {"jsonld"} \cup {"small_body"} \cup {"redirect_to_homepage"}
                         \cup {"baseline_indistinguishable"}
  BY DEF GenericSignals
<1> HIDE DEF E
<1> QED
  BY <1>1, <1>2, FS_AddElement

LEMMA FoundIsFinite ==
  ASSUME NEW c, IsCheck(c)
  PROVE  IsFiniteSet(Found(c))
<1>1. IsFiniteSet(c.signals)
  BY GenericSignalsFinite, FS_Subset DEF IsCheck
<1>2. CASE c.site = "none"
  <2>1. Found(c) = c.signals
    BY <1>2 DEF Found
  <2> QED
    BY <1>1, <2>1
<1>3. CASE c.site # "none"
  <2>1. Found(c) = c.signals \cup {c.site}
    BY <1>3 DEF Found
  <2> QED
    BY <1>1, <2>1, FS_AddElement
<1> QED
  BY <1>2, <1>3

\* The sum of the weights is an integer: MapThenSumSet is defined on what is found.
LEMMA RawScoreIsInt ==
  ASSUME NEW c, IsCheck(c)
  PROVE  RawScore(c) \in Int
<1> DEFINE S == Found(c)
           f == [s \in S |-> Weight(s)]
           Iter(g) == g = [s \in SUBSET S |->
                             IF s = {} THEN 0
                             ELSE LET x == CHOOSE x \in s : TRUE IN Weight(x) + g[s \ {x}]]
<1>1. IsFiniteSet(S)
  BY FoundIsFinite
<1>2. \A x \in S : f[x] = Weight(x) /\ f[x] \in Int
  BY DEF Weight
<1>3. RawScore(c) = (CHOOSE g : Iter(g))[S]
  BY DEF RawScore, MapThenSumSet, MapThenFoldSet
<1> HIDE DEF S, f
<1>4. \E g : Iter(g)
  <2>1. PICK g : g = [s \in SUBSET S |-> g[s]] /\ AddsUp(g, f, S)
    BY <1>1, <1>2, AddsUpExists
  <2>2. ASSUME NEW s \in SUBSET S
        PROVE  g[s] = IF s = {} THEN 0
                      ELSE LET x == CHOOSE x \in s : TRUE IN Weight(x) + g[s \ {x}]
    BY <1>2, <2>1 DEF AddsUp
  <2>3. Iter(g)
    BY <2>1, <2>2
  <2> HIDE DEF Iter
  <2> QED
    BY <2>3
<1> DEFINE g == CHOOSE g : Iter(g)
<1>5. Iter(g)
  <2> HIDE DEF Iter
  <2> QED
    BY <1>4
<1> HIDE DEF g
<1>6. AddsUp(g, f, S)
  BY <1>2, <1>5 DEF AddsUp
<1>7. SumOver(f, S) = g[S] /\ g[S] \in Int
  BY <1>1, <1>2, <1>6, SumOverIs
<1> QED
  BY <1>3, <1>7 DEF g

LEMMA BetweenBounds ==
  ASSUME NEW lo \in Int, NEW hi \in Int, lo <= hi, NEW n \in Int
  PROVE  /\ Between(lo, n, hi) \in Int
         /\ lo <= Between(lo, n, hi) /\ Between(lo, n, hi) <= hi
BY DEF Between

LEMMA CheckInvariance == Spec => [](check \in Checks)
<1>1. Init => check \in Checks
  <2> SUFFICES Fine \in Checks
    BY DEF Init
  <2>1. Fine = [fetch |-> "ok", signals |-> {}, site |-> "none", login |-> FALSE, low |-> FALSE,
                state |-> "not_found"]
    BY DEF Fine
  <2> QED
    BY <2>1 DEF Checks, States, SiteFindings
<1>2. check \in Checks /\ [Next]_reportRunVars => (check \in Checks)'
  BY DEF Next, reportRunVars
<1> QED
  BY <1>1, <1>2, PTL DEF Spec

LEMMA ChecksAreChecks == \A c \in Checks : IsCheck(c)
<1> TAKE c \in Checks
<1> QED
  BY DEF Checks, IsCheck, SiteFindings

\* A check is "confirmed" by one branch of combine_outcomes alone.
LEMMA ConfirmedBy ==
  ASSUME NEW c, Scored(c).status = "confirmed"
  PROVE  /\ c.fetch = "ok" /\ ~LoginInconclusive(c) /\ ~IsHardNegative(c)
         /\ Scored(c).score = Capped(c) /\ Capped(c) >= 85
<1>1. \A score : FromScore(c, score) = "confirmed" => score >= 85
  BY DEF FromScore
<1>2. c.fetch = "ok" /\ ~AuthBlocked(c) /\ ~(LoginInconclusive(c) /\ ~IsHardNegative(c))
  BY DEF Scored
<1>3. ~IsHardNegative(c)
  <2> DEFINE st == IF "baseline_indistinguishable" \in Found(c) \/ RawScore(c) > 0
                     THEN "likely_false_positive" ELSE "not_found"
             sc == Between(0, RawScore(c) + 40, 29)
  <2>1. st # "confirmed"
    OBVIOUS
  <2> SUFFICES ASSUME IsHardNegative(c) PROVE FALSE
    OBVIOUS
  <2>2. Scored(c) = [status |-> st, score |-> sc]
    BY <1>2 DEF Scored
  <2> HIDE DEF st, sc
  <2> QED
    BY <2>1, <2>2
<1>4. Scored(c) = [status |-> FromScore(c, Capped(c)), score |-> Capped(c)]
  BY <1>2, <1>3 DEF Scored
<1> QED
  BY <1>1, <1>2, <1>3, <1>4

\* No profile is confirmed against a doubt, on any check: the cap of the platforms
\* of low reliability is under the threshold of "confirmed".
THEOREM VerdictInvariance == Spec => []DoubtIsNeverConfirmed
<1>1. check \in Checks => DoubtIsNeverConfirmed
  <2> SUFFICES ASSUME check \in Checks, Scored(check).status = "confirmed"
               PROVE  /\ check.fetch = "ok" /\ ~LoginInconclusive(check)
                      /\ Found(check) \intersect HardNegative = {}
                      /\ check.low => Found(check) \intersect HardPositive # {}
                      /\ ConfidenceLevel(Scored(check).score) = "high"
    BY DEF DoubtIsNeverConfirmed
  <2>1. RawScore(check) \in Int
    BY ChecksAreChecks, RawScoreIsInt
  <2>2. Between(0, RawScore(check), 100) \in Int
    BY <2>1, BetweenBounds
  <2>3. ASSUME check.low, Found(check) \intersect HardPositive = {} PROVE FALSE
    <3>1. Capped(check) = Between(0, Between(0, RawScore(check), 100), 84)
      BY <2>3 DEF Capped
    <3>2. \A n \in Int : Between(0, n, 84) \in Int /\ Between(0, n, 84) <= 84
      BY BetweenBounds
    <3>3. Capped(check) \in Int /\ Capped(check) <= 84
      BY <2>2, <3>1, <3>2
    <3> QED
      BY <3>3, ConfirmedBy
  <2> QED
    BY <2>3, ConfirmedBy DEF IsHardNegative, ConfidenceLevel
<1> QED
  BY <1>1, CheckInvariance, PTL

-----------------------------------------------------------------------------
(***************************************************************************)
(* Three readers of one check.                                             *)
(***************************************************************************)
Verdicts == {"confirmed", "likely", "uncertain", "likely_false_positive", "not_found", "invalid"}

LEMMA ScoredStatus ==
  ASSUME NEW c
  PROVE  /\ Scored(c).status \in Verdicts
         /\ c.fetch # "ok" \/ AuthBlocked(c) <=> Scored(c).status = "invalid"
<1> DEFINE st == IF "baseline_indistinguishable" \in Found(c) \/ RawScore(c) > 0
                   THEN "likely_false_positive" ELSE "not_found"
           s1 == Between(0, RawScore(c) + 40, 29)
           s2 == Between(30, RawScore(c), 59)
           fs == FromScore(c, Capped(c))
<1>1. st \in Verdicts /\ st # "invalid" /\ fs \in Verdicts /\ fs # "invalid"
  BY DEF Verdicts, FromScore
<1>2. Scored(c) = IF c.fetch # "ok" THEN [status |-> "invalid", score |-> 0]
                  ELSE IF AuthBlocked(c) THEN [status |-> "invalid", score |-> 0]
                  ELSE IF LoginInconclusive(c) /\ ~IsHardNegative(c)
                    THEN [status |-> "uncertain", score |-> s2]
                  ELSE IF IsHardNegative(c) THEN [status |-> st, score |-> s1]
                  ELSE [status |-> fs, score |-> Capped(c)]
  BY DEF Scored
<1> HIDE DEF st, s1, s2, fs
<1> QED
  BY <1>1, <1>2 DEF Verdicts

LEMMA CardAndCase ==
  ASSUME NEW p, p.validation \in Verdicts
  PROVE  /\ CardStatus(p) = CaseStatus(p)
         /\ p.fetch = "cf_challenge" => CardStatus(p) = "blocked"
         /\ p.fetch # "cf_challenge" =>
              /\ p.validation = "confirmed" => CardStatus(p) = "found"
              /\ p.validation = "likely" => CardStatus(p) = "likely"
              /\ p.validation = "uncertain" => CardStatus(p) = "uncertain"
              /\ p.validation \in {"likely_false_positive", "not_found"} => CardStatus(p) = "not_found"
              /\ p.validation = "invalid" => CardStatus(p) = "error"
<1> DEFINE m == SHERLOCK_STATUS_MAP
<1>1. /\ m["confirmed"] = "found" /\ m["likely"] = "likely" /\ m["uncertain"] = "uncertain"
      /\ m["likely_false_positive"] = "not_found" /\ m["not_found"] = "not_found"
      /\ m["invalid"] = "error"
  BY DEF SHERLOCK_STATUS_MAP
<1>2. CardStatus(p) = IF p.fetch = "cf_challenge" THEN "blocked" ELSE m[p.validation]
  BY DEF CardStatus
<1> HIDE DEF m
<1>3. /\ p.validation = "confirmed" => m[p.validation] = "found"
      /\ p.validation = "likely" => m[p.validation] = "likely"
      /\ p.validation = "uncertain" => m[p.validation] = "uncertain"
      /\ p.validation \in {"likely_false_positive", "not_found"} => m[p.validation] = "not_found"
      /\ p.validation = "invalid" => m[p.validation] = "error"
  BY <1>1
<1> DEFINE v == p.validation
           card == CardStatus(p)
           case == CaseStatus(p)
<1>4. case = IF p.fetch = "cf_challenge" THEN "blocked"
             ELSE CASE v = "confirmed" -> "found"
                    [] v \in {"likely", "uncertain"} -> v
                    [] v \in {"likely_false_positive", "not_found"} -> "not_found"
                    [] OTHER -> "error"
  BY DEF CaseStatus
<1>5. v \in Verdicts
  OBVIOUS
<1> HIDE DEF v, card, case
<1>6. case = card
  <2>1. CASE p.fetch = "cf_challenge"
    BY <1>2, <1>4, <2>1 DEF card
  <2>2. CASE p.fetch # "cf_challenge" /\ v = "confirmed"
    BY <1>2, <1>3, <1>4, <2>2 DEF card, v
  <2>3. CASE p.fetch # "cf_challenge" /\ v \in {"likely", "uncertain"}
    <3>1. v # "confirmed" /\ card = v
      BY <1>2, <1>3, <2>3 DEF card, v
    <3>2. p.fetch # "cf_challenge" /\ v \in {"likely", "uncertain"}
      BY <2>3
    <3>3. case = v
      BY <1>4, <3>1, <3>2, Zenon
    <3> QED
      BY <3>1, <3>3
  <2>4. CASE p.fetch # "cf_challenge" /\ v \in {"likely_false_positive", "not_found"}
    BY <1>2, <1>3, <1>4, <2>4 DEF card, v
  <2>5. CASE p.fetch # "cf_challenge" /\ v = "invalid"
    BY <1>2, <1>3, <1>4, <2>5 DEF card, v
  <2> QED
    BY <1>5, <2>1, <2>2, <2>3, <2>4, <2>5 DEF Verdicts
<1> QED
  BY <1>2, <1>3, <1>6 DEF card, case

LEMMA OneCheckThreeReaders ==
  ASSUME NEW c, c.fetch \in {"ok", "cf_challenge", "timeout", "other", "unsaid"}
  PROVE  LET p == Normalized(c)
         IN  /\ CardStatus(p) = CaseStatus(p)
             /\ ConnectorStatus(c) # CardStatus(p) =>
                  AuthBlocked(c) /\ ConnectorStatus(c) = "blocked" /\ CardStatus(p) = "error"
<1> DEFINE p == Normalized(c)
<1>1. /\ p.validation = Scored(c).status /\ p.fetch = FetchStatus(c)
      /\ p.validation \in Verdicts
  BY ScoredStatus DEF Normalized
<1>2. /\ p.fetch = "cf_challenge" <=> c.fetch = "cf_challenge"
      /\ c.fetch = "cf_challenge" => p.validation = "invalid"
  BY <1>1, ScoredStatus DEF FetchStatus
<1> HIDE DEF p
<1>3. /\ Scored(c).status = "confirmed" => ConnectorStatus(c) = "found"
      /\ Scored(c).status = "likely" => ConnectorStatus(c) = "likely"
      /\ Scored(c).status = "uncertain" => ConnectorStatus(c) = "uncertain"
      /\ Scored(c).status \in {"likely_false_positive", "not_found"} => ConnectorStatus(c) = "not_found"
      /\ Scored(c).status = "invalid" =>
           ConnectorStatus(c) = IF AuthBlocked(c) \/ c.fetch = "cf_challenge" THEN "blocked" ELSE "error"
  BY DEF ConnectorStatus
<1>4. CardStatus(p) = CaseStatus(p)
  BY <1>1, CardAndCase
<1>5. CASE c.fetch = "cf_challenge"
  <2>1. CardStatus(p) = "blocked" /\ ConnectorStatus(c) = "blocked"
    BY <1>1, <1>2, <1>3, <1>5, CardAndCase
  <2> QED
    BY <1>4, <2>1 DEF p
<1>6. CASE c.fetch # "cf_challenge" /\ p.validation # "invalid"
  <2>1. CardStatus(p) = ConnectorStatus(c)
    BY <1>1, <1>2, <1>3, <1>6, CardAndCase DEF Verdicts
  <2> QED
    BY <1>4, <2>1 DEF p
<1>7. CASE c.fetch # "cf_challenge" /\ p.validation = "invalid"
  <2>1. /\ CardStatus(p) = "error"
        /\ ConnectorStatus(c) = IF AuthBlocked(c) THEN "blocked" ELSE "error"
    BY <1>1, <1>2, <1>3, <1>7, CardAndCase
  <2> QED
    BY <1>4, <2>1 DEF p
<1> QED
  BY <1>5, <1>6, <1>7

-----------------------------------------------------------------------------
(***************************************************************************)
(* The batch of results, its summary by the server and by the page.        *)
(***************************************************************************)
Batch == [connector : Connectors, status : Statuses, score : Int]

LEMMA BatchInvariance == Spec => [](results \in Seq(Batch))
<1>1. Init => results \in Seq(Batch)
  BY EmptySeq DEF Init
<1>2. results \in Seq(Batch) /\ [Next]_reportRunVars => (results \in Seq(Batch))'
  <2> SUFFICES ASSUME results \in Seq(Batch), [Next]_reportRunVars PROVE results' \in Seq(Batch)
    OBVIOUS
  <2>1. ASSUME NEW c \in Connectors, NEW st \in Statuses, NEW s \in BatchScores, Answer(c, st, s)
        PROVE  results' \in Seq(Batch)
    <3>1. [connector |-> c, status |-> st, score |-> s] \in Batch
      BY BatchAssumption DEF Batch
    <3> QED
      BY <2>1, <3>1, AppendProperties DEF Answer
  <2>2. CASE results' = results
    BY <2>2
  <2> QED
    BY <2>1, <2>2 DEF Next, reportRunVars
<1> QED
  BY <1>1, <1>2, PTL DEF Spec

\* What the counts of a set of positions tell.
LEMMA FewOrMany ==
  ASSUME NEW S, IsFiniteSet(S)
  PROVE  /\ Cardinality(S) \in Nat
         /\ Cardinality(S) = 0 <=> S = {}
         /\ Cardinality(S) >= 2 <=> \E x, y \in S : x # y
<1>1. Cardinality(S) \in Nat /\ (Cardinality(S) = 0 <=> S = {})
  BY FS_CardinalityType, FS_EmptySet
<1>2. CASE S = {}
  BY <1>1, <1>2
<1>3. ASSUME NEW x \in S
      PROVE  Cardinality(S) >= 2 <=> \E z, y \in S : z # y
  <2>1. /\ IsFiniteSet(S \ {x}) /\ Cardinality(S \ {x}) = Cardinality(S) - 1
        /\ Cardinality(S \ {x}) \in Nat
        /\ Cardinality(S \ {x}) = 0 <=> S \ {x} = {}
    BY FS_RemoveElement, FS_CardinalityType, FS_EmptySet
  <2>2. Cardinality(S) >= 2 <=> S \ {x} # {}
    BY <1>1, <2>1
  <2> QED
    BY <2>2
<1> QED
  BY <1>1, <1>2, <1>3

LEMMA AtIsFinite ==
  ASSUME NEW r \in Seq(Batch), NEW st
  PROVE  IsFiniteSet(At(r, st)) /\ At(r, st) \subseteq DOMAIN r /\ DOMAIN r = 1..Len(r)
<1>1. DOMAIN r = 1..Len(r) /\ Len(r) \in Nat
  BY LenProperties
<1>2. IsFiniteSet(DOMAIN r)
  BY <1>1, FS_Interval
<1> QED
  BY <1>1, <1>2, FS_Subset DEF At

LEMMA SameSummary == results \in Seq(Batch) => CaseAgreesOnHits
<1> SUFFICES ASSUME results \in Seq(Batch),
                    IsInjective([i \in DOMAIN results |-> results[i].connector])
             PROVE  LET case == SummaryStatus([i \in DOMAIN results |-> results[i].status])
                        job == OverallStatus(results)
                    IN  /\ \A hit \in {"found", "likely"} : case = hit <=> job = hit
                        /\ case = "not_found" => job \notin {"blocked", "error"}
  BY DEF CaseAgreesOnHits, Overall, AggregateResults
<1> DEFINE case == SummaryStatus([i \in DOMAIN results |-> results[i].status])
           n(s) == Cardinality(At(results, s))
<1>1. case = IF n("found") >= 2 THEN "found"
             ELSE IF n("found") = 1 \/ n("likely") > 0 THEN "likely"
             ELSE IF n("blocked") > 0 THEN "blocked"
             ELSE IF n("error") > 0 THEN "error"
             ELSE IF n("not_found") > 0 THEN "not_found"
             ELSE "uncertain"
  <2> DEFINE f == [i \in DOMAIN results |-> results[i].status]
  <2>1. \A s : {i \in DOMAIN f : f[i] = s} = At(results, s)
    BY DEF At
  <2> HIDE DEF f
  <2> QED
    BY <2>1 DEF SummaryStatus, f
<1>2. \A s : n(s) \in Nat /\ (n(s) = 0 <=> At(results, s) = {})
             /\ (n(s) >= 2 <=> \E x, y \in At(results, s) : x # y)
  BY AtIsFinite, FewOrMany
<1>3. Quorum(results) <=> n("found") >= 2
  <2>1. \A i, k \in DOMAIN results : results[i].connector = results[k].connector => i = k
    BY DEF IsInjective
  <2> QED
    BY <1>2, <2>1, AtIsFinite DEF Quorum
<1> HIDE DEF case, n
<1>4. /\ n("found") \in Nat /\ (n("found") = 0 <=> At(results, "found") = {})
      /\ n("likely") \in Nat /\ (n("likely") = 0 <=> At(results, "likely") = {})
      /\ n("blocked") \in Nat /\ (n("blocked") = 0 <=> At(results, "blocked") = {})
      /\ n("error") \in Nat /\ (n("error") = 0 <=> At(results, "error") = {})
  BY <1>2
<1>5. /\ case = "found" <=> n("found") >= 2
      /\ case = "likely" <=> ~(n("found") >= 2) /\ (n("found") = 1 \/ n("likely") > 0)
      /\ case = "not_found" => ~(n("blocked") > 0) /\ ~(n("error") > 0)
  BY <1>1
<1>6. /\ OverallStatus(results) = "found" <=> Quorum(results)
      /\ OverallStatus(results) = "likely"
           <=> ~Quorum(results) /\ (At(results, "found") # {} \/ At(results, "likely") # {})
      /\ OverallStatus(results) = "blocked" => At(results, "blocked") # {}
      /\ OverallStatus(results) = "error" => At(results, "error") # {}
  BY DEF OverallStatus, All
<1> QED
  BY <1>3, <1>4, <1>5, <1>6 DEF case

\* Server, page and saved case agree on every check and on every batch of results,
\* whatever the number of connectors.
THEOREM ReadersInvariance == Spec => []ReadersAgree
<1>1. check \in Checks => HitsAreTheSameEverywhere
  <2>1. \A c \in Checks : c.fetch \in {"ok", "cf_challenge", "timeout", "other", "unsaid"}
    BY DEF Checks
  <2> QED
    BY <2>1, OneCheckThreeReaders DEF HitsAreTheSameEverywhere
<1>2. check \in Checks /\ results \in Seq(Batch) => ReadersAgree
  BY <1>1, SameSummary DEF ReadersAgree
<1> QED
  BY <1>2, CheckInvariance, BatchInvariance, PTL

-----------------------------------------------------------------------------
(***************************************************************************)
(* The scores of a batch.                                                  *)
(***************************************************************************)
\* The places of a list q and the set S of positions in r correspond one to one.
Picks(m, q, S, r) ==
  /\ Renames(m, 1..Len(q), S)
  /\ \A x \in 1..Len(q) : q[x] = r[m[x]].score

\* The positions up to i of the results with a status.
WithStatus(r, st, i) == {j \in 1..i : r[j].status = st}

\* A value g[1..i] for each prefix of r: the scores picked so far.
PickedUpTo(g, r, st, i) ==
  g[1..i] \in Seq(Int) /\ \E m : Picks(m, g[1..i], WithStatus(r, st, i), r)

PicksScores(g, r, st) ==
  /\ g[{}] = <<>>
  /\ \A i \in 1..Len(r) :
       g[1..i] = IF r[i].status = st THEN Append(g[1..(i - 1)], r[i].score)
                 ELSE g[1..(i - 1)]
  /\ Scores(r, st) = g[1..Len(r)]

LEMMA ScoresFold ==
  ASSUME NEW r \in Seq(Batch), NEW st
  PROVE  \E g : PicksScores(g, r, st)
<1> DEFINE D == DOMAIN r
           V == Seq(Int)
           Iter(g) == g = [d \in SUBSET D |->
                             IF d = {} THEN <<>>
                             ELSE LET x == Max(d)
                                  IN  IF r[x].status = st THEN Append(g[d \ {x}], r[x].score)
                                      ELSE g[d \ {x}]]
           h == [p \in V \X Batch |->
                   IF p[2].status = st THEN Append(p[1], p[2].score) ELSE p[1]]
<1>1. D = 1..Len(r) /\ Len(r) \in Nat /\ \A i \in D : r[i] \in Batch
  BY LenProperties, ElementOfSeq
<1>2. Scores(r, st) = (CHOOSE g : Iter(g))[D]
  BY DEF Scores, FoldLeft, MapThenFoldSet
<1>3. h \in [V \X Batch -> V]
  <2>1. ASSUME NEW v \in V, NEW b \in Batch PROVE Append(v, b.score) \in V
    BY AppendProperties DEF Batch
  <2> QED
    BY <2>1
<1>4. <<>> \in V
  BY EmptySeq
<1>5. \A v \in V, b \in Batch : h[<<v, b>>] = IF b.status = st THEN Append(v, b.score) ELSE v
  OBVIOUS
<1> HIDE DEF h
<1>6. \E g : Iter(g)
  <2>1. PICK g : FoldsLeft(g, r, V, <<>>, h)
    BY <1>3, <1>4, FoldLeftExists
  <2>2. g = [d \in SUBSET D |-> g[d]]
    BY <2>1 DEF FoldsLeft
  <2>3. ASSUME NEW d \in SUBSET D
        PROVE  g[d] = IF d = {} THEN <<>>
                      ELSE LET x == Max(d)
                           IN  IF r[x].status = st THEN Append(g[d \ {x}], r[x].score)
                               ELSE g[d \ {x}]
    <3>1. CASE d = {}
      BY <2>1, <3>1 DEF FoldsLeft
    <3>2. CASE d # {}
      <4>1. Max(d) \in D
        BY <1>1, <3>2, MaxOfFinite
      <4>2. r[Max(d)] \in Batch /\ g[d \ {Max(d)}] \in V
        BY <1>1, <2>1, <4>1 DEF FoldsLeft
      <4>3. g[d] = h[<<g[d \ {Max(d)}], r[Max(d)]>>]
        BY <2>1, <3>2 DEF FoldsLeft
      <4> QED
        BY <1>5, <3>2, <4>2, <4>3
    <3> QED
      BY <3>1, <3>2
  <2>4. Iter(g)
    BY <2>2, <2>3
  <2> HIDE DEF Iter
  <2> QED
    BY <2>4
<1> DEFINE g == CHOOSE g : Iter(g)
<1>7. Iter(g)
  <2> HIDE DEF Iter
  <2> QED
    BY <1>6
<1> HIDE DEF g
<1>8. g[{}] = <<>>
  BY <1>7
<1>9. ASSUME NEW i \in 1..Len(r)
      PROVE  g[1..i] = IF r[i].status = st THEN Append(g[1..(i - 1)], r[i].score)
                       ELSE g[1..(i - 1)]
  <2>1. 1..i \in SUBSET D /\ 1..i # {} /\ Max(1..i) = i /\ (1..i) \ {i} = 1..(i - 1)
    BY <1>1, PrefixSteps
  <2> QED
    BY <1>7, <2>1
<1>10. Scores(r, st) = g[1..Len(r)]
  BY <1>1, <1>2 DEF g
<1> QED
  BY <1>8, <1>9, <1>10 DEF PicksScores

\* The scores are those of the results with the status, each once.
LEMMA ScoresArePicked ==
  ASSUME NEW r \in Seq(Batch), NEW st
  PROVE  Scores(r, st) \in Seq(Int) /\ \E m : Picks(m, Scores(r, st), At(r, st), r)
<1>1. DOMAIN r = 1..Len(r) /\ Len(r) \in Nat /\ \A i \in 1..Len(r) : r[i].score \in Int
  <2>1. DOMAIN r = 1..Len(r) /\ Len(r) \in Nat /\ \A i \in 1..Len(r) : r[i] \in Batch
    BY LenProperties, ElementOfSeq
  <2> QED
    BY <2>1 DEF Batch
<1>2. PICK g : PicksScores(g, r, st)
  BY ScoresFold
<1> DEFINE S(i) == WithStatus(r, st, i)
           T == {i \in Nat : i <= Len(r) => PickedUpTo(g, r, st, i)}
<1>3. 0 \in T
  <2> DEFINE m == [x \in {} |-> x]
  <2>1. S(0) = {} /\ Len(<<>>) = 0 /\ 1..0 = {}
    BY EmptySeq DEF WithStatus
  <2>2. Picks(m, <<>>, S(0), r)
    BY <2>1 DEF Picks, Renames
  <2>3. \E f : Picks(f, g[1..0], S(0), r)
    BY <1>2, <2>1, <2>2 DEF PicksScores
  <2>4. g[1..0] \in Seq(Int)
    BY <1>2, <2>1, EmptySeq DEF PicksScores
  <2> QED
    BY <2>3, <2>4 DEF PickedUpTo
<1>4. ASSUME NEW n \in Nat, n \in T PROVE n + 1 \in T
  <2> SUFFICES ASSUME n + 1 <= Len(r)
               PROVE  g[1..(n + 1)] \in Seq(Int) /\ \E m : Picks(m, g[1..(n + 1)], S(n + 1), r)
    BY DEF PickedUpTo
  <2> DEFINE q == g[1..n]
             p == g[1..(n + 1)]
             e == r[n + 1]
  <2>1. n <= Len(r) /\ n + 1 \in 1..Len(r) /\ (n + 1) - 1 = n
    BY <1>1
  <2>2. q \in Seq(Int) /\ \E m : Picks(m, q, S(n), r)
    BY <1>4, <2>1 DEF PickedUpTo
  <2>3. PICK m : Picks(m, q, S(n), r)
    BY <2>2
  <2>4. p = IF e.status = st THEN Append(q, e.score) ELSE q
    BY <1>2, <2>1 DEF PicksScores
  <2>5. e.score \in Int
    BY <1>1, <2>1
  <2>6. S(n + 1) = IF e.status = st THEN S(n) \cup {n + 1} ELSE S(n)
    BY DEF WithStatus
  <2>7. n + 1 \notin S(n)
    BY DEF WithStatus
  <2>8. ASSUME e.status = st
        PROVE  p \in Seq(Int) /\ \E f : Picks(f, p, S(n + 1), r)
    <3> DEFINE f == [x \in 1..Len(p) |-> IF x = Len(p) THEN n + 1 ELSE m[x]]
               U == S(n)
               W == S(n + 1)
    <3>1. W = U \cup {n + 1} /\ n + 1 \notin U
      BY <2>6, <2>7, <2>8
    <3>2. /\ p = Append(q, e.score) /\ p \in Seq(Int) /\ Len(p) = Len(q) + 1 /\ Len(q) \in Nat
          /\ p[Len(q) + 1] = e.score /\ \A x \in 1..Len(q) : p[x] = q[x]
      BY <2>2, <2>4, <2>5, <2>8, AppendProperties, LenProperties
    <3>3. 1..Len(p) = 1..Len(q) \cup {Len(p)} /\ Len(p) \notin 1..Len(q)
      BY <3>2
    <3>4. Picks(m, q, U, r)
      BY <2>3
    <3>5. f[Len(p)] = n + 1 /\ \A x \in 1..Len(q) : f[x] = m[x] /\ f[x] \in U
      BY <3>3, <3>4 DEF Picks, Renames
    <3> HIDE DEF U, W
    <3>6. f \in [1..Len(p) -> W]
      BY <3>1, <3>3, <3>5
    <3> HIDE DEF p, q, f
    <3>7. \A x, y \in 1..Len(p) : f[x] = f[y] => x = y
      BY <3>1, <3>3, <3>4, <3>5 DEF Picks, Renames
    <3>8. \A s \in W : \E x \in 1..Len(p) : f[x] = s
      BY <3>1, <3>3, <3>4, <3>5 DEF Picks, Renames
    <3>9. \A x \in 1..Len(p) : p[x] = r[f[x]].score
      BY <3>2, <3>3, <3>4, <3>5 DEF Picks, Renames
    <3>10. Picks(f, p, W, r)
      BY <3>6, <3>7, <3>8, <3>9 DEF Picks, Renames
    <3> QED
      BY <3>2, <3>10 DEF W
  <2>9. ASSUME e.status # st
        PROVE  p \in Seq(Int) /\ \E f : Picks(f, p, S(n + 1), r)
    <3>1. p = q /\ S(n + 1) = S(n)
      BY <2>4, <2>6, <2>9
    <3> QED
      BY <2>2, <3>1
  <2> QED
    BY <2>8, <2>9
<1>5. Len(r) \in T
  <2> HIDE DEF T
  <2> QED
    BY <1>1, <1>3, <1>4, Induction
<1>6. S(Len(r)) = At(r, st)
  BY <1>1 DEF At, WithStatus
<1>7. PickedUpTo(g, r, st, Len(r))
  BY <1>1, <1>5
<1> QED
  BY <1>2, <1>6, <1>7 DEF PickedUpTo, PicksScores

-----------------------------------------------------------------------------
(***************************************************************************)
(* Mean and maximum of a list of scores.                                   *)
(***************************************************************************)
Clamped(q) == [i \in DOMAIN q |-> Clamp(q[i], 0, 100)]
Total100(q) == FoldLeft(LAMBDA acc, s : acc + Clamp(s, 0, 100), 0, q)

\* g[1..i] folds the first i scores: adds them up, or keeps the highest.
AddsScores(g, q) ==
  /\ g[{}] = 0
  /\ \A i \in 1..Len(q) : g[1..i] = g[1..(i - 1)] + Clamp(q[i], 0, 100)
  /\ Total100(q) = g[1..Len(q)]

KeepsHighest(g, q) ==
  /\ g[{}] = Head(q)
  /\ \A i \in 1..Len(q) : g[1..i] = IF q[i] > g[1..(i - 1)] THEN q[i] ELSE g[1..(i - 1)]
  /\ Highest(q) = g[1..Len(q)]

LEMMA ClampIsInt ==
  ASSUME NEW n \in Int, NEW lo \in Int, NEW hi \in Int, lo <= hi
  PROVE  Clamp(n, lo, hi) \in Int /\ lo <= Clamp(n, lo, hi) /\ Clamp(n, lo, hi) <= hi
BY DEF Clamp

LEMMA TotalFold ==
  ASSUME NEW q \in Seq(Int)
  PROVE  \E g : AddsScores(g, q)
<1> DEFINE D == DOMAIN q
           Iter(g) == g = [d \in SUBSET D |->
                             IF d = {} THEN 0
                             ELSE LET x == Max(d) IN g[d \ {x}] + Clamp(q[x], 0, 100)]
           h == [p \in Int \X Int |-> p[1] + Clamp(p[2], 0, 100)]
<1>1. D = 1..Len(q) /\ Len(q) \in Nat /\ \A i \in D : q[i] \in Int
  BY LenProperties, ElementOfSeq
<1>2. Total100(q) = (CHOOSE g : Iter(g))[D]
  BY DEF Total100, FoldLeft, MapThenFoldSet
<1>3. h \in [Int \X Int -> Int] /\ 0 \in Int
  <2>1. \A s \in Int : Clamp(s, 0, 100) \in Int
    BY ClampIsInt
  <2> QED
    BY <2>1
<1>4. \A v \in Int, s \in Int : h[<<v, s>>] = v + Clamp(s, 0, 100)
  OBVIOUS
<1> HIDE DEF h
<1>5. \E g : Iter(g)
  <2>1. PICK g : FoldsLeft(g, q, Int, 0, h)
    BY <1>3, FoldLeftExists
  <2>2. g = [d \in SUBSET D |-> g[d]]
    BY <2>1 DEF FoldsLeft
  <2>3. ASSUME NEW d \in SUBSET D
        PROVE  g[d] = IF d = {} THEN 0
                      ELSE LET x == Max(d) IN g[d \ {x}] + Clamp(q[x], 0, 100)
    <3>1. CASE d = {}
      BY <2>1, <3>1 DEF FoldsLeft
    <3>2. CASE d # {}
      <4>1. Max(d) \in D
        BY <1>1, <3>2, MaxOfFinite
      <4>2. q[Max(d)] \in Int /\ g[d \ {Max(d)}] \in Int
        BY <1>1, <2>1, <4>1 DEF FoldsLeft
      <4>3. g[d] = h[<<g[d \ {Max(d)}], q[Max(d)]>>]
        BY <2>1, <3>2 DEF FoldsLeft
      <4> QED
        BY <1>4, <3>2, <4>2, <4>3
    <3> QED
      BY <3>1, <3>2
  <2>4. Iter(g)
    BY <2>2, <2>3
  <2> HIDE DEF Iter
  <2> QED
    BY <2>4
<1> DEFINE g == CHOOSE g : Iter(g)
<1>6. Iter(g)
  <2> HIDE DEF Iter
  <2> QED
    BY <1>5
<1> HIDE DEF g
<1>7. g[{}] = 0
  BY <1>6
<1>8. ASSUME NEW i \in 1..Len(q)
      PROVE  g[1..i] = g[1..(i - 1)] + Clamp(q[i], 0, 100)
  <2>1. 1..i \in SUBSET D /\ 1..i # {} /\ Max(1..i) = i /\ (1..i) \ {i} = 1..(i - 1)
    BY <1>1, PrefixSteps
  <2> QED
    BY <1>6, <2>1
<1>9. Total100(q) = g[1..Len(q)]
  BY <1>1, <1>2 DEF g
<1> QED
  BY <1>7, <1>8, <1>9 DEF AddsScores

LEMMA HighestFold ==
  ASSUME NEW q \in Seq(Int), q # <<>>
  PROVE  \E g : KeepsHighest(g, q)
<1> DEFINE D == DOMAIN q
           Iter(g) == g = [d \in SUBSET D |->
                             IF d = {} THEN Head(q)
                             ELSE LET x == Max(d)
                                  IN  IF q[x] > g[d \ {x}] THEN q[x] ELSE g[d \ {x}]]
           h == [p \in Int \X Int |-> IF p[2] > p[1] THEN p[2] ELSE p[1]]
<1>1. D = 1..Len(q) /\ Len(q) \in Nat /\ \A i \in D : q[i] \in Int
  BY LenProperties, ElementOfSeq
<1>2. Highest(q) = (CHOOSE g : Iter(g))[D]
  BY DEF Highest, FoldLeft, MapThenFoldSet
<1>3. h \in [Int \X Int -> Int] /\ Head(q) \in Int
  BY HeadTailProperties
<1>4. \A v \in Int, s \in Int : h[<<v, s>>] = IF s > v THEN s ELSE v
  OBVIOUS
<1> HIDE DEF h
<1>5. \E g : Iter(g)
  <2>1. PICK g : FoldsLeft(g, q, Int, Head(q), h)
    BY <1>3, FoldLeftExists
  <2>2. g = [d \in SUBSET D |-> g[d]]
    BY <2>1 DEF FoldsLeft
  <2>3. ASSUME NEW d \in SUBSET D
        PROVE  g[d] = IF d = {} THEN Head(q)
                      ELSE LET x == Max(d)
                           IN  IF q[x] > g[d \ {x}] THEN q[x] ELSE g[d \ {x}]
    <3>1. CASE d = {}
      BY <2>1, <3>1 DEF FoldsLeft
    <3>2. CASE d # {}
      <4>1. Max(d) \in D
        BY <1>1, <3>2, MaxOfFinite
      <4>2. q[Max(d)] \in Int /\ g[d \ {Max(d)}] \in Int
        BY <1>1, <2>1, <4>1 DEF FoldsLeft
      <4>3. g[d] = h[<<g[d \ {Max(d)}], q[Max(d)]>>]
        BY <2>1, <3>2 DEF FoldsLeft
      <4> QED
        BY <1>4, <3>2, <4>2, <4>3
    <3> QED
      BY <3>1, <3>2
  <2>4. Iter(g)
    BY <2>2, <2>3
  <2> HIDE DEF Iter
  <2> QED
    BY <2>4
<1> DEFINE g == CHOOSE g : Iter(g)
<1>6. Iter(g)
  <2> HIDE DEF Iter
  <2> QED
    BY <1>5
<1> HIDE DEF g
<1>7. g[{}] = Head(q)
  BY <1>6
<1>8. ASSUME NEW i \in 1..Len(q)
      PROVE  g[1..i] = IF q[i] > g[1..(i - 1)] THEN q[i] ELSE g[1..(i - 1)]
  <2>1. 1..i \in SUBSET D /\ 1..i # {} /\ Max(1..i) = i /\ (1..i) \ {i} = 1..(i - 1)
    BY <1>1, PrefixSteps
  <2> QED
    BY <1>6, <2>1
<1>9. Highest(q) = g[1..Len(q)]
  BY <1>1, <1>2 DEF g
<1> QED
  BY <1>7, <1>8, <1>9 DEF KeepsHighest

LEMMA TotalIsASum ==
  ASSUME NEW q \in Seq(Int)
  PROVE  Total100(q) = SumOver(Clamped(q), DOMAIN q)
<1> DEFINE f == Clamped(q)
<1>1. PICK g : AddsScores(g, q)
  BY TotalFold
<1>2. DOMAIN q = 1..Len(q) /\ Len(q) \in Nat /\ \A i \in 1..Len(q) : q[i] \in Int
  BY LenProperties, ElementOfSeq
<1>3. \A i \in 1..Len(q) : f[i] = Clamp(q[i], 0, 100) /\ f[i] \in Int
  <2>1. \A n \in Int : Clamp(n, 0, 100) \in Int
    BY ClampIsInt
  <2>2. \A i \in 1..Len(q) : f[i] = Clamp(q[i], 0, 100)
    BY <1>2 DEF Clamped
  <2> QED
    BY <1>2, <2>1, <2>2
<1> HIDE DEF f
<1> DEFINE T == {i \in Nat : i <= Len(q) => g[1..i] = SumOver(f, 1..i)}
<1>4. 0 \in T
  <2>1. 1..0 = {}
    OBVIOUS
  <2>2. g[{}] = SumOver(f, {})
    BY <1>1, SumOfNone DEF AddsScores
  <2> QED
    BY <2>1, <2>2
<1>5. ASSUME NEW n \in Nat, n \in T PROVE n + 1 \in T
  <2> SUFFICES ASSUME n + 1 <= Len(q) PROVE g[1..(n + 1)] = SumOver(f, 1..(n + 1))
    OBVIOUS
  <2> DEFINE S == 1..(n + 1)
             x == n + 1
  <2>1. /\ n + 1 \in 1..Len(q) /\ (n + 1) - 1 = n /\ n <= Len(q)
        /\ S \ {x} = 1..n /\ x \in S /\ S \subseteq 1..Len(q)
    BY <1>2
  <2>2. IsFiniteSet(S)
    BY FS_Interval
  <2>3. g[S] = g[1..n] + f[x] /\ g[1..n] = SumOver(f, 1..n)
    BY <1>1, <1>3, <1>5, <2>1 DEF AddsScores
  <2>4. \A i \in S : f[i] \in Int
    BY <1>3, <2>1
  <2>5. SumOver(f, 1..n) \in Int
    <3>1. IsFiniteSet(1..n) /\ \A i \in 1..n : f[i] \in Int /\ f[i] = f[i]
      BY <1>3, <2>1, FS_Interval
    <3> QED
      BY <3>1, SumOfSame
  <2> HIDE DEF S, x
  <2>6. SumOver(f, S) = f[x] + SumOver(f, S \ {x})
    BY <2>1, <2>2, <2>4, SumWithout
  <2>7. f[x] \in Int
    BY <2>1, <2>4
  <2>8. SumOver(f, S \ {x}) = SumOver(f, 1..n)
    BY <2>1, Zenon
  <2>9. SumOver(f, S) = f[x] + SumOver(f, 1..n)
    BY <2>6, <2>8
  <2>10. g[S] = SumOver(f, 1..n) + f[x]
    BY <2>3
  <2>11. g[S] = SumOver(f, S)
    BY <2>5, <2>7, <2>9, <2>10
  <2> QED
    BY <2>11 DEF S
<1>6. Len(q) \in T
  <2> HIDE DEF T
  <2> QED
    BY <1>2, <1>4, <1>5, Induction
<1> QED
  BY <1>1, <1>2, <1>6 DEF AddsScores, f

LEMMA HighestIsAMaximum ==
  ASSUME NEW q \in Seq(Int), q # <<>>
  PROVE  /\ \E i \in DOMAIN q : Highest(q) = q[i]
         /\ \A i \in DOMAIN q : q[i] <= Highest(q)
<1>1. PICK g : KeepsHighest(g, q)
  BY HighestFold
<1>2. DOMAIN q = 1..Len(q) /\ Len(q) \in Nat /\ \A i \in 1..Len(q) : q[i] \in Int
  BY LenProperties, ElementOfSeq
<1>3. Len(q) \in Nat \ {0} /\ Head(q) = q[1]
  BY EmptySeq, HeadTailProperties, LenProperties
<1> DEFINE Best(i) == /\ \E j \in 1..Len(q) : g[1..i] = q[j]
                      /\ \A j \in 1..i : q[j] <= g[1..i]
           T == {i \in Nat : i <= Len(q) => Best(i)}
<1>4. 0 \in T
  <2>1. 1..0 = {} /\ 1 \in 1..Len(q)
    BY <1>3
  <2>2. g[1..0] = q[1]
    BY <1>1, <1>3, <2>1 DEF KeepsHighest
  <2> QED
    BY <2>1, <2>2
<1>5. ASSUME NEW n \in Nat, n \in T PROVE n + 1 \in T
  <2> SUFFICES ASSUME n + 1 <= Len(q) PROVE Best(n + 1)
    OBVIOUS
  <2>1. n + 1 \in 1..Len(q) /\ (n + 1) - 1 = n /\ n <= Len(q)
    BY <1>2
  <2>2. Best(n)
    BY <1>5, <2>1
  <2> DEFINE old == g[1..n]
             new == g[1..(n + 1)]
             e == q[n + 1]
  <2>3. new = IF e > old THEN e ELSE old
    BY <1>1, <2>1 DEF KeepsHighest
  <2>4. /\ old \in Int /\ e \in Int /\ new \in Int /\ old <= new /\ e <= new
        /\ new = e \/ new = old
    <3>1. old \in Int /\ e \in Int
      BY <1>2, <2>1, <2>2
    <3> HIDE DEF old, new, e
    <3> QED
      BY <2>3, <3>1
  <2>5. \E j \in 1..Len(q) : new = q[j]
    BY <2>1, <2>2, <2>4
  <2>6. ASSUME NEW j \in 1..(n + 1) PROVE q[j] <= new
    <3>1. CASE j = n + 1
      BY <2>4, <3>1
    <3>2. CASE j # n + 1
      <4>1. j \in 1..n /\ j \in 1..Len(q)
        BY <2>1, <3>2
      <4>2. q[j] \in Int /\ q[j] <= old
        BY <1>2, <2>2, <4>1
      <4> HIDE DEF old, new, e
      <4> QED
        BY <2>4, <4>2
    <3> QED
      BY <3>1, <3>2
  <2> QED
    BY <2>5, <2>6
<1>6. Len(q) \in T
  <2> HIDE DEF T
  <2> QED
    BY <1>2, <1>4, <1>5, Induction
<1>7. Best(Len(q)) /\ Highest(q) = g[1..Len(q)]
  BY <1>1, <1>2, <1>6 DEF KeepsHighest
<1>8. /\ \E j \in 1..Len(q) : Highest(q) = q[j]
      /\ \A j \in 1..Len(q) : q[j] <= Highest(q)
  BY <1>7
<1> QED
  BY <1>2, <1>8

-----------------------------------------------------------------------------
\* A list and the positions it was picked from have the same size.
LEMMA PickedSize ==
  ASSUME NEW r \in Seq(Batch), NEW st
  PROVE  /\ Len(Scores(r, st)) = Cardinality(At(r, st))
         /\ Scores(r, st) = <<>> <=> At(r, st) = {}
<1> DEFINE q == Scores(r, st)
           S == At(r, st)
<1>1. q \in Seq(Int) /\ Len(q) \in Nat /\ (Len(q) = 0 <=> q = <<>>)
  <2>1. q \in Seq(Int) /\ Len(q) \in Nat
    BY ScoresArePicked, LenProperties
  <2>2. Len(q) = 0 <=> q = <<>>
    BY <2>1, EmptySeq, Zenon
  <2> QED
    BY <2>1, <2>2
<1>2. PICK m : Picks(m, q, S, r)
  BY ScoresArePicked
<1> HIDE DEF q, S
<1>3. /\ IsFiniteSet(1..Len(q)) /\ Cardinality(1..Len(q)) = Len(q)
      /\ 1..Len(q) = {} <=> Len(q) = 0
  BY <1>1, FirstNaturals
<1>4. Cardinality(S) = Len(q)
  BY <1>2, <1>3, SameSize DEF Picks
<1>5. S = {} <=> 1..Len(q) = {}
  BY <1>2 DEF Picks, Renames
<1> QED
  BY <1>1, <1>3, <1>4, <1>5 DEF q, S

ScoresOf(r) == [i \in DOMAIN r |-> Clamp(r[i].score, 0, 100)]

LEMMA BatchEntries ==
  ASSUME NEW r \in Seq(Batch)
  PROVE  /\ DOMAIN r = 1..Len(r) /\ Len(r) \in Nat
         /\ \A i \in DOMAIN r : r[i] \in Batch /\ r[i].score \in Int
                                /\ ScoresOf(r)[i] = Clamp(r[i].score, 0, 100) /\ ScoresOf(r)[i] \in Int
<1>1. DOMAIN r = 1..Len(r) /\ Len(r) \in Nat /\ \A i \in 1..Len(r) : r[i] \in Batch
  BY LenProperties, ElementOfSeq
<1>2. \A i \in DOMAIN r : r[i].score \in Int
  BY <1>1 DEF Batch
<1>3. \A n \in Int : Clamp(n, 0, 100) \in Int
  BY ClampIsInt
<1> QED
  BY <1>1, <1>2, <1>3 DEF ScoresOf

\* The mean is that of the results with the status, wherever they stand.
LEMMA MeanOfBatch ==
  ASSUME NEW r \in Seq(Batch), NEW st
  PROVE  BoundedMean(Scores(r, st)) =
           IF At(r, st) = {} THEN 0
           ELSE Clamp(SumOver(ScoresOf(r), At(r, st)) \div Cardinality(At(r, st)), 0, 100)
<1> DEFINE q == Scores(r, st)
           S == At(r, st)
           e == ScoresOf(r)
           f == Clamped(q)
<1>1. q \in Seq(Int) /\ DOMAIN q = 1..Len(q) /\ Len(q) \in Nat
  BY ScoresArePicked, LenProperties
<1>2. PICK m : Picks(m, q, S, r)
  BY ScoresArePicked
<1>3. IsFiniteSet(S) /\ S \subseteq DOMAIN r /\ \A i \in S : e[i] \in Int
  BY AtIsFinite, BatchEntries
<1>4. BoundedMean(q) = IF q = <<>> THEN 0 ELSE Clamp(Total100(q) \div Len(q), 0, 100)
  BY DEF BoundedMean, Total100
<1>5. Total100(q) = SumOver(f, DOMAIN q)
  BY <1>1, TotalIsASum
<1>6. \A i \in DOMAIN q : q[i] \in Int /\ f[i] = Clamp(q[i], 0, 100)
  BY <1>1, ElementOfSeq DEF Clamped
<1>7. \A i \in DOMAIN q : f[i] \in Int
  BY <1>6, ClampIsInt
<1>8. \A i \in S : e[i] = Clamp(r[i].score, 0, 100)
  BY <1>3, BatchEntries
<1>9. Len(q) = Cardinality(S) /\ (q = <<>> <=> S = {})
  BY PickedSize
<1> HIDE DEF q, S, e, f
<1>10. /\ Renames(m, DOMAIN q, S) /\ IsFiniteSet(DOMAIN q)
       /\ \A x \in DOMAIN q : m[x] \in S /\ q[x] = r[m[x]].score
  BY <1>1, <1>2, FirstNaturals DEF Picks, Renames
<1>11. \A x \in DOMAIN q : e[m[x]] = f[x]
  BY <1>6, <1>8, <1>10
<1>12. SumOver(e, S) = SumOver(f, DOMAIN q)
  BY <1>7, <1>10, <1>11, SumOverRenamed
<1> QED
  BY <1>4, <1>5, <1>9, <1>12 DEF q, S, e

\* The highest score of the results with a status.
LEMMA HighestOfBatch ==
  ASSUME NEW r \in Seq(Batch), NEW st, At(r, st) # {}
  PROVE  /\ Highest(Scores(r, st)) \in Int
         /\ \E i \in At(r, st) : Highest(Scores(r, st)) = r[i].score
         /\ \A i \in At(r, st) : r[i].score <= Highest(Scores(r, st))
<1> DEFINE q == Scores(r, st)
           S == At(r, st)
           top == Highest(q)
<1>1. q \in Seq(Int) /\ DOMAIN q = 1..Len(q) /\ q # <<>>
  BY ScoresArePicked, LenProperties, PickedSize
<1>2. PICK m : Picks(m, q, S, r)
  BY ScoresArePicked
<1>3. /\ \E i \in DOMAIN q : top = q[i]
      /\ \A i \in DOMAIN q : q[i] <= top
  BY <1>1, HighestIsAMaximum
<1>4. \A i \in S : r[i].score \in Int
  BY AtIsFinite, BatchEntries
<1> HIDE DEF q, S, top
<1>5. /\ \A x \in DOMAIN q : m[x] \in S /\ q[x] = r[m[x]].score
      /\ \A s \in S : \E x \in DOMAIN q : m[x] = s
  BY <1>1, <1>2 DEF Picks, Renames
<1> QED
  BY <1>3, <1>4, <1>5 DEF q, S, top

-----------------------------------------------------------------------------
(***************************************************************************)
(* The order of the answers.                                               *)
(***************************************************************************)
\* q has the results of r in another order.
Reordered(m, r, q) ==
  /\ Renames(m, DOMAIN r, DOMAIN q)
  /\ \A x \in DOMAIN r : q[m[x]] = r[x]

LEMMA ReorderedAt ==
  ASSUME NEW r, NEW q, NEW m, Reordered(m, r, q), NEW st
  PROVE  /\ \A x \in At(r, st) : m[x] \in At(q, st)
         /\ \A z \in At(q, st) : \E x \in At(r, st) : m[x] = z
         /\ At(q, st) = {} <=> At(r, st) = {}
         /\ All(q, st) <=> All(r, st)
<1>1. /\ \A x \in At(r, st) : m[x] \in At(q, st)
      /\ \A z \in At(q, st) : \E x \in At(r, st) : m[x] = z
  BY DEF Reordered, Renames, At
<1>2. At(q, st) = {} <=> At(r, st) = {}
  BY <1>1
<1>3. At(q, st) = DOMAIN q <=> At(r, st) = DOMAIN r
  <2>1. At(q, st) \subseteq DOMAIN q /\ At(r, st) \subseteq DOMAIN r
    BY DEF At
  <2>2. \A x \in DOMAIN r : x \in At(r, st) <=> m[x] \in At(q, st)
    BY DEF Reordered, Renames, At
  <2> QED
    BY <2>1, <2>2 DEF Reordered, Renames
<1> QED
  BY <1>1, <1>2, <1>3 DEF All

LEMMA SameStatusInAnyOrder ==
  ASSUME NEW r, NEW q, NEW m, Reordered(m, r, q)
  PROVE  OverallStatus(q) = OverallStatus(r) /\ (Quorum(q) <=> Quorum(r))
<1>1. Quorum(q) <=> Quorum(r)
  <2> DEFINE R == At(r, "found")
             Q == At(q, "found")
  <2>1. /\ \A x \in R : m[x] \in Q /\ q[m[x]] = r[x]
        /\ \A z \in Q : \E x \in R : m[x] = z /\ q[z] = r[x]
    BY ReorderedAt DEF Reordered, Renames, At
  <2> HIDE DEF R, Q
  <2>2. (\E i, k \in Q : q[i].connector # q[k].connector)
          <=> (\E i, k \in R : r[i].connector # r[k].connector)
    BY <2>1
  <2> QED
    BY <2>2 DEF Quorum, R, Q
<1>2. \A st : (At(q, st) = {} <=> At(r, st) = {}) /\ (All(q, st) <=> All(r, st))
  BY ReorderedAt
<1>3. At(q, "blocked") \cup At(q, "error") = {} <=> At(r, "blocked") \cup At(r, "error") = {}
  BY <1>2
<1> QED
  BY <1>1, <1>2, <1>3 DEF OverallStatus

LEMMA SameMeanInAnyOrder ==
  ASSUME NEW r \in Seq(Batch), NEW q \in Seq(Batch), NEW m, Reordered(m, r, q), NEW st
  PROVE  BoundedMean(Scores(q, st)) = BoundedMean(Scores(r, st))
<1> DEFINE R == At(r, st)
           Q == At(q, st)
           f == ScoresOf(r)
           e == ScoresOf(q)
           n == [x \in R |-> m[x]]
<1>1. /\ IsFiniteSet(R) /\ R \subseteq DOMAIN r /\ IsFiniteSet(Q) /\ Q \subseteq DOMAIN q
      /\ \A i \in R : f[i] \in Int /\ f[i] = Clamp(r[i].score, 0, 100)
      /\ \A i \in Q : e[i] = Clamp(q[i].score, 0, 100)
  BY AtIsFinite, BatchEntries
<1>2. /\ Renames(n, R, Q)
      /\ \A x \in R : n[x] \in Q /\ q[n[x]] = r[x]
      /\ Q = {} <=> R = {}
  <2>1. /\ \A x \in R : m[x] \in Q
        /\ \A z \in Q : \E x \in R : m[x] = z
        /\ Q = {} <=> R = {}
    BY ReorderedAt
  <2>2. /\ \A x, y \in R : m[x] = m[y] => x = y
        /\ \A x \in R : q[m[x]] = r[x]
    BY <1>1 DEF Reordered, Renames
  <2> HIDE DEF R, Q
  <2> QED
    BY <2>1, <2>2 DEF Renames
<1>3. /\ BoundedMean(Scores(q, st)) =
           IF Q = {} THEN 0 ELSE Clamp(SumOver(e, Q) \div Cardinality(Q), 0, 100)
      /\ BoundedMean(Scores(r, st)) =
           IF R = {} THEN 0 ELSE Clamp(SumOver(f, R) \div Cardinality(R), 0, 100)
  BY MeanOfBatch
<1> HIDE DEF R, Q, f, e, n
<1>4. \A x \in R : e[n[x]] = f[x]
  BY <1>1, <1>2
<1>5. SumOver(e, Q) = SumOver(f, R)
  <2>1. \A x \in R : f[x] \in Int
    BY <1>1
  <2> QED
    BY <1>1, <1>2, <1>4, <2>1, SumOverRenamed
<1>6. Cardinality(Q) = Cardinality(R)
  BY <1>1, <1>2, SameSize
<1> QED
  BY <1>2, <1>3, <1>5, <1>6

LEMMA SameHighestInAnyOrder ==
  ASSUME NEW r \in Seq(Batch), NEW q \in Seq(Batch), NEW m, Reordered(m, r, q), NEW st,
         At(r, st) # {}
  PROVE  Highest(Scores(q, st)) = Highest(Scores(r, st))
<1> DEFINE R == At(r, st)
           Q == At(q, st)
           hr == Highest(Scores(r, st))
           hq == Highest(Scores(q, st))
<1>1. /\ \A x \in R : m[x] \in Q /\ q[m[x]] = r[x]
      /\ \A z \in Q : \E x \in R : m[x] = z /\ q[z] = r[x]
      /\ Q # {}
  BY ReorderedAt DEF Reordered, Renames, At
<1>2. /\ hr \in Int /\ \E i \in R : hr = r[i].score
      /\ \A i \in R : r[i].score <= hr
  BY HighestOfBatch
<1>3. /\ hq \in Int /\ \E i \in Q : hq = q[i].score
      /\ \A i \in Q : q[i].score <= hq
  BY <1>1, HighestOfBatch
<1> HIDE DEF R, Q, hr, hq
<1>4. hr <= hq /\ hq <= hr
  BY <1>1, <1>2, <1>3
<1> QED
  BY <1>2, <1>3, <1>4 DEF hr, hq

\* The summary of a batch is that of any rearrangement of it.
LEMMA AnyOrder ==
  ASSUME NEW r \in Seq(Batch), NEW q \in Seq(Batch), NEW m, Reordered(m, r, q)
  PROVE  /\ OverallStatus(q) = OverallStatus(r)
         /\ OverallConfidence(q) = OverallConfidence(r)
<1>1. OverallStatus(q) = OverallStatus(r) /\ (Quorum(q) <=> Quorum(r))
  BY SameStatusInAnyOrder
<1>2. /\ Scores(q, "found") # <<>> <=> Scores(r, "found") # <<>>
      /\ Scores(r, "found") # <<>> <=> At(r, "found") # {}
  BY PickedSize, ReorderedAt
<1>3. /\ BoundedMean(Scores(q, "found")) = BoundedMean(Scores(r, "found"))
      /\ BoundedMean(Scores(q, "likely")) = BoundedMean(Scores(r, "likely"))
  BY SameMeanInAnyOrder
<1>4. Scores(r, "found") # <<>> =>
        Highest(Scores(q, "found")) = Highest(Scores(r, "found"))
  BY <1>2, SameHighestInAnyOrder
<1> QED
  BY <1>1, <1>2, <1>3, <1>4 DEF OverallConfidence

-----------------------------------------------------------------------------
(***************************************************************************)
(* The quorum.                                                             *)
(***************************************************************************)
LEMMA OverallFields ==
  /\ Overall.overall_status = OverallStatus(results)
  /\ Overall.overall_confidence = OverallConfidence(results)
  /\ Overall.overall_confidence_level = ConfidenceLevel(OverallConfidence(results))
  /\ Overall.independent_found = Cardinality(IndependentFound(results))
BY DEF Overall, AggregateResults

LEMMA IndependentSources ==
  ASSUME NEW r \in Seq(Batch)
  PROVE  LET n == Cardinality(IndependentFound(r))
         IN  /\ n \in Nat
             /\ n >= 2 <=> Quorum(r)
             /\ n = 0 <=> At(r, "found") = {}
<1> DEFINE S == IndependentFound(r)
<1>1. IsFiniteSet(S)
  <2> DEFINE R == At(r, "found")
             f == [i \in R |-> r[i].connector]
  <2>1. IsFiniteSet(R)
    BY AtIsFinite
  <2>2. S = {f[i] : i \in R}
    BY DEF IndependentFound
  <2>3. f \in Surjection(R, S)
    BY <2>2 DEF Surjection
  <2> HIDE DEF R, f, S
  <2> QED
    BY <2>1, <2>3, FS_Surjection
<1>2. (\E x, y \in S : x # y) <=> Quorum(r)
  BY DEF IndependentFound, Quorum
<1>3. S = {} <=> At(r, "found") = {}
  BY DEF IndependentFound
<1> HIDE DEF S
<1>4. Cardinality(S) \in Nat /\ (Cardinality(S) = 0 <=> S = {})
      /\ (Cardinality(S) >= 2 <=> \E x, y \in S : x # y)
  BY <1>1, FewOrMany
<1> QED
  BY <1>2, <1>3, <1>4 DEF S

LEMMA QuorumNeedsAHit == ASSUME NEW r, Quorum(r) PROVE At(r, "found") # {}
BY DEF Quorum

LEMMA G3Table == results \in Seq(Batch) => FollowsG3Table
<1> SUFFICES ASSUME results \in Seq(Batch) PROVE FollowsG3Table
  OBVIOUS
<1> DEFINE st == OverallStatus(results)
           n == Cardinality(IndependentFound(results))
           r == results
<1>1. n \in Nat /\ (n >= 2 <=> Quorum(r)) /\ (n = 0 <=> At(r, "found") = {})
  BY IndependentSources
<1>2. DOMAIN r = {} <=> r = <<>>
  <2>1. DOMAIN r = 1..Len(r) /\ Len(r) \in Nat
    BY LenProperties
  <2>2. Len(r) = 0 <=> r = <<>>
    BY <2>1, EmptySeq, Zenon
  <2> QED
    BY <2>1, <2>2, FirstNaturals
<1>3. \A s, t : s # t => At(r, s) \cap At(r, t) = {}
  BY DEF At
<1>4. \A s : /\ Only({s}) <=> All(r, s)
             /\ Only({s}) => \A t : t # s => At(r, t) = {}
  BY <1>2 DEF Only, All, At
<1>5. Only({"not_found", "blocked", "error"}) =>
        At(r, "found") = {} /\ At(r, "likely") = {}
        /\ DOMAIN r = At(r, "not_found") \cup At(r, "blocked") \cup At(r, "error")
  BY DEF Only, At
<1>6. Quorum(r) => At(r, "found") # {}
  BY QuorumNeedsAHit
<1> HIDE DEF n
<1>7. n >= 2 <=> st = "found"
  BY <1>1 DEF OverallStatus
<1>8. n = 1 => st = "likely"
  <2>1. n = 1 => ~Quorum(r) /\ At(r, "found") # {}
    BY <1>1
  <2> QED
    BY <2>1 DEF OverallStatus
<1>9. Only({"likely"}) => st = "likely"
  <2>1. Only({"likely"}) => At(r, "likely") # {} /\ At(r, "found") = {}
    BY <1>4 DEF All
  <2> QED
    BY <1>6, <2>1 DEF OverallStatus
<1>10. ASSUME NEW s \in {"blocked", "error", "not_found"} PROVE Only({s}) <=> st = s
  <2>1. ASSUME st = s PROVE Only({s})
    <3>1. All(r, s)
      BY <2>1 DEF OverallStatus
    <3> QED
      BY <1>4, <3>1
  <2>2. ASSUME Only({s}) PROVE st = s
    <3>1. All(r, s) /\ \A t : t # s => At(r, t) = {} /\ ~All(r, t)
      BY <1>4, <2>2 DEF All
    <3>2. ~Quorum(r)
      BY <1>6, <3>1
    <3>3. At(r, "not_found") # {} => s = "not_found"
      BY <3>1
    <3>4. At(r, "found") = {} /\ At(r, "likely") = {}
      BY <3>1
    <3>5. s = "not_found" => At(r, "blocked") \cup At(r, "error") = {}
      BY <3>1
    <3>6. CASE s = "blocked"
      BY <3>1, <3>2, <3>3, <3>4, <3>6 DEF OverallStatus
    <3>7. CASE s = "error"
      BY <3>1, <3>2, <3>3, <3>4, <3>7 DEF OverallStatus
    <3>8. CASE s = "not_found"
      BY <3>1, <3>2, <3>4, <3>5, <3>8 DEF OverallStatus
    <3> QED
      BY <3>6, <3>7, <3>8
  <2> QED
    BY <2>1, <2>2
<1>11. ASSUME Only({"not_found", "blocked", "error"}), ~Only({"not_found"}),
              At(results, "not_found") # {}
       PROVE  st = "uncertain"
  <2>1. At(r, "blocked") \cup At(r, "error") # {}
    BY <1>4, <1>5, <1>11 DEF All
  <2> QED
    BY <1>5, <1>6, <1>11, <2>1 DEF OverallStatus
<1> HIDE DEF st
<1> QED
  BY <1>7, <1>8, <1>9, <1>10, <1>11, OverallFields DEF FollowsG3Table, st, n

LEMMA NeverCollapses == BlockedNeverCollapses
<1> SUFFICES ASSUME At(results, "blocked") # {}
             PROVE  OverallStatus(results) \notin {"not_found", "error"}
  BY OverallFields DEF BlockedNeverCollapses
<1>1. ~All(results, "error") /\ ~All(results, "not_found")
  BY DEF All, At
<1> QED
  BY <1>1 DEF OverallStatus

LEMMA OrderOfAnswers == results \in Seq(Batch) => OrderDoesNotMatter
<1> SUFFICES ASSUME results \in Seq(Batch), NEW i \in 1..(Len(results) - 1)
             PROVE  /\ OverallStatus(Swapped(i)) = OverallStatus(results)
                    /\ OverallConfidence(Swapped(i)) = OverallConfidence(results)
  BY OverallFields DEF OrderDoesNotMatter, AggregateResults
<1> DEFINE r == results
           q == Swapped(i)
           n == Len(results)
           m == [x \in 1..n |-> IF x = i THEN i + 1 ELSE IF x = i + 1 THEN i ELSE x]
<1>1. r \in [1..n -> Batch] /\ DOMAIN r = 1..n /\ n \in Nat /\ i \in 1..n /\ i + 1 \in 1..n /\ i # i + 1
  BY LenProperties, ElementOfSeq
<1>2. q = [r EXCEPT ![i] = r[i + 1], ![i + 1] = r[i]]
  BY DEF Swapped
<1> HIDE DEF q
<1>3. q \in [1..n -> Batch] /\ DOMAIN q = 1..n
  BY <1>1, <1>2
<1>4. q \in Seq(Batch)
  BY <1>1, <1>3, SeqDef
<1>5. Renames(m, 1..n, 1..n)
  BY <1>1 DEF Renames
<1>6. \A x \in 1..n : q[m[x]] = r[x]
  BY <1>1, <1>2
<1>7. Reordered(m, r, q)
  BY <1>1, <1>3, <1>5, <1>6 DEF Reordered
<1> HIDE DEF m
<1>8. /\ OverallStatus(q) = OverallStatus(r)
      /\ OverallConfidence(q) = OverallConfidence(r)
  BY <1>4, <1>7, AnyOrder
<1> QED
  BY <1>8 DEF q

LEMMA OneSourceIsCapped == results \in Seq(Batch) => SingleFoundIsCapped
<1> SUFFICES ASSUME results \in Seq(Batch) PROVE SingleFoundIsCapped
  OBVIOUS
<1> DEFINE r == results
           n == Cardinality(IndependentFound(results))
           c == OverallConfidence(results)
<1>1. n \in Nat /\ (n >= 2 <=> Quorum(r)) /\ (n = 0 <=> At(r, "found") = {})
  BY IndependentSources
<1>2. ASSUME n = 1
      PROVE  c <= SINGLE_FOUND_CONFIDENCE_CAP /\ ConfidenceLevel(c) # "high"
  <2>1. ~Quorum(r) /\ At(r, "found") # {}
    BY <1>1, <1>2
  <2>2. Scores(r, "found") # <<>> /\ Highest(Scores(r, "found")) \in Int
    BY <2>1, PickedSize, HighestOfBatch
  <2>3. c = Clamp(Highest(Scores(r, "found")), 0, 70)
    BY <2>1, <2>2 DEF OverallConfidence, SINGLE_FOUND_CONFIDENCE_CAP
  <2>4. c \in Int /\ c <= 70
    BY <2>2, <2>3, ClampIsInt
  <2> HIDE DEF c
  <2> QED
    BY <2>4 DEF ConfidenceLevel, SINGLE_FOUND_CONFIDENCE_CAP
<1>3. ASSUME c > 0 PROVE OverallStatus(r) \in {"found", "likely"}
  <2>1. CASE Quorum(r) \/ At(r, "found") # {} \/ At(r, "likely") # {}
    BY <2>1 DEF OverallStatus
  <2>2. CASE ~Quorum(r) /\ At(r, "found") = {} /\ At(r, "likely") = {}
    <3>1. Scores(r, "found") = <<>> /\ Scores(r, "likely") = <<>>
      BY <2>2, PickedSize
    <3>2. c = 0
      BY <2>2, <3>1 DEF OverallConfidence, BoundedMean
    <3> QED
      BY <1>3, <3>2
  <2> QED
    BY <2>1, <2>2
<1> HIDE DEF c, n
<1> QED
  BY <1>2, <1>3, OverallFields DEF SingleFoundIsCapped, c, n

LEMMA HitsStay == results \in Seq(Batch) => HitsAreNeverUndone
<1> SUFFICES ASSUME results \in Seq(Batch), results # <<>>
             PROVE  LET before == Front(results)
                    IN  /\ Quorum(before) => OverallStatus(results) = "found"
                        /\ OverallStatus(before) = "likely" =>
                             OverallStatus(results) \in {"likely", "found"}
  BY OverallFields DEF HitsAreNeverUndone
<1> DEFINE before == Front(results)
<1>1. Len(results) \in Nat \ {0} /\ DOMAIN results = 1..Len(results)
  <2>1. Len(results) \in Nat \ {0}
    BY EmptySeq, Zenon
  <2> QED
    BY <2>1, LenProperties
<1>2. /\ DOMAIN before = 1..(Len(results) - 1)
      /\ \A x \in 1..(Len(results) - 1) : before[x] = results[x]
  <2> DEFINE n == Len(results) - 1
  <2>1. n \in 0..Len(results) /\ n \in Nat
    BY <1>1
  <2>2. before = SubSeq(results, 1, n)
    BY DEF Front
  <2> HIDE DEF n, before
  <2>3. CASE n = 0
    <3>1. before = <<>> /\ Len(<<>>) = 0 /\ 1..0 = {}
      BY <1>1, <2>2, <2>3, SubSeqEmpty, EmptySeq
    <3>2. DOMAIN before = {} /\ 1..n = {}
      BY <2>3, <3>1
    <3> QED
      BY <3>2 DEF n
  <2>4. CASE n > 0
    <3>1. 1 \in 1..Len(results) + 1 /\ n \in 1..Len(results)
      BY <1>1, <2>1, <2>4
    <3>2. before \in Seq(Batch) /\ Len(before) = n /\ \A x \in 1..n : before[x] = results[x]
      BY <1>1, <2>1, <2>2, <2>4, <3>1, SubSeqProperties
    <3>3. DOMAIN before = 1..n
      BY <3>2, LenProperties
    <3> QED
      BY <3>2, <3>3 DEF n
  <2> QED
    BY <2>1, <2>3, <2>4
<1>3. ASSUME NEW st PROVE \A x \in At(before, st) : x \in At(results, st) /\ before[x] = results[x]
  <2>1. 1..(Len(results) - 1) \subseteq 1..Len(results)
    BY <1>1
  <2> HIDE DEF before
  <2> QED
    BY <1>1, <1>2, <2>1 DEF At
<1> HIDE DEF before
<1>4. Quorum(before) => Quorum(results)
  BY <1>3 DEF Quorum
<1>5. OverallStatus(before) = "likely" => At(before, "found") # {} \/ At(before, "likely") # {}
  BY DEF OverallStatus, All
<1>6. /\ At(before, "found") # {} => At(results, "found") # {}
      /\ At(before, "likely") # {} => At(results, "likely") # {}
  BY <1>3
<1>7. /\ Quorum(results) => OverallStatus(results) = "found"
      /\ At(results, "found") # {} \/ At(results, "likely") # {} =>
           OverallStatus(results) \in {"likely", "found"}
  BY DEF OverallStatus
<1> QED
  BY <1>4, <1>5, <1>6, <1>7 DEF before

\* The quorum follows its table on every batch, of any length and with any scores, and
\* its summary does not depend on the order of the answers.
THEOREM QuorumInvariance == Spec => []QuorumIsSound
<1>1. results \in Seq(Batch) => QuorumIsSound
  BY G3Table, NeverCollapses, OrderOfAnswers, OneSourceIsCapped, HitsStay DEF QuorumIsSound
<1> QED
  BY <1>1, BatchInvariance, PTL

-----------------------------------------------------------------------------
(***************************************************************************)
(* The search and its reports.                                             *)
(***************************************************************************)
\* The block of a module; the parts of OathNet share the first one.
BlockOf ==
  [breach |-> 1, stealer |-> 1, holehe |-> 1, sherlock |-> 2, discord |-> 3, ip_info |-> 4,
   subdomain |-> 5, steam |-> 6, xbox |-> 7, roblox |-> 8, ghunt |-> 9, victims |-> 10,
   discord_roblox |-> 11, spiderfoot |-> 12]

SearchTyped ==
  /\ search.mode \in {"automated", "manual"} /\ search.graphite \in BOOLEAN
  /\ search.mode = "manual" => search.mods \in ManualMods
  /\ block \in 1..13 /\ steps \in Nat
  /\ drawn.shown => block = 13

PagesWith(list) ==
  [oath : BOOLEAN, count : Nat, breaches : Nat, stealers : Nat, domains : Nat,
   social : {"none", "v1", "v2"}, found : Nat, likely : Nat, checked : Nat, platforms : {list},
   discords : Nat, extras : [ExtraKinds -> {"none", "data", "failed"}]]

PageTyped(p) ==
  /\ p \in PagesWith(p.platforms)
  /\ Len(p.platforms) \in Nat /\ DOMAIN p.platforms = 1..Len(p.platforms)
  /\ p.social # "v2" => DOMAIN p.platforms = {}

\* What the page has was sent by a block that was entered in modules_run.
Witnessed(p, run, mode) ==
  /\ (p.breaches > 0 \/ p.stealers > 0 \/ p.domains > 0) => p.oath
  /\ (p.oath /\ mode = "automated") => "breach" \in run /\ "stealer" \in run
  /\ p.domains > 0 => "holehe" \in run
  /\ (p.social # "none" \/ p.found > 0 \/ p.likely > 0) => "sherlock" \in run
  /\ \A k \in ExtraKinds : p.extras[k] # "none" => k \in run
  /\ p.discords > 0 => "discord" \in run

\* The cards of the new theme have every error and every platform.
CardsSay(table, platforms, rows, run, graphite) ==
  /\ IsFiniteSet(DOMAIN table)
  /\ ~graphite => DOMAIN table = {}
  /\ graphite =>
       /\ \A m \in rows : <<m, 0>> \in DOMAIN table /\ table[<<m, 0>>] = "error"
       /\ \A i \in DOMAIN platforms :
            /\ <<"sherlock", i>> \in DOMAIN table
            /\ table[<<"sherlock", i>>] = CardStatus(platforms[i])
  /\ \A c \in DOMAIN table : c[1] = "sherlock" => "sherlock" \in run

\* More breaches than there are rows: a later answer had a total.
DrawnFrom(grid, p) ==
  /\ ~grid.shown => p.count = p.breaches
  /\ grid.shown =>
       /\ grid.stealer = p.stealers /\ grid.social = p.found /\ grid.email = p.domains
       /\ p.count = grid.breach \/ p.count > p.breaches

Accounted(m, run, rows, type) ==
  \/ m \in run
  \/ m = "discord_roblox" /\ type # "discord_id"
  \/ m = "holehe" /\ "breach" \in rows
  \/ m \in rows

Behind(plan, b) == {m \in plan : BlockOf[m] < b}

\* A step is counted for a module of the plan, but for the lookups of OathNet.
PlanKept(plan, b, n, run, rows, type) ==
  /\ \A m \in Behind(plan, b) : Accounted(m, run, rows, type)
  /\ n <= Cardinality(Behind(plan, b)) \/ "discord" \in run \ plan

SearchInv ==
  /\ SearchTyped
  /\ PageTyped(page)
  /\ Witnessed(page, ran, search.mode)
  /\ CardsSay(cards, page.platforms, errors, ran, search.graphite)
  /\ DrawnFrom(drawn, page)
  /\ PlanKept(Planned, block, steps, ran, errors, search.type)

LEMMA BlockNames ==
  /\ Len(Blocks) = 12 /\ DOMAIN BlockOf = Modules
  /\ Blocks[1] = "oathnet" /\ Blocks[2] = "sherlock" /\ Blocks[3] = "discord"
  /\ Blocks[4] = "ip_info" /\ Blocks[5] = "subdomain" /\ Blocks[6] = "steam"
  /\ Blocks[7] = "xbox" /\ Blocks[8] = "roblox" /\ Blocks[9] = "ghunt"
  /\ Blocks[10] = "victims" /\ Blocks[11] = "discord_roblox" /\ Blocks[12] = "spiderfoot"
BY DEF Blocks, BlockOf, Modules

LEMMA BlockNumbers ==
  /\ BlockOf["breach"] = 1 /\ BlockOf["stealer"] = 1 /\ BlockOf["holehe"] = 1
  /\ BlockOf["sherlock"] = 2 /\ BlockOf["discord"] = 3 /\ BlockOf["ip_info"] = 4
  /\ BlockOf["subdomain"] = 5 /\ BlockOf["steam"] = 6 /\ BlockOf["xbox"] = 7
  /\ BlockOf["roblox"] = 8 /\ BlockOf["ghunt"] = 9 /\ BlockOf["victims"] = 10
  /\ BlockOf["discord_roblox"] = 11 /\ BlockOf["spiderfoot"] = 12
BY DEF BlockOf

LEMMA BlockOfNat == \A m \in Modules : BlockOf[m] \in 1..12
BY BlockNumbers DEF Modules

\* A module other than a part of OathNet has a block of its own name.
LEMMA OwnBlock ==
  ASSUME NEW m \in Modules, m \notin {"breach", "stealer", "holehe"}
  PROVE  \A b \in 1..12 : BlockOf[m] = b <=> Blocks[b] = m
BY BlockNames, BlockNumbers DEF Modules

LEMMA PartsOfOathnet ==
  /\ \A m \in {"breach", "stealer", "holehe"} : \A b \in 1..12 : BlockOf[m] = b <=> b = 1
  /\ \A b \in 1..12 : Blocks[b] = "oathnet" <=> b = 1
BY BlockNames, BlockNumbers

\* Every plan is made of modules.
LEMMA PlanIsModules == (SearchTyped => Planned \subseteq Modules) /\ IsFiniteSet(Modules)
<1>1. AutomatedPlan(search.type) \subseteq Modules
  BY DEF AutomatedPlan, Modules
<1>2. SearchTyped => Planned \subseteq Modules
  BY <1>1, ReportAssumption DEF SearchTyped, Planned
<1> DEFINE E == {}
<1>4. IsFiniteSet(E)
  BY FS_EmptySet
<1> DEFINE F == E \cup {"breach"} \cup {"stealer"} \cup {"holehe"} \cup {"sherlock"}
                  \cup {"discord"} \cup {"ip_info"} \cup {"subdomain"}
<1>5. Modules = F \cup {"steam"} \cup {"xbox"} \cup {"roblox"} \cup {"ghunt"} \cup {"victims"}
                  \cup {"discord_roblox"} \cup {"spiderfoot"}
  BY DEF Modules
<1> HIDE DEF E
<1>6. IsFiniteSet(F)
  BY <1>4, FS_AddElement
<1> HIDE DEF F
<1>7. IsFiniteSet(Modules)
  BY <1>5, <1>6, FS_AddElement
<1> QED
  BY <1>2, <1>7

\* A block runs for a module of the plan, and is skipped for none it would run for.
LEMMA BlockRuns ==
  ASSUME SearchTyped, block \in 1..12
  PROVE  /\ Runs(Blocks[block]) => \E m \in Planned : BlockOf[m] = block
         /\ \A m \in Planned :
              (~Runs(Blocks[block]) /\ BlockOf[m] = block) =>
                 m = "discord_roblox" /\ search.type # "discord_id"
<1>1. Planned \subseteq Modules
  BY PlanIsModules
<1>2. CASE block = 1
  <2>1. Blocks[block] = "oathnet"
    BY <1>2, BlockNames
  <2>2. Runs(Blocks[block]) <=> Planned \intersect {"breach", "stealer", "holehe"} # {}
    BY <2>1 DEF Runs
  <2>3. \A m \in Planned : BlockOf[m] = 1 <=> m \in {"breach", "stealer", "holehe"}
    BY <1>1, PartsOfOathnet, BlockNumbers DEF Modules
  <2> QED
    BY <1>2, <2>2, <2>3
<1>3. CASE block # 1
  <2>1. Blocks[block] # "oathnet"
    BY <1>3, PartsOfOathnet
  <2>2. \A m \in Planned : BlockOf[m] = block <=> Blocks[block] = m
    <3>1. Blocks[block] \notin {"breach", "stealer", "holehe"}
      BY BlockNames
    <3>2. \A m \in {"breach", "stealer", "holehe"} : BlockOf[m] # block
      BY <1>3, BlockNumbers
    <3> QED
      BY <1>1, <3>1, <3>2, OwnBlock
  <2>3. Runs(Blocks[block]) => Blocks[block] \in Planned
    BY <2>1 DEF Runs
  <2>4. (~Runs(Blocks[block]) /\ Blocks[block] \in Planned) =>
          Blocks[block] = "discord_roblox" /\ search.type # "discord_id"
    BY <2>1 DEF Runs
  <2> QED
    BY <2>2, <2>3, <2>4
<1> QED
  BY <1>2, <1>3

\* One block further: what PlanKept asks of a block.
LEMMA PlanAdvances ==
  ASSUME NEW plan \in SUBSET Modules, NEW b \in 1..12, NEW n \in Nat, NEW k \in Nat,
         NEW run, NEW more, NEW rows, NEW errs, NEW type,
         PlanKept(plan, b, n, run, rows, type), run \subseteq more, rows \subseteq errs,
         \A m \in plan : BlockOf[m] = b => Accounted(m, more, errs, type),
         \/ k = n
         \/ k = n + 1 /\ \E m \in plan : BlockOf[m] = b
         \/ "discord" \in more \ plan
  PROVE  PlanKept(plan, b + 1, k, more, errs, type)
<1> DEFINE old == Behind(plan, b)
           new == Behind(plan, b + 1)
<1>1. \A m \in plan : BlockOf[m] \in 1..12
  BY BlockOfNat
<1>2. new = old \cup {m \in plan : BlockOf[m] = b}
  BY <1>1 DEF Behind
<1>3. \A m \in new : Accounted(m, more, errs, type)
  BY <1>2 DEF PlanKept, Accounted
<1>4. IsFiniteSet(new) /\ old \subseteq new
  <2>1. new \subseteq Modules
    BY DEF Behind
  <2>2. IsFiniteSet(Modules)
    BY PlanIsModules
  <2> QED
    BY <1>2, <2>1, <2>2, FS_Subset
<1>5. Cardinality(old) \in Nat /\ Cardinality(new) \in Nat /\ Cardinality(old) <= Cardinality(new)
  BY <1>4, FS_Subset, FS_CardinalityType
<1>6. (\E m \in plan : BlockOf[m] = b) => Cardinality(old) < Cardinality(new)
  <2>1. (\E m \in plan : BlockOf[m] = b) => old # new
    BY <1>2 DEF Behind
  <2> QED
    BY <1>4, <1>5, <2>1, FS_Subset
<1>7. n <= Cardinality(old) \/ "discord" \in run \ plan
  BY DEF PlanKept
<1>8. k <= Cardinality(new) \/ "discord" \in more \ plan
  <2> HIDE DEF old, new
  <2> QED
    BY <1>5, <1>6, <1>7
<1> QED
  BY <1>3, <1>8 DEF PlanKept

\* New cards: those of errors say so, every new error has one, and a platform either
\* has one or is as it was.
ErrorsFit(new, rows, errs) ==
  /\ \A m : <<m, 0>> \in DOMAIN new => new[<<m, 0>>] = "error"
  /\ \A m \in errs \ rows : <<m, 0>> \in DOMAIN new

PlatformsFit(new, platforms, list, more) ==
  /\ \A i \in DOMAIN list :
       \/ <<"sherlock", i>> \in DOMAIN new /\ new[<<"sherlock", i>>] = CardStatus(list[i])
       \/ <<"sherlock", i>> \notin DOMAIN new /\ i \in DOMAIN platforms /\ list[i] = platforms[i]
  /\ \A c \in DOMAIN new : c[1] = "sherlock" => "sherlock" \in more

LEMMA CardsKeep ==
  ASSUME NEW old, NEW new, NEW platforms, NEW list, NEW rows, NEW errs, NEW run, NEW more,
         NEW graphite \in BOOLEAN, NEW table,
         CardsSay(old, platforms, rows, run, graphite), IsFiniteSet(DOMAIN new), run \subseteq more,
         ErrorsFit(new, rows, errs), PlatformsFit(new, platforms, list, more),
         table = IF graphite THEN Over(new, old) ELSE old
  PROVE  CardsSay(table, list, errs, more, graphite)
<1>1. CASE ~graphite
  <2>1. DOMAIN old = {} /\ IsFiniteSet(DOMAIN old)
    BY <1>1 DEF CardsSay
  <2> QED
    BY <1>1, <2>1 DEF CardsSay
<1>2. CASE graphite
  <2> DEFINE both == Over(new, old)
  <2>1. DOMAIN both = DOMAIN new \cup DOMAIN old
    BY DEF Over
  <2>2. /\ \A c \in DOMAIN new : both[c] = new[c]
        /\ \A c \in DOMAIN old : c \notin DOMAIN new => both[c] = old[c]
    BY DEF Over
  <2> HIDE DEF both
  <2>8. IsFiniteSet(DOMAIN old)
    BY DEF CardsSay
  <2>3. IsFiniteSet(DOMAIN both)
    BY <2>1, <2>8, FS_Union, Zenon
  <2>4. ASSUME NEW m \in errs PROVE <<m, 0>> \in DOMAIN both /\ both[<<m, 0>>] = "error"
    <3>1. <<m, 0>> \in DOMAIN new \/ (<<m, 0>> \in DOMAIN old /\ old[<<m, 0>>] = "error")
      BY <1>2, Zenon DEF CardsSay, ErrorsFit
    <3>2. <<m, 0>> \in DOMAIN new => new[<<m, 0>>] = "error"
      BY DEF ErrorsFit
    <3> QED
      BY <2>1, <2>2, <3>1, <3>2, Zenon
  <2>5. ASSUME NEW i \in DOMAIN list
        PROVE  <<"sherlock", i>> \in DOMAIN both /\ both[<<"sherlock", i>>] = CardStatus(list[i])
    <3>1. CASE <<"sherlock", i>> \in DOMAIN new
      BY <2>1, <2>2, <3>1 DEF PlatformsFit
    <3>2. CASE <<"sherlock", i>> \notin DOMAIN new
      <4>1. i \in DOMAIN platforms /\ list[i] = platforms[i]
        BY <3>2 DEF PlatformsFit
      <4>2. <<"sherlock", i>> \in DOMAIN old /\ old[<<"sherlock", i>>] = CardStatus(platforms[i])
        BY <1>2, <4>1 DEF CardsSay
      <4> QED
        BY <2>1, <2>2, <3>2, <4>1, <4>2
    <3> QED
      BY <3>1, <3>2
  <2>6. \A c \in DOMAIN both : c[1] = "sherlock" => "sherlock" \in more
    BY <2>1 DEF CardsSay, PlatformsFit
  <2>7. CardsSay(both, list, errs, more, graphite)
    BY <1>2, <2>3, <2>4, <2>5, <2>6, Zenon DEF CardsSay
  <2> QED
    BY <1>2, <2>7 DEF both
<1> QED
  BY <1>1, <1>2

LEMMA WitnessedMore ==
  ASSUME NEW p, NEW run, NEW more, NEW mode, Witnessed(p, run, mode), run \subseteq more
  PROVE  Witnessed(p, more, mode)
BY DEF Witnessed

\* What a block does to the plan: its modules are accounted for, and a step is one of them.
PlanStep ==
  /\ ran \subseteq ran' /\ errors \subseteq errors' /\ steps' \in Nat
  /\ \A m \in Planned : BlockOf[m] = block => Accounted(m, ran', errors', search.type)
  /\ \/ steps' = steps
     \/ steps' = steps + 1 /\ \E m \in Planned : BlockOf[m] = block
     \/ "discord" \in ran' \ Planned

LEMMA BlockKept ==
  ASSUME SearchInv, block \in 1..12, Advance, PlanStep,
         PageTyped(page'), page'.count = page'.breaches, Witnessed(page', ran', search.mode),
         CardsSay(cards', page'.platforms, errors', ran', search.graphite)
  PROVE  SearchInv'
<1>1. search' = search /\ drawn' = drawn /\ block' = block + 1
  BY DEF Advance
<1>2. Planned' = Planned
  BY <1>1 DEF Planned
<1>3. ~drawn.shown
  BY DEF SearchInv, SearchTyped
<1>4. SearchTyped'
  BY <1>1, <1>3 DEF SearchInv, SearchTyped, PlanStep
<1>5. DrawnFrom(drawn', page')
  BY <1>1, <1>3 DEF DrawnFrom
<1>6. PlanKept(Planned, block + 1, steps', ran', errors', search.type)
  <2>1. Planned \in SUBSET Modules /\ steps \in Nat
    BY PlanIsModules DEF SearchInv, SearchTyped
  <2>2. PlanKept(Planned, block, steps, ran, errors, search.type)
    BY DEF SearchInv
  <2>3. /\ ran \subseteq ran' /\ errors \subseteq errors' /\ steps' \in Nat
        /\ \A m \in Planned : BlockOf[m] = block => Accounted(m, ran', errors', search.type)
        /\ \/ steps' = steps
           \/ steps' = steps + 1 /\ \E m \in Planned : BlockOf[m] = block
           \/ "discord" \in ran' \ Planned
    BY DEF PlanStep
  <2> QED
    BY <2>1, <2>2, <2>3, PlanAdvances
<1> QED
  BY <1>1, <1>2, <1>4, <1>5, <1>6 DEF SearchInv

LEMMA ErrorKeeps ==
  ASSUME SearchInv, block \in 1..12, Advance, PlanStep, NEW m, ModuleError(m),
         m = "sherlock" => "sherlock" \in ran'
  PROVE  SearchInv'
<1> DEFINE new == ErrorCard(m)
<1>1. page' = page /\ errors' = errors \cup {m}
      /\ cards' = IF search.graphite THEN Over(new, cards) ELSE cards
  BY DEF ModuleError, Collect
<1>2. DOMAIN new = {<<m, 0>>} /\ \A c \in DOMAIN new : new[c] = "error"
  BY DEF ErrorCard
<1> HIDE DEF new
<1>3. IsFiniteSet(DOMAIN new)
  BY <1>2, FS_Singleton
<1>4. Len(page.platforms) \in Nat /\ DOMAIN page.platforms = 1..Len(page.platforms)
  BY DEF SearchInv, PageTyped
<1>5. \A i \in DOMAIN page.platforms : <<"sherlock", i>> \notin DOMAIN new
  BY <1>2, <1>4
<1>6. PlatformsFit(new, page.platforms, page.platforms, ran')
  BY <1>2, <1>5 DEF PlatformsFit
<1>7. ErrorsFit(new, errors, errors')
  BY <1>1, <1>2 DEF ErrorsFit
<1>9. search.graphite \in BOOLEAN /\ CardsSay(cards, page.platforms, errors, ran, search.graphite)
      /\ ran \subseteq ran'
  BY DEF SearchInv, SearchTyped, PlanStep
<1>10. CardsSay(cards', page.platforms, errors', ran', search.graphite)
  BY <1>1, <1>3, <1>6, <1>7, <1>9, CardsKeep
<1>11. PageTyped(page) /\ Witnessed(page, ran', search.mode)
  BY <1>9, WitnessedMore DEF SearchInv
<1>12. page.count = page.breaches
  BY DEF SearchInv, SearchTyped, DrawnFrom
<1> QED
  BY <1>1, <1>10, <1>11, <1>12, BlockKept

\* An answer that says nothing of the platforms.
LEMMA AnswerKeeps ==
  ASSUME SearchInv, block \in 1..12, Advance, PlanStep, NEW p, NEW new, Answers(p, new),
         PageTyped(p), p.count = p.breaches, Witnessed(p, ran', search.mode),
         p.platforms = page.platforms, IsFiniteSet(DOMAIN new),
         \A m : <<m, 0>> \notin DOMAIN new, \A c \in DOMAIN new : c[1] # "sherlock"
  PROVE  SearchInv'
<1>1. page' = p /\ errors' = errors
      /\ cards' = IF search.graphite THEN Over(new, cards) ELSE cards
  BY DEF Answers, Collect
<1>2. search.graphite \in BOOLEAN /\ CardsSay(cards, page.platforms, errors, ran, search.graphite)
      /\ ran \subseteq ran'
  BY DEF SearchInv, SearchTyped, PlanStep
<1>3. PlatformsFit(new, page.platforms, p.platforms, ran') /\ ErrorsFit(new, errors, errors')
  BY <1>1 DEF PlatformsFit, ErrorsFit
<1>4. CardsSay(cards', p.platforms, errors', ran', search.graphite)
  BY <1>1, <1>2, <1>3, CardsKeep
<1> QED
  BY <1>1, <1>4, BlockKept

LEMMA Place ==
  ASSUME SearchInv, NEW b, Current(b)
  PROVE  block \in 1..12 /\ Blocks[block] = b /\ Runs(b)
BY BlockNames DEF SearchInv, SearchTyped, Current

\* A block that enters its own name in modules_run.
LEMMA OwnStep ==
  ASSUME SearchInv, NEW m \in Modules \ {"breach", "stealer", "holehe"}, Current(m),
         m \in ran' \/ m \in errors', ran \subseteq ran', errors \subseteq errors',
         steps' = steps \/ steps' = steps + 1
  PROVE  PlanStep
<1>1. block \in 1..12 /\ Blocks[block] = m /\ Runs(Blocks[block])
  BY Place
<1>2. Planned \subseteq Modules /\ SearchTyped
  BY PlanIsModules DEF SearchInv
<1>3. \A x \in Planned : BlockOf[x] = block => x = m
  <2>1. block # 1
    BY <1>1, BlockNames DEF Modules
  <2>2. \A x \in Planned : BlockOf[x] = block => x \notin {"breach", "stealer", "holehe"}
    BY <1>1, <2>1, PartsOfOathnet
  <2> QED
    BY <1>1, <1>2, <2>2, OwnBlock
<1>4. \A x \in Planned : BlockOf[x] = block => Accounted(x, ran', errors', search.type)
  BY <1>3 DEF Accounted
<1>5. \E x \in Planned : BlockOf[x] = block
  BY <1>1, <1>2, BlockRuns
<1>6. steps' \in Nat
  BY <1>2 DEF SearchTyped
<1> QED
  BY <1>4, <1>5, <1>6 DEF PlanStep

\* The card of one connector.
LEMMA OneCard ==
  ASSUME NEW new, NEW source, NEW n, DOMAIN new = {<<source, n>>}, source # "sherlock", n # 0
  PROVE  /\ IsFiniteSet(DOMAIN new) /\ (\A m : <<m, 0>> \notin DOMAIN new)
         /\ \A c \in DOMAIN new : c[1] # "sherlock"
<1>1. IsFiniteSet({<<source, n>>})
  BY FS_Singleton, Zenon
<1>2. IsFiniteSet(DOMAIN new)
  BY <1>1
<1>3. (\A m : <<m, 0>> \notin DOMAIN new) /\ \A c \in DOMAIN new : c[1] # "sherlock"
  OBVIOUS
<1> QED
  BY <1>2, <1>3

\* A page with some of its numbers changed is a page.
LEMMA PageCounts ==
  ASSUME PageTyped(page)
  PROVE  /\ \A n \in Nat :
              LET p == [page EXCEPT !.discords = n]
              IN  PageTyped(p) /\ p.count = page.count /\ p.breaches = page.breaches
                    /\ p.platforms = page.platforms
         /\ \A x \in [ExtraKinds -> {"none", "data", "failed"}] :
              LET p == [page EXCEPT !.extras = x]
              IN  PageTyped(p) /\ p.count = page.count /\ p.breaches = page.breaches
                    /\ p.platforms = page.platforms
         /\ \A n, m \in Nat :
              LET p == [page EXCEPT !.breaches = n, !.count = m] IN PageTyped(p)
<1>1. ASSUME NEW n \in Nat
      PROVE  LET p == [page EXCEPT !.discords = n]
              IN  PageTyped(p) /\ p.count = page.count /\ p.breaches = page.breaches
                    /\ p.platforms = page.platforms
  BY DEF PageTyped, PagesWith
<1>2. ASSUME NEW x \in [ExtraKinds -> {"none", "data", "failed"}]
      PROVE  LET p == [page EXCEPT !.extras = x]
              IN  PageTyped(p) /\ p.count = page.count /\ p.breaches = page.breaches
                    /\ p.platforms = page.platforms
  BY DEF PageTyped, PagesWith
<1>3. ASSUME NEW n \in Nat, NEW m \in Nat
      PROVE  LET p == [page EXCEPT !.breaches = n, !.count = m] IN PageTyped(p)
  BY DEF PageTyped, PagesWith
<1> QED
  BY <1>1, <1>2, <1>3

LEMMA NothingNew ==
  /\ IsFiniteSet(DOMAIN NoCards) /\ (\A m : <<m, 0>> \notin DOMAIN NoCards)
  /\ \A c \in DOMAIN NoCards : c[1] # "sherlock"
BY FS_EmptySet DEF NoCards

LEMMA PageNow ==
  ASSUME SearchInv, block \in 1..12, ran \subseteq ran'
  PROVE  PageTyped(page) /\ page.count = page.breaches /\ Witnessed(page, ran', search.mode)
<1>1. PageTyped(page) /\ Witnessed(page, ran, search.mode) /\ ~drawn.shown /\ DrawnFrom(drawn, page)
  BY DEF SearchInv, SearchTyped
<1> QED
  BY <1>1, WitnessedMore DEF DrawnFrom

LEMMA SkipKeeps == SearchInv /\ Skip => SearchInv'
<1> SUFFICES ASSUME SearchInv, Skip PROVE SearchInv'
  OBVIOUS
<1>1. /\ block <= Len(Blocks) /\ ~Runs(Blocks[block]) /\ Advance
      /\ steps' = steps /\ ran' = ran /\ errors' = errors /\ page' = page /\ cards' = cards
  BY DEF Skip
<1>2. SearchTyped /\ block \in 1..12 /\ steps \in Nat
  BY <1>1, BlockNames DEF SearchInv, SearchTyped
<1>3. \A m \in Planned : BlockOf[m] = block => Accounted(m, ran', errors', search.type)
  BY <1>1, <1>2, BlockRuns DEF Accounted
<1>4. PlanStep
  BY <1>1, <1>2, <1>3 DEF PlanStep
<1>5. PageTyped(page) /\ page.count = page.breaches /\ Witnessed(page, ran', search.mode)
  BY <1>1, <1>2, PageNow
<1>6. CardsSay(cards, page.platforms, errors, ran, search.graphite)
  BY DEF SearchInv
<1> QED
  BY <1>1, <1>2, <1>4, <1>5, <1>6, BlockKept

LEMMA DiscordKeeps == SearchInv /\ DiscordBlock => SearchInv'
<1> SUFFICES ASSUME SearchInv, DiscordBlock PROVE SearchInv'
  OBVIOUS
<1>1. Current("discord") /\ Advance /\ steps' = steps + 1 /\ ran' = ran \cup {"discord"}
  BY DEF DiscordBlock, Step
<1>2. block \in 1..12 /\ "discord" \in Modules \ {"breach", "stealer", "holehe"}
  BY <1>1, Place DEF Modules
<1>3. CASE ModuleError("discord")
  <2>1. errors \subseteq errors'
    BY <1>3 DEF ModuleError
  <2>2. PlanStep
    BY <1>1, <1>2, <2>1, OwnStep
  <2> QED
    BY <1>1, <1>2, <1>3, <2>2, ErrorKeeps
<1>4. CASE Answers([page EXCEPT !.discords = @ + 1], NoCards)
  <2> DEFINE p == [page EXCEPT !.discords = @ + 1]
  <2>1. PageTyped(page) /\ page.count = page.breaches /\ Witnessed(page, ran', search.mode)
    BY <1>1, <1>2, PageNow
  <2>2. PageTyped(p) /\ p.count = p.breaches /\ p.platforms = page.platforms
    <3> DEFINE n == page.discords + 1
    <3>1. p = [page EXCEPT !.discords = n] /\ n \in Nat
      BY <2>1 DEF PageTyped, PagesWith
    <3> HIDE DEF n, p
    <3> QED
      BY <2>1, <3>1, PageCounts
  <2>3. Witnessed(p, ran', search.mode)
    BY <1>1, <2>1 DEF Witnessed, PageTyped
  <2>4. errors \subseteq errors' /\ Answers(p, NoCards)
    BY <1>4 DEF Answers
  <2>5. PlanStep
    BY <1>1, <1>2, <2>4, OwnStep
  <2> HIDE DEF p
  <2> QED
    BY <1>1, <1>2, <2>2, <2>3, <2>4, <2>5, NothingNew, AnswerKeeps
<1> QED
  BY <1>3, <1>4 DEF DiscordBlock

LEMMA ExtraKeeps == ASSUME NEW k \in ExtraKinds PROVE SearchInv /\ ExtraBlock(k) => SearchInv'
<1> SUFFICES ASSUME SearchInv, ExtraBlock(k) PROVE SearchInv'
  OBVIOUS
<1>1. Current(k) /\ Advance /\ steps' = steps + 1 /\ ran' = ran \cup {k}
  BY DEF ExtraBlock, Step
<1>2. block \in 1..12 /\ k \in Modules \ {"breach", "stealer", "holehe"} /\ k # "sherlock"
  BY <1>1, Place DEF Modules, ExtraKinds
<1>3. CASE ModuleError(k)
  <2>1. errors \subseteq errors'
    BY <1>3 DEF ModuleError
  <2>2. PlanStep
    BY <1>1, <1>2, <2>1, OwnStep
  <2> QED
    BY <1>1, <1>2, <1>3, <2>2, ErrorKeeps
<1>4. ASSUME NEW answer \in {"data", "failed"},
             Answers([page EXCEPT !.extras[k] = answer], IF k = "ip_info" THEN IpCard(answer) ELSE NoCards)
      PROVE  SearchInv'
  <2> DEFINE p == [page EXCEPT !.extras[k] = answer]
             new == IF k = "ip_info" THEN IpCard(answer) ELSE NoCards
  <2>1. PageTyped(page) /\ page.count = page.breaches /\ Witnessed(page, ran', search.mode)
    BY <1>1, <1>2, PageNow
  <2>2. PageTyped(p) /\ p.count = p.breaches /\ p.platforms = page.platforms
    <3> DEFINE x == [page.extras EXCEPT ![k] = answer]
    <3>1. p = [page EXCEPT !.extras = x] /\ x \in [ExtraKinds -> {"none", "data", "failed"}]
      BY <2>1 DEF PageTyped, PagesWith
    <3> HIDE DEF x, p
    <3> QED
      BY <2>1, <3>1, PageCounts
  <2>3. Witnessed(p, ran', search.mode)
    BY <1>1, <2>1 DEF Witnessed, PageTyped
  <2>4. errors \subseteq errors' /\ Answers(p, new)
    BY <1>4 DEF Answers
  <2>5. PlanStep
    BY <1>1, <1>2, <2>4, OwnStep
  <2>6. /\ IsFiniteSet(DOMAIN new) /\ (\A m : <<m, 0>> \notin DOMAIN new)
        /\ \A c \in DOMAIN new : c[1] # "sherlock"
    <3>1. CASE k = "ip_info"
      <4>1. DOMAIN new = {<<"ip", 1>>}
        BY <3>1 DEF IpCard
      <4> HIDE DEF new
      <4> QED
        <5>1. "ip" # "sherlock" /\ 1 # 0
          OBVIOUS
        <5> QED
          BY <4>1, <5>1, OneCard, Zenon
    <3>2. CASE k # "ip_info"
      <4>1. new = NoCards
        BY <3>2
      <4> HIDE DEF new
      <4> QED
        BY <4>1, NothingNew
    <3> QED
      BY <3>1, <3>2
  <2> HIDE DEF p, new
  <2> QED
    BY <1>1, <1>2, <2>2, <2>3, <2>4, <2>5, <2>6, AnswerKeeps
<1> QED
  BY <1>3, <1>4 DEF ExtraBlock

LEMMA SpiderfootKeeps == SearchInv /\ SpiderfootBlock => SearchInv'
<1> SUFFICES ASSUME SearchInv, SpiderfootBlock PROVE SearchInv'
  OBVIOUS
<1>1. Current("spiderfoot") /\ Advance
  BY DEF SpiderfootBlock
<1>2. block \in 1..12 /\ "spiderfoot" \in Modules \ {"breach", "stealer", "holehe"}
  BY <1>1, Place DEF Modules
<1>3. CASE ModuleError("spiderfoot") /\ steps' = steps /\ ran' = ran
  <2>1. errors \subseteq errors' /\ "spiderfoot" \in errors'
    BY <1>3 DEF ModuleError
  <2>2. PlanStep
    BY <1>1, <1>2, <1>3, <2>1, OwnStep
  <2> QED
    BY <1>1, <1>2, <1>3, <2>2, ErrorKeeps
<1>4. ASSUME steps' = steps + 1 /\ ran' = ran \cup {"spiderfoot"}, NEW answer,
             Answers(page, SpiderCard(answer))
      PROVE  SearchInv'
  <2> DEFINE new == SpiderCard(answer)
  <2>1. PageTyped(page) /\ page.count = page.breaches /\ Witnessed(page, ran', search.mode)
    BY <1>2, <1>4, PageNow
  <2>2. errors \subseteq errors' /\ Answers(page, new)
    BY <1>4 DEF Answers
  <2>3. PlanStep
    BY <1>1, <1>2, <1>4, <2>2, OwnStep
  <2>4. DOMAIN new = {<<"spiderfoot", 1>>}
    BY DEF SpiderCard
  <2> HIDE DEF new
  <2>5. /\ IsFiniteSet(DOMAIN new) /\ (\A m : <<m, 0>> \notin DOMAIN new)
        /\ \A c \in DOMAIN new : c[1] # "sherlock"
    <3>1. "spiderfoot" # "sherlock" /\ 1 # 0
      OBVIOUS
    <3> QED
      BY <2>4, <3>1, OneCard, Zenon
  <2> QED
    BY <1>1, <1>2, <2>1, <2>2, <2>3, <2>5, AnswerKeeps
<1> QED
  BY <1>3, <1>4 DEF SpiderfootBlock, Step

\* The cards of a list of numbers.
LEMMA NumberedCards ==
  ASSUME NEW source, NEW S, IsFiniteSet(S)
  PROVE  IsFiniteSet({<<source, i>> : i \in S})
<1> DEFINE f == [i \in S |-> <<source, i>>]
<1>1. {<<source, i>> : i \in S} = {f[i] : i \in S}
  OBVIOUS
<1> HIDE DEF f
<1>2. f \in Surjection(S, {f[i] : i \in S})
  BY DEF f, Surjection
<1>3. IsFiniteSet({f[i] : i \in S})
  BY <1>2, FS_Surjection
<1> QED
  BY <1>1, <1>3

\* OathNet's block: the breaches are entered in modules_run whenever they are planned.
LEMMA OathnetStep ==
  ASSUME SearchInv, Current("oathnet"), ran \subseteq ran', errors \subseteq errors',
         OathnetRan(FALSE) \subseteq ran',
         OathnetRan(TRUE) \subseteq ran' \/ "breach" \in errors',
         steps' \in Nat, steps' = steps + 1 \/ "discord" \in ran' \ Planned
  PROVE  PlanStep
<1>1. block \in 1..12 /\ Runs(Blocks[block]) /\ block = 1
  BY Place, PartsOfOathnet
<1>2. Planned \subseteq Modules /\ SearchTyped
  BY PlanIsModules DEF SearchInv
<1>3. \A x \in Planned : BlockOf[x] = block => x \in {"breach", "stealer", "holehe"}
  BY <1>1, <1>2, BlockNumbers DEF Modules
<1>4. \A x \in Planned : BlockOf[x] = block => Accounted(x, ran', errors', search.type)
  BY <1>3 DEF Accounted, OathnetRan
<1>5. \E x \in Planned : BlockOf[x] = block
  BY <1>1, <1>2, BlockRuns
<1> QED
  BY <1>4, <1>5 DEF PlanStep

LEMMA OathnetFailsKeeps == SearchInv /\ OathnetFails => SearchInv'
<1> SUFFICES ASSUME SearchInv, OathnetFails PROVE SearchInv'
  OBVIOUS
<1>1. /\ Current("oathnet") /\ Advance /\ ModuleError("breach")
      /\ steps' = steps + 1 /\ ran' = ran \cup OathnetRan(FALSE)
  BY DEF OathnetFails, Step
<1>2. block \in 1..12 /\ steps \in Nat
  BY <1>1, Place DEF SearchInv, SearchTyped
<1>3. errors \subseteq errors' /\ "breach" \in errors'
  BY <1>1 DEF ModuleError
<1>6. OathnetRan(FALSE) \subseteq ran' /\ ran \subseteq ran'
  BY <1>1, Zenon
<1>7. steps' \in Nat
  BY <1>1, <1>2
<1>4. PlanStep
  BY <1>1, <1>3, <1>6, <1>7, OathnetStep, Zenon
<1>5. "breach" # "sherlock"
  OBVIOUS
<1> QED
  BY <1>1, <1>2, <1>4, <1>5, ErrorKeeps

LEMMA OathnetAnswersKeeps == SearchInv /\ OathnetAnswers => SearchInv'
<1> SUFFICES ASSUME SearchInv, OathnetAnswers PROVE SearchInv'
  OBVIOUS
<1> DEFINE P(n, s, d, k) ==
             [page EXCEPT !.oath = TRUE, !.count = n, !.breaches = n, !.stealers = s,
                          !.domains = d, !.discords = @ + k]
<1>1. Current("oathnet") /\ Advance
  BY DEF OathnetAnswers
<1>2. block \in 1..12 /\ steps \in Nat /\ SearchTyped
  BY <1>1, Place DEF SearchInv, SearchTyped
<1>3. PICK n \in RecordCounts, s \in RecordCounts, d \in RecordCounts,
           lookups \in 0..MaxLookups, answered \in 0..MaxLookups :
        /\ s > 0 => "stealer" \in Planned
        /\ d > 0 => "holehe" \in Planned
        /\ answered <= lookups
        /\ lookups > 0 => search.mode = "automated" /\ search.type # "discord_id" /\ lookups <= n
        /\ steps' = steps + 1 + lookups
        /\ ran' = ran \cup OathnetRan(TRUE) \cup (IF lookups > 0 THEN {"discord"} ELSE {})
        /\ Answers(P(n, s, d, answered), OathnetCards(P(n, s, d, answered)))
  BY DEF OathnetAnswers
<1> DEFINE p == P(n, s, d, answered)
           new == OathnetCards(p)
<1>4. n \in Nat /\ s \in Nat /\ d \in Nat /\ lookups \in Nat /\ answered \in Nat
  BY ReportAssumption
<1>5. ran \subseteq ran' /\ OathnetRan(TRUE) \subseteq ran' /\ OathnetRan(FALSE) \subseteq ran'
  BY <1>3 DEF OathnetRan
<1>6. lookups > 0 => "discord" \in ran' \ Planned
  BY <1>3 DEF Planned, AutomatedPlan
<1>7. PageTyped(page) /\ Witnessed(page, ran', search.mode)
  BY <1>2, <1>5, PageNow
<1>8. PageTyped(p) /\ p.count = p.breaches /\ p.platforms = page.platforms
  <2> DEFINE k == page.discords + answered
  <2>1. \A x \in Nat :
          LET q == [page EXCEPT !.oath = TRUE, !.count = n, !.breaches = n, !.stealers = s,
                                !.domains = d, !.discords = x]
          IN  PageTyped(q) /\ q.count = q.breaches /\ q.platforms = page.platforms
    BY <1>4, <1>7 DEF PageTyped, PagesWith
  <2>2. k \in Nat
    BY <1>4, <1>7 DEF PageTyped, PagesWith
  <2>3. p = [page EXCEPT !.oath = TRUE, !.count = n, !.breaches = n, !.stealers = s,
                         !.domains = d, !.discords = k]
    OBVIOUS
  <2> HIDE DEF k, p
  <2> QED
    BY <2>1, <2>2, <2>3
<1>9. Witnessed(p, ran', search.mode)
  <2>1. /\ p.oath = TRUE /\ p.domains = d /\ p.discords = page.discords + answered
        /\ p.social = page.social /\ p.found = page.found /\ p.likely = page.likely
        /\ p.extras = page.extras
    BY <1>7 DEF PageTyped, PagesWith
  <2>2. d > 0 => "holehe" \in ran'
    BY <1>3, <1>5 DEF OathnetRan
  <2>3. search.mode = "automated" => "breach" \in ran' /\ "stealer" \in ran'
    BY <1>5 DEF OathnetRan, Planned, AutomatedPlan
  <2>4. page.discords + answered > 0 => "discord" \in ran'
    <3>1. answered > 0 => lookups > 0
      BY <1>3, <1>4
    <3>2. page.discords > 0 => "discord" \in ran'
      BY <1>7 DEF Witnessed
    <3>3. page.discords \in Nat
      BY <1>7 DEF PageTyped, PagesWith
    <3> HIDE DEF P
    <3> QED
      BY <1>4, <1>6, <3>1, <3>2, <3>3
  <2> HIDE DEF p
  <2> QED
    BY <1>7, <2>1, <2>2, <2>3, <2>4 DEF Witnessed
<1>10. /\ IsFiniteSet(DOMAIN new) /\ (\A m : <<m, 0>> \notin DOMAIN new)
       /\ \A c \in DOMAIN new : c[1] # "sherlock"
  <2>1. DOMAIN new = {<<"oathnet", i>> : i \in 1..3}
    BY DEF OathnetCards
  <2>2. IsFiniteSet(1..3)
    <3>1. 1 \in Int /\ 3 \in Int
      OBVIOUS
    <3> QED
      BY <3>1, FS_Interval
  <2> HIDE DEF new
  <2>3. IsFiniteSet({<<"oathnet", i>> : i \in 1..3})
    BY <2>2, NumberedCards
  <2> QED
    BY <2>1, <2>3
<1>11. errors \subseteq errors' /\ Answers(p, new)
  BY <1>3 DEF Answers
<1>12. PlanStep
  <2>1. steps' \in Nat /\ (steps' = steps + 1 \/ "discord" \in ran' \ Planned)
    <3>1. steps' = steps + 1 + lookups
      BY <1>3
    <3> QED
      BY <1>2, <1>4, <1>6, <3>1
  <2> QED
    BY <1>1, <1>5, <1>11, <2>1, OathnetStep
<1> HIDE DEF p, new
<1> QED
  BY <1>1, <1>2, <1>8, <1>9, <1>10, <1>11, <1>12, AnswerKeeps

LEMMA SomeOfAList ==
  ASSUME NEW list \in PlatformLists, NEW T \in SUBSET DOMAIN list
  PROVE  IsFiniteSet(T) /\ Cardinality(T) \in Nat
<1>1. Len(list) \in Nat /\ DOMAIN list = 1..Len(list)
  BY ReportAssumption
<1>2. IsFiniteSet(DOMAIN list)
  BY <1>1, FirstNaturals
<1> QED
  BY <1>2, FS_Subset, FS_CardinalityType

LEMMA LegacyCardsFit ==
  ASSUME NEW list \in PlatformLists
  PROVE  /\ IsFiniteSet(DOMAIN LegacyCards(list))
         /\ \A m : <<m, 0>> \notin DOMAIN LegacyCards(list)
<1> DEFINE S == {j \in DOMAIN list : LegacyBucket(list[j]) \in {"confirmed", "likely"}}
<1>1. DOMAIN LegacyCards(list) = {<<"sherlock", i>> : i \in S}
  BY DEF LegacyCards
<1>2. S \subseteq 1..Len(list) /\ Len(list) \in Nat
  BY ReportAssumption
<1>3. IsFiniteSet(S)
  BY SomeOfAList
<1> HIDE DEF S
<1>4. IsFiniteSet({<<"sherlock", i>> : i \in S})
  BY <1>3, NumberedCards
<1>5. 0 \notin S
  BY <1>2
<1> QED
  BY <1>1, <1>4, <1>5

LEMMA PlatformCardsFit ==
  ASSUME NEW list \in PlatformLists, NEW platforms, DOMAIN platforms = DOMAIN list
  PROVE  LET new == Over(PlatformCards(platforms), LegacyCards(list))
         IN  /\ IsFiniteSet(DOMAIN new)
             /\ \A m : <<m, 0>> \notin DOMAIN new
             /\ \A i \in DOMAIN platforms :
                  <<"sherlock", i>> \in DOMAIN new /\ new[<<"sherlock", i>>] = CardStatus(platforms[i])
<1> DEFINE first == PlatformCards(platforms)
           rest == LegacyCards(list)
           new == Over(first, rest)
           S == DOMAIN platforms
<1>1. DOMAIN first = {<<"sherlock", i>> : i \in S}
      /\ \A i \in S : first[<<"sherlock", i>>] = CardStatus(platforms[i])
  BY DEF PlatformCards
<1>2. IsFiniteSet(S) /\ 0 \notin S
  <2>1. S \subseteq 1..Len(list) /\ Len(list) \in Nat
    BY ReportAssumption
  <2> QED
    BY <2>1, SomeOfAList
<1>3. IsFiniteSet(DOMAIN rest) /\ \A m : <<m, 0>> \notin DOMAIN rest
  BY LegacyCardsFit
<1> HIDE DEF first, rest
<1>4. DOMAIN new = DOMAIN first \cup DOMAIN rest /\ \A c \in DOMAIN first : new[c] = first[c]
  BY DEF Over
<1> HIDE DEF new, S
<1>5. IsFiniteSet(DOMAIN first)
  <2>1. IsFiniteSet({<<"sherlock", i>> : i \in S})
    BY <1>2, NumberedCards
  <2> QED
    BY <1>1, <2>1
<1>6. IsFiniteSet(DOMAIN new)
  BY <1>3, <1>4, <1>5, FS_Union, Zenon
<1>7. \A m : <<m, 0>> \notin DOMAIN new
  BY <1>1, <1>2, <1>3, <1>4
<1>8. \A i \in S : <<"sherlock", i>> \in DOMAIN new /\ new[<<"sherlock", i>>] = CardStatus(platforms[i])
  BY <1>1, <1>4
<1> QED
  BY <1>6, <1>7, <1>8 DEF new, S, first, rest

\* The events of the username check make a page.
LEMMA SherlockPages ==
  ASSUME NEW list \in PlatformLists, PageTyped(page)
  PROVE  /\ LET p == SherlockEvent(list)
            IN  /\ PageTyped(p) /\ p.count = page.count /\ p.breaches = page.breaches
                /\ DOMAIN p.platforms = {}
         /\ LET p == SherlockV2Event(list)
            IN  /\ PageTyped(p) /\ p.count = page.count /\ p.breaches = page.breaches
                /\ DOMAIN p.platforms = DOMAIN list
<1>1. \A a, b, n \in Nat :
        LET p == [page EXCEPT !.social = "v1", !.checked = n, !.platforms = <<>>, !.found = a,
                              !.likely = b]
        IN  /\ p \in PagesWith(<<>>) /\ p.platforms = <<>> /\ p.count = page.count
            /\ p.breaches = page.breaches
  BY DEF PageTyped, PagesWith
<1>2. page \in PagesWith(page.platforms)
  BY DEF PageTyped
<1>3. Len(list) \in Nat /\ DOMAIN list = 1..Len(list)
  BY ReportAssumption
<1>4. /\ Count(list, LAMBDA c : LegacyBucket(c) = "confirmed") \in Nat
      /\ Count(list, LAMBDA c : LegacyBucket(c) = "likely") \in Nat
      /\ Count(list, LAMBDA c : Scored(c).status = "confirmed") \in Nat
      /\ Count(list, LAMBDA c : Scored(c).status = "likely") \in Nat
  BY SomeOfAList DEF Count
<1>5. LET p == SherlockEvent(list)
      IN  /\ PageTyped(p) /\ p.count = page.count /\ p.breaches = page.breaches
          /\ DOMAIN p.platforms = {}
  <2> DEFINE p == SherlockEvent(list)
  <2>1. /\ p \in PagesWith(<<>>) /\ p.platforms = <<>> /\ p.count = page.count
        /\ p.breaches = page.breaches
    <3> DEFINE a == Count(list, LAMBDA c : LegacyBucket(c) = "confirmed")
               b == Count(list, LAMBDA c : LegacyBucket(c) = "likely")
               n == Len(list)
    <3>1. p = [page EXCEPT !.social = "v1", !.checked = n, !.platforms = <<>>, !.found = a,
                           !.likely = b]
      BY DEF SherlockEvent
    <3>2. a \in Nat /\ b \in Nat /\ n \in Nat
      BY <1>3, <1>4
    <3> HIDE DEF p, a, b, n
    <3> QED
      BY <1>1, <3>1, <3>2
  <2>2. Len(<<>>) \in Nat /\ DOMAIN <<>> = 1..Len(<<>>) /\ DOMAIN <<>> = {}
    OBVIOUS
  <2> HIDE DEF p
  <2>3. PageTyped(p)
    BY <2>1, <2>2 DEF PageTyped
  <2> QED
    BY <2>1, <2>2, <2>3 DEF p
<1>6. LET p == SherlockV2Event(list)
      IN  /\ PageTyped(p) /\ p.count = page.count /\ p.breaches = page.breaches
          /\ DOMAIN p.platforms = DOMAIN list
  <2> DEFINE p == SherlockV2Event(list)
             s == [i \in DOMAIN list |-> Normalized(list[i])]
  <2>1. p \in PagesWith(s) /\ p.platforms = s /\ p.count = page.count /\ p.breaches = page.breaches
        /\ p.social = "v2"
    <3> DEFINE a == Count(list, LAMBDA c : Scored(c).status = "confirmed")
               b == Count(list, LAMBDA c : Scored(c).status = "likely")
               n == Len(list)
    <3>1. p = [page EXCEPT !.social = "v2", !.checked = n, !.platforms = s, !.found = a,
                           !.likely = b]
      BY DEF SherlockV2Event
    <3>2. a \in Nat /\ b \in Nat /\ n \in Nat
      BY <1>3, <1>4
    <3> HIDE DEF p, s, a, b, n
    <3> QED
      BY <1>2, <3>1, <3>2 DEF PagesWith
  <2>2. Len(s) \in Nat /\ DOMAIN s = 1..Len(s) /\ DOMAIN s = DOMAIN list
    <3> DEFINE T == {Normalized(list[i]) : i \in DOMAIN list}
    <3>1. s \in [1..Len(list) -> T]
      BY <1>3
    <3>2. DOMAIN s = DOMAIN list
      OBVIOUS
    <3> HIDE DEF s, T
    <3>3. s \in Seq(T)
      BY <1>3, <3>1, SeqDef
    <3> QED
      BY <3>2, <3>3, LenProperties
  <2> HIDE DEF p, s
  <2>3. PageTyped(p)
    BY <2>1, <2>2 DEF PageTyped
  <2> QED
    BY <2>1, <2>2, <2>3 DEF p
<1> QED
  BY <1>5, <1>6

LEMMA SherlockKeeps == SearchInv /\ SherlockBlock => SearchInv'
<1> SUFFICES ASSUME SearchInv, SherlockBlock PROVE SearchInv'
  OBVIOUS
<1>1. Current("sherlock") /\ Advance /\ steps' = steps + 1 /\ ran' = ran \cup {"sherlock"}
  BY DEF SherlockBlock, Step
<1>2. block \in 1..12 /\ "sherlock" \in Modules \ {"breach", "stealer", "holehe"}
  BY <1>1, Place DEF Modules
<1>3. PageTyped(page) /\ page.count = page.breaches /\ Witnessed(page, ran', search.mode)
  BY <1>1, <1>2, PageNow
<1>4. search.graphite \in BOOLEAN /\ CardsSay(cards, page.platforms, errors, ran, search.graphite)
      /\ ran \subseteq ran'
  BY <1>1 DEF SearchInv, SearchTyped
<1>5. CASE ModuleError("sherlock")
  <2>1. errors \subseteq errors'
    BY <1>5 DEF ModuleError
  <2>2. PlanStep
    BY <1>1, <1>2, <2>1, OwnStep
  <2> QED
    BY <1>1, <1>2, <1>5, <2>2, ErrorKeeps
<1>6. ASSUME NEW list \in PlatformLists, NEW p, NEW new, Answers(p, new),
             p = SherlockEvent(list) \/ p = SherlockV2Event(list),
             PageTyped(p), p.count = p.breaches, IsFiniteSet(DOMAIN new),
             \A m : <<m, 0>> \notin DOMAIN new,
             \A i \in DOMAIN p.platforms :
               <<"sherlock", i>> \in DOMAIN new /\ new[<<"sherlock", i>>] = CardStatus(p.platforms[i])
      PROVE  SearchInv'
  <2>1. page' = p /\ errors' = errors
        /\ cards' = IF search.graphite THEN Over(new, cards) ELSE cards
    BY <1>6 DEF Answers, Collect
  <2>2. PlanStep
    BY <1>1, <1>2, <2>1, OwnStep
  <2>3. /\ p.oath = page.oath /\ p.stealers = page.stealers /\ p.domains = page.domains
        /\ p.breaches = page.breaches /\ p.extras = page.extras /\ p.discords = page.discords
    BY <1>3, <1>6 DEF SherlockEvent, SherlockV2Event, PageTyped, PagesWith
  <2>4. Witnessed(p, ran', search.mode)
    BY <1>1, <1>3, <2>3 DEF Witnessed
  <2>5. PlatformsFit(new, page.platforms, p.platforms, ran') /\ ErrorsFit(new, errors, errors')
    BY <1>1, <1>6, <2>1 DEF PlatformsFit, ErrorsFit
  <2>6. CardsSay(cards', p.platforms, errors', ran', search.graphite)
    BY <1>4, <1>6, <2>1, <2>5, CardsKeep
  <2> QED
    BY <1>1, <1>2, <1>6, <2>1, <2>2, <2>4, <2>6, BlockKept
<1>7. ASSUME NEW list \in PlatformLists, Answers(SherlockEvent(list), LegacyCards(list))
      PROVE  SearchInv'
  <2> DEFINE p == SherlockEvent(list)
             new == LegacyCards(list)
  <2>1. PageTyped(p) /\ p.count = p.breaches /\ DOMAIN p.platforms = {}
    BY <1>3, SherlockPages
  <2>2. IsFiniteSet(DOMAIN new) /\ \A m : <<m, 0>> \notin DOMAIN new
    BY LegacyCardsFit
  <2>3. Answers(p, new) /\ (p = SherlockEvent(list) \/ p = SherlockV2Event(list))
    BY <1>7
  <2> HIDE DEF p, new
  <2> QED
    BY <1>6, <2>1, <2>2, <2>3
<1>8. ASSUME NEW list \in PlatformLists,
             Answers(SherlockV2Event(list),
                     Over(PlatformCards(SherlockV2Event(list).platforms), LegacyCards(list)))
      PROVE  SearchInv'
  <2> DEFINE p == SherlockV2Event(list)
             new == Over(PlatformCards(p.platforms), LegacyCards(list))
  <2>1. PageTyped(p) /\ p.count = p.breaches /\ DOMAIN p.platforms = DOMAIN list
    BY <1>3, SherlockPages
  <2>2. Answers(p, new) /\ (p = SherlockEvent(list) \/ p = SherlockV2Event(list))
    BY <1>8
  <2> HIDE DEF p
  <2>3. /\ IsFiniteSet(DOMAIN new) /\ (\A m : <<m, 0>> \notin DOMAIN new)
        /\ \A i \in DOMAIN p.platforms :
             <<"sherlock", i>> \in DOMAIN new /\ new[<<"sherlock", i>>] = CardStatus(p.platforms[i])
    BY <2>1, PlatformCardsFit
  <2> HIDE DEF new
  <2> QED
    BY <1>6, <2>1, <2>2, <2>3
<1> QED
  BY <1>5, <1>7, <1>8 DEF SherlockBlock

LEMMA RenderKeeps == SearchInv /\ RenderResults => SearchInv'
<1> SUFFICES ASSUME SearchInv, RenderResults PROVE SearchInv'
  OBVIOUS
<1>1. /\ block = 13 /\ ~drawn.shown /\ drawn' = StatGrid(page)
      /\ UNCHANGED <<search, block, steps, ran, errors, page, cards>>
  BY BlockNames DEF RenderResults, Done
<1>2. SearchTyped'
  BY <1>1 DEF SearchInv, SearchTyped
<1>3. DrawnFrom(drawn', page)
  BY <1>1 DEF DrawnFrom, StatGrid
<1>4. Planned' = Planned
  BY <1>1 DEF Planned
<1> QED
  BY <1>1, <1>2, <1>3, <1>4 DEF SearchInv

LEMMA LoadMoreKeeps == SearchInv /\ LoadMoreBreaches => SearchInv'
<1> SUFFICES ASSUME SearchInv, LoadMoreBreaches PROVE SearchInv'
  OBVIOUS
<1>1. /\ drawn.shown /\ page.count > 0 /\ page.count = page.breaches
      /\ UNCHANGED <<search, block, steps, ran, errors, cards, drawn>>
  BY DEF LoadMoreBreaches
<1>2. PICK n \in RecordCounts, beyond \in RecordCounts :
        /\ n > 0
        /\ page' = [page EXCEPT !.breaches = @ + n,
                                !.count = IF beyond = 0 THEN @ ELSE page.breaches + n + beyond]
  BY DEF LoadMoreBreaches
<1>3. n \in Nat /\ beyond \in Nat
  BY ReportAssumption
<1>4. PageTyped(page) /\ Witnessed(page, ran, search.mode) /\ DrawnFrom(drawn, page)
  BY DEF SearchInv
<1> DEFINE rows == page.breaches + n
           count == IF beyond = 0 THEN page.count ELSE page.breaches + n + beyond
<1>5. page.breaches \in Nat /\ page.count \in Nat
  BY <1>4 DEF PageTyped, PagesWith
<1>6. rows \in Nat /\ count \in Nat /\ (count = page.count \/ count > rows)
  BY <1>3, <1>5
<1>7. page' = [page EXCEPT !.breaches = rows, !.count = count]
  BY <1>2
<1> HIDE DEF rows, count
<1>8. PageTyped(page')
  BY <1>4, <1>6, <1>7, PageCounts
<1>9. /\ page'.oath = page.oath /\ page'.stealers = page.stealers /\ page'.domains = page.domains
      /\ page'.social = page.social /\ page'.found = page.found /\ page'.likely = page.likely
      /\ page'.extras = page.extras /\ page'.discords = page.discords
      /\ page'.platforms = page.platforms /\ page'.breaches = rows /\ page'.count = count
  BY <1>4, <1>7 DEF PageTyped, PagesWith
<1>10. page.oath
  BY <1>1, <1>4 DEF Witnessed
<1>11. Witnessed(page', ran, search.mode)
  BY <1>4, <1>9, <1>10 DEF Witnessed
<1>12. DrawnFrom(drawn, page')
  BY <1>1, <1>4, <1>6, <1>9 DEF DrawnFrom
<1>13. SearchTyped' /\ Planned' = Planned
  BY <1>1 DEF SearchInv, SearchTyped, Planned
<1>14. CardsSay(cards, page'.platforms, errors, ran, search.graphite)
  BY <1>9 DEF SearchInv
<1> QED
  BY <1>1, <1>8, <1>11, <1>12, <1>13, <1>14 DEF SearchInv

LEMMA SearchInit == ReportInit => SearchInv
<1> SUFFICES ASSUME ReportInit PROVE SearchInv
  OBVIOUS
<1>1. /\ block = 1 /\ steps = 0 /\ ran = {} /\ errors = {}
      /\ page = EmptyPage /\ cards = NoCards /\ drawn = NotDrawn
      /\ search \in [mode : {"automated"}, type : QueryTypes, mods : {{}}, graphite : BOOLEAN]
                 \cup [mode : {"manual"}, type : QueryTypes, mods : ManualMods, graphite : BOOLEAN]
  BY DEF ReportInit
<1>2. SearchTyped
  BY <1>1 DEF SearchTyped, NotDrawn
<1>3. PageTyped(page)
  <2>1. Len(<<>>) \in Nat /\ DOMAIN <<>> = 1..Len(<<>>) /\ DOMAIN <<>> = {}
    OBVIOUS
  <2> QED
    BY <1>1, <2>1 DEF PageTyped, PagesWith, EmptyPage
<1>4. Witnessed(page, ran, search.mode)
  BY <1>1 DEF Witnessed, EmptyPage
<1>5. CardsSay(cards, page.platforms, errors, ran, search.graphite)
  <2>1. DOMAIN cards = {} /\ DOMAIN page.platforms = {}
    BY <1>1 DEF NoCards, EmptyPage
  <2>2. IsFiniteSet(DOMAIN cards)
    BY <2>1, FS_EmptySet
  <2> QED
    BY <1>1, <2>1, <2>2 DEF CardsSay
<1>6. DrawnFrom(drawn, page)
  BY <1>1 DEF DrawnFrom, NotDrawn, EmptyPage
<1>7. PlanKept(Planned, block, steps, ran, errors, search.type)
  <2>1. \A m \in Planned : BlockOf[m] \in 1..12
    BY <1>2, PlanIsModules, BlockOfNat
  <2>2. Behind(Planned, 1) = {}
    BY <2>1 DEF Behind
  <2>3. Cardinality(Behind(Planned, 1)) = 0
    BY <2>2, FS_EmptySet
  <2> QED
    BY <1>1, <2>2, <2>3 DEF PlanKept
<1> QED
  BY <1>2, <1>3, <1>4, <1>5, <1>6, <1>7 DEF SearchInv

LEMMA SearchStutters == SearchInv /\ UNCHANGED reportVars => SearchInv'
<1> SUFFICES ASSUME SearchInv, UNCHANGED reportVars PROVE SearchInv'
  OBVIOUS
<1>1. UNCHANGED <<search, block, steps, ran, errors, page, cards, drawn>>
  BY DEF reportVars
<1>2. SearchTyped' /\ Planned' = Planned
  BY <1>1 DEF SearchInv, SearchTyped, Planned
<1> QED
  BY <1>1, <1>2 DEF SearchInv

LEMMA SearchInvariance == Spec => []SearchInv
<1>1. Init => SearchInv
  BY SearchInit DEF Init
<1>2. SearchInv /\ [Next]_reportRunVars => SearchInv'
  <2> SUFFICES ASSUME SearchInv, [Next]_reportRunVars PROVE SearchInv'
    OBVIOUS
  <2>1. ReportNext \/ UNCHANGED reportVars
    BY DEF Next, reportRunVars
  <2>2. ReportNext => SearchInv'
    BY SkipKeeps, OathnetFailsKeeps, OathnetAnswersKeeps, SherlockKeeps, DiscordKeeps, ExtraKeeps,
       SpiderfootKeeps, RenderKeeps, LoadMoreKeeps, Zenon DEF ReportNext
  <2> QED
    BY <2>1, <2>2, SearchStutters
<1> QED
  BY <1>1, <1>2, PTL DEF Spec

-----------------------------------------------------------------------------
(* What follows from it for the panels and the reports. *)

LEMMA EveryModuleAccounted == SearchInv => ModulesAreAccountedFor
<1> SUFFICES ASSUME SearchInv PROVE ModulesAreAccountedFor
  OBVIOUS
<1>1. /\ PlanKept(Planned, block, steps, ran, errors, search.type)
      /\ Planned \subseteq Modules /\ IsFiniteSet(Modules) /\ steps \in Nat
  BY PlanIsModules DEF SearchInv, SearchTyped
<1>2. Done => Behind(Planned, block) = Planned
  <2>1. \A m \in Planned : BlockOf[m] \in 1..12
    BY <1>1, BlockOfNat
  <2>2. Done => block = 13
    BY BlockNames DEF Done
  <2> QED
    BY <2>1, <2>2 DEF Behind
<1>3. Done => \A m \in Planned : Accounted(m, ran, errors, search.type)
  BY <1>1, <1>2 DEF PlanKept
<1>4. /\ Cardinality(Behind(Planned, block)) \in Nat /\ Cardinality(Planned) \in Nat
      /\ Cardinality(Behind(Planned, block)) <= Cardinality(Planned)
  <2>1. IsFiniteSet(Planned) /\ Behind(Planned, block) \in SUBSET Planned
    BY <1>1, FS_Subset DEF Behind
  <2> QED
    BY <2>1, FS_Subset, FS_CardinalityType
<1>5. steps <= Cardinality(Behind(Planned, block)) \/ "discord" \in ran \ Planned
  BY <1>1 DEF PlanKept
<1>6. steps > Cardinality(Planned) => "discord" \in ran \ Planned
  BY <1>1, <1>4, <1>5
<1> QED
  BY <1>3, <1>6, Zenon DEF ModulesAreAccountedFor, Accounted

\* The rows of the panels, one panel at a time.
LEMMA PanelRows ==
  /\ \A p : "breach" \in Sections(p) <=> BreachPanel(p)
  /\ \A p : "stealer" \in Sections(p) <=> StealerPanel(p)
  /\ \A p : "social" \in Sections(p) <=> SocialPanel(p)
  /\ \A p : "email" \in Sections(p) <=> EmailPanel(p)
  /\ \A p : "extras" \in Sections(p) <=> ExtraParts(p) # {} \/ DiscordParts(p) > 0
  /\ \A p : Sections(p) \subseteq {"breach", "stealer", "social", "email", "extras"}
<1> DEFINE names == {"breach", "stealer", "social", "email", "extras"}
<1>1. \A p : "breach" \in Sections(p) <=> BreachPanel(p)
  BY DEF Sections
<1>2. \A p : "stealer" \in Sections(p) <=> StealerPanel(p)
  BY DEF Sections
<1>3. \A p : "social" \in Sections(p) <=> SocialPanel(p)
  BY DEF Sections
<1>4. \A p : "email" \in Sections(p) <=> EmailPanel(p)
  BY DEF Sections
<1>5. \A p : "extras" \in Sections(p) <=> ExtraParts(p) # {} \/ DiscordParts(p) > 0
  BY DEF Sections
<1>6. \A p : Sections(p) \subseteq names
  BY DEF Sections
<1> QED
  BY <1>1, <1>2, <1>3, <1>4, <1>5, <1>6

LEMMA NothingGreyed == SearchInv => NoDataIsGreyed
<1> SUFFICES ASSUME SearchInv, drawn.shown, search.mode = "automated", NEW x \in Sections(page)
             PROVE  ~NotRun(x)
  BY DEF NoDataIsGreyed
<1>1. /\ Witnessed(page, ran, search.mode) /\ PageTyped(page)
      /\ CardsSay(cards, page.platforms, errors, ran, search.graphite)
  BY DEF SearchInv
<1>2. CASE x = "breach"
  <2>1. page.oath
    BY <1>2, PanelRows DEF BreachPanel
  <2>2. "breach" \in ran
    BY <1>1, <2>1 DEF Witnessed
  <2>3. PanelModules(x) = {"breach"}
    BY <1>2 DEF PanelModules
  <2> QED
    BY <2>2, <2>3 DEF NotRun
<1>3. CASE x = "stealer"
  <2>1. page.oath
    BY <1>3, PanelRows DEF StealerPanel
  <2>2. "stealer" \in ran
    BY <1>1, <2>1 DEF Witnessed
  <2>3. PanelModules(x) = {"stealer"}
    BY <1>3 DEF PanelModules
  <2> QED
    BY <2>2, <2>3 DEF NotRun
<1>4. CASE x = "email"
  <2>1. page.domains > 0
    BY <1>4, PanelRows DEF EmailPanel
  <2>2. "holehe" \in ran
    BY <1>1, <2>1 DEF Witnessed
  <2>3. PanelModules(x) = {"holehe"}
    BY <1>4 DEF PanelModules
  <2> QED
    BY <2>2, <2>3 DEF NotRun
<1>5. CASE x = "social"
  <2>1. SocialPanel(page)
    BY <1>5, PanelRows
  <2>2. page.found \in Nat /\ page.likely \in Nat
    BY <1>1 DEF PageTyped, PagesWith
  <2>3. page.social # "none" \/ page.found > 0 \/ page.likely > 0 \/ SherlockConnectors # {}
    <3>1. page.found + page.likely > 0 => page.found > 0 \/ page.likely > 0
      BY <2>2
    <3>2. \/ page.social # "none" \/ SherlockConnectors # {} \/ page.social = "v2"
          \/ page.found + page.likely > 0
      BY <2>1, Zenon DEF SocialPanel
    <3> QED
      BY <3>1, <3>2
  <2>4. SherlockConnectors # {} => "sherlock" \in ran
    BY <1>1 DEF CardsSay, SherlockConnectors
  <2>5. "sherlock" \in ran
    BY <1>1, <2>3, <2>4 DEF Witnessed
  <2>6. PanelModules(x) = {"sherlock"}
    BY <1>5 DEF PanelModules
  <2> QED
    BY <2>5, <2>6 DEF NotRun
<1>6. CASE x = "extras"
  <2>1. ExtraParts(page) # {} \/ page.discords > 0
    BY <1>6, PanelRows DEF DiscordParts
  <2>2. ASSUME NEW k \in ExtraParts(page) PROVE k \in ran /\ k \in ExtraKinds
    <3>1. k \in ExtraKinds
      BY DEF ExtraParts
    <3>2. page.extras[k] # "none"
      BY DEF ExtraParts, AddressPart, SteamPart, RobloxPart, XboxPart, GhuntPart, VictimsPart,
             DiscordRobloxPart
    <3> QED
      BY <1>1, <3>1, <3>2 DEF Witnessed
  <2>3. page.discords > 0 => "discord" \in ran
    BY <1>1 DEF Witnessed
  <2>4. \E k \in ExtraModules : k \in ran
    BY <2>1, <2>2, <2>3 DEF ExtraModules
  <2>5. PanelModules(x) = ExtraModules
    BY <1>6 DEF PanelModules
  <2> QED
    BY <2>4, <2>5 DEF NotRun
<1>7. x \in {"breach", "stealer", "social", "email", "extras"}
  BY PanelRows
<1> QED
  BY <1>2, <1>3, <1>4, <1>5, <1>6, <1>7

LEMMA RiskGrows ==
  ASSUME NEW a \in Nat, NEW b \in Nat, a <= b
  PROVE  Min100(a) <= Min100(b)
BY DEF Min100, Between

\* The reports name the sections of the screen and its totals.
LEMMA ReportsMatch == SearchInv => ReportsAgreeWithTheScreen
<1> SUFFICES ASSUME SearchInv, drawn.shown
             PROVE  LET report == ExportTXT(page)
                    IN  /\ \A x \in {"breach", "stealer", "email"} :
                             x \in Sections(page) <=> x \in report.sections
                        /\ ("social" \in report.sections /\ ~search.graphite) =>
                             "social" \in Sections(page)
                        /\ page.count = drawn.breach =>
                             /\ Total(report.counts) = Total(drawn)
                             /\ report.risk <= ScreenRisk(drawn)
                             /\ drawn.email = 0 => report.level = RiskLabel(ScreenRisk(drawn))
                        /\ page.count # drawn.breach => report.counts.breach >= report.rows.breach
                        /\ StealerTable(page) <= ExportCSV(page).rows.stealer
                        /\ ~search.graphite => ExportCSV(page).rows.social <= SocialCards(page)
  BY DEF ReportsAgreeWithTheScreen
<1> DEFINE report == ExportTXT(page)
<1>1. Witnessed(page, ran, search.mode) /\ PageTyped(page) /\ DrawnFrom(drawn, page)
  BY DEF SearchInv
<1>2. /\ page.count \in Nat /\ page.breaches \in Nat /\ page.stealers \in Nat
      /\ page.domains \in Nat /\ page.found \in Nat /\ page.likely \in Nat
      /\ page.social \in {"none", "v1", "v2"}
      /\ Len(page.platforms) \in Nat /\ DOMAIN page.platforms = 1..Len(page.platforms)
  BY <1>1 DEF PageTyped, PagesWith
<1>3. /\ report.sections = Filled(page) /\ report.counts = ReportCounts(page)
      /\ report.risk = ReportRisk(page) /\ report.level = RiskLabel(ReportRisk(page))
      /\ report.rows = Rows(page)
  BY DEF ExportTXT, TextReport
<1>4. /\ Rows(page).breach = page.breaches /\ Rows(page).stealer = page.stealers
      /\ Rows(page).email = page.domains
      /\ Rows(page).social = IF page.social = "v1" THEN page.found ELSE 0
  BY DEF Rows
<1>5. /\ "breach" \in Filled(page) <=> page.breaches > 0
      /\ "stealer" \in Filled(page) <=> page.stealers > 0
      /\ "email" \in Filled(page) <=> page.domains > 0
      /\ "social" \in Filled(page) <=> Rows(page).social > 0
  BY <1>4 DEF Filled, CopySection, ReportSections
<1>6. /\ drawn.stealer = page.stealers /\ drawn.social = page.found /\ drawn.email = page.domains
      /\ page.count = drawn.breach \/ page.count > page.breaches
  BY <1>1 DEF DrawnFrom
<1>7. /\ ReportCounts(page).breach = page.count /\ ReportCounts(page).stealer = page.stealers
      /\ ReportCounts(page).social = page.found /\ ReportCounts(page).email = page.domains
  BY DEF ReportCounts
<1>8. \A x \in {"breach", "stealer", "email"} : x \in Sections(page) <=> x \in report.sections
  <2>1. "breach" \in Sections(page) <=> "breach" \in report.sections
    BY <1>1, <1>3, <1>5, PanelRows DEF BreachPanel, Witnessed
  <2>2. "stealer" \in Sections(page) <=> "stealer" \in report.sections
    BY <1>1, <1>3, <1>5, PanelRows DEF StealerPanel, Witnessed
  <2>3. "email" \in Sections(page) <=> "email" \in report.sections
    BY <1>1, <1>3, <1>5, PanelRows DEF EmailPanel, Witnessed
  <2> HIDE DEF report
  <2> QED
    BY <2>1, <2>2, <2>3
<1>9. ("social" \in report.sections /\ ~search.graphite) => "social" \in Sections(page)
  <2> SUFFICES ASSUME "social" \in report.sections, ~search.graphite PROVE SocialPanel(page)
    BY PanelRows
  <2>1. page.social = "v1" /\ page.found > 0
    BY <1>2, <1>3, <1>4, <1>5
  <2>2. page.found + page.likely > 0
    BY <1>2, <2>1
  <2> QED
    BY <2>1, <2>2 DEF SocialPanel
<1>10. page.count = drawn.breach =>
         /\ Total(report.counts) = Total(drawn)
         /\ report.risk <= ScreenRisk(drawn)
         /\ drawn.email = 0 => report.level = RiskLabel(ScreenRisk(drawn))
  <2> SUFFICES ASSUME page.count = drawn.breach
               PROVE  /\ Total(report.counts) = Total(drawn)
                      /\ report.risk <= ScreenRisk(drawn)
                      /\ drawn.email = 0 => report.level = RiskLabel(ScreenRisk(drawn))
    OBVIOUS
  <2> DEFINE a == 15 * page.count + 20 * page.stealers
             b == 15 * drawn.breach + 20 * drawn.stealer + 3 * drawn.email
  <2>1. Total(report.counts) = Total(drawn)
    BY <1>3, <1>6, <1>7 DEF Total
  <2>2. a \in Nat /\ b \in Nat /\ a <= b /\ (drawn.email = 0 => a = b)
    <3>1. /\ drawn.breach = page.count /\ drawn.stealer = page.stealers
          /\ drawn.email = page.domains
      BY <1>6
    <3> DEFINE n == page.count
               s == page.stealers
               e == page.domains
    <3>2. n \in Nat /\ s \in Nat /\ e \in Nat /\ (drawn.email = 0 <=> e = 0)
      BY <1>2, <3>1
    <3>3. a = 15 * n + 20 * s /\ b = 15 * n + 20 * s + 3 * e
      BY <3>1
    <3> HIDE DEF a, b, n, s, e
    <3> QED
      BY <3>2, <3>3
  <2>3. ReportRisk(page) = Min100(a) /\ ScreenRisk(drawn) = Min100(b)
    BY DEF ReportRisk, ScreenRisk
  <2> HIDE DEF a, b, report
  <2>4. Min100(a) <= Min100(b)
    BY <2>2, RiskGrows
  <2> QED
    BY <1>3, <2>1, <2>2, <2>3, <2>4
<1>11. page.count # drawn.breach => report.counts.breach >= report.rows.breach
  BY <1>2, <1>3, <1>4, <1>6, <1>7
<1>12. StealerTable(page) <= ExportCSV(page).rows.stealer
  <2>1. ExportCSV(page).rows = Rows(page)
    BY DEF ExportCSV
  <2> QED
    BY <1>2, <1>4, <2>1, ReportAssumption DEF StealerTable, Between
<1>13. ~search.graphite => ExportCSV(page).rows.social <= SocialCards(page)
  <2> SUFFICES ASSUME ~search.graphite PROVE Rows(page).social <= SocialCards(page)
    BY DEF ExportCSV
  <2>1. CASE page.social = "v2"
    <3> DEFINE T == {i \in DOMAIN page.platforms : HasCard(page.platforms[i], FALSE)}
    <3>1. SocialCards(page) = Cardinality(T)
      BY <2>1 DEF SocialCards, Count
    <3>2. IsFiniteSet(DOMAIN page.platforms)
      BY <1>2, FirstNaturals
    <3>3. T \in SUBSET DOMAIN page.platforms
      OBVIOUS
    <3> HIDE DEF T
    <3>4. Cardinality(T) \in Nat
      BY <3>2, <3>3, FS_Subset, FS_CardinalityType
    <3> QED
      BY <1>4, <2>1, <3>1, <3>4
  <2>2. CASE page.social # "v2"
    <3>1. SocialCards(page) = page.found + page.likely
      BY <2>2 DEF SocialCards
    <3> QED
      BY <1>2, <1>4, <3>1
  <2> QED
    BY <2>1, <2>2
<1> HIDE DEF report
<1> QED
  BY <1>8, <1>9, <1>10, <1>11, <1>12, <1>13 DEF report

\* Whatever the plan, the answers and the failures, what the search found is on the
\* page and in its reports, and every module of the plan is accounted for.
THEOREM ReportInvariance == Spec => []SearchIsReported
<1>1. SearchInv => SearchIsReported
  BY ReportsMatch, NothingGreyed, EveryModuleAccounted DEF SearchIsReported
<1> QED
  BY <1>1, SearchInvariance, PTL

-----------------------------------------------------------------------------
(* The saved case. *)

\* A blocked or unreadable platform stays one for both readers of the page.
LEMMA BadPlatform ==
  ASSUME NEW q, q.validation = "invalid" \/ q.fetch = "cf_challenge"
  PROVE  CardStatus(q) \in {"blocked", "error"} /\ CaseStatus(q) \in {"blocked", "error"}
<1>1. CASE q.fetch = "cf_challenge"
  BY <1>1 DEF CardStatus, CaseStatus
<1>2. CASE q.fetch # "cf_challenge" /\ q.validation = "invalid"
  <2>1. CardStatus(q) = "error"
    BY <1>2 DEF CardStatus, SHERLOCK_STATUS_MAP
  <2>2. CaseStatus(q) = "error"
    BY <1>2 DEF CaseStatus
  <2> QED
    BY <2>1, <2>2
<1> QED
  BY <1>1, <1>2

LEMMA SilentSummary ==
  ASSUME NEW st, IsFiniteSet(DOMAIN st), SummaryStatus(st) = "not_found"
  PROVE  \A i \in DOMAIN st : st[i] \notin {"blocked", "error"}
<1> DEFINE In(s) == {i \in DOMAIN st : st[i] = s}
<1>1. \A s : IsFiniteSet(In(s)) /\ Cardinality(In(s)) \in Nat
  BY FS_Subset, FS_CardinalityType
<1>2. ~(Cardinality(In("blocked")) > 0) /\ ~(Cardinality(In("error")) > 0)
  BY DEF SummaryStatus
<1> HIDE DEF In
<1>3. Cardinality(In("blocked")) = 0 /\ Cardinality(In("error")) = 0
  BY <1>1, <1>2
<1>4. In("blocked") = {} /\ In("error") = {}
  BY <1>1, <1>3, FS_EmptySet
<1> QED
  BY <1>4 DEF In

\* What the page alone says of its sources: a list of statuses, with one for every platform.
LEMMA PageStatuses ==
  ASSUME SearchInv
  PROVE  /\ \E n \in Nat : DOMAIN FromPage(page) = 1..n
         /\ \A i \in DOMAIN page.platforms :
              \E j \in DOMAIN FromPage(page) : FromPage(page)[j] = CaseStatus(page.platforms[i])
<1> DEFINE s == page.platforms
           T == {"found", "likely", "not_found"} \cup {CaseStatus(s[i]) : i \in DOMAIN s}
           a == <<ByCount(page.count), ByCount(page.stealers)>>
           b == IF page.oath THEN <<ByCount(page.domains)>> ELSE <<>>
           v2 == [i \in DOMAIN s |-> CaseStatus(s[i])]
           v1 == (IF page.found > 0 THEN <<"found">> ELSE <<>>)
                   \o (IF page.likely > 0 THEN <<"likely">> ELSE <<>>)
                   \o (IF page.found + page.likely = 0 THEN <<"not_found">> ELSE <<>>)
           c == IF page.social = "v2" THEN v2 ELSE IF page.social = "v1" THEN v1 ELSE <<>>
<1>1. Len(s) \in Nat /\ DOMAIN s = 1..Len(s) /\ (page.social # "v2" => DOMAIN s = {})
  BY DEF SearchInv, PageTyped
<1>2. ByCount(page.count) \in T /\ ByCount(page.stealers) \in T /\ ByCount(page.domains) \in T
  BY DEF ByCount
<1>3. "found" \in T /\ "likely" \in T /\ "not_found" \in T /\ \A i \in DOMAIN s : CaseStatus(s[i]) \in T
  OBVIOUS
<1>4. FromPage(page) = a \o b \o c
  BY DEF FromPage
<1>5. v2 \in Seq(T) /\ Len(v2) = Len(s) /\ \A i \in DOMAIN s : v2[i] = CaseStatus(s[i])
  <2>1. v2 \in [1..Len(s) -> T]
    BY <1>1
  <2>2. DOMAIN v2 = 1..Len(s) /\ \A i \in DOMAIN s : v2[i] = CaseStatus(s[i])
    BY <1>1
  <2> HIDE DEF v2, s, T
  <2>3. v2 \in Seq(T)
    BY <1>1, <2>1, SeqDef
  <2> QED
    BY <1>1, <2>2, <2>3, LenProperties
<1> HIDE DEF T, v2, s
<1>6. a \in Seq(T)
  BY <1>2
<1>7. b \in Seq(T)
  BY <1>2
<1>8. v1 \in Seq(T)
  BY <1>3
<1> HIDE DEF a, b, v1
<1>9. c \in Seq(T)
  BY <1>5, <1>8
<1> DEFINE ab == a \o b
<1>10. ab \in Seq(T)
  BY <1>6, <1>7
<1> HIDE DEF ab
<1>11. /\ ab \o c \in Seq(T) /\ Len(ab \o c) = Len(ab) + Len(c) /\ Len(ab) \in Nat /\ Len(c) \in Nat
       /\ \A j \in 1..Len(c) : (ab \o c)[Len(ab) + j] = c[j]
  BY <1>9, <1>10, ConcatProperties, LenProperties
<1>12. DOMAIN (ab \o c) = 1..(Len(ab) + Len(c))
  BY <1>11, LenProperties
<1>13. FromPage(page) = ab \o c
  BY <1>4 DEF ab
<1>14. ASSUME NEW i \in DOMAIN s
       PROVE  \E j \in DOMAIN FromPage(page) : FromPage(page)[j] = CaseStatus(s[i])
  <2>1. c = v2
    BY <1>1
  <2>2. i \in 1..Len(c) /\ c[i] = CaseStatus(s[i])
    BY <1>1, <1>5, <2>1
  <2> HIDE DEF c
  <2>3. Len(ab) + i \in 1..(Len(ab) + Len(c))
    BY <1>11, <2>2
  <2> QED
    BY <1>11, <1>12, <1>13, <2>2, <2>3
<1> QED
  BY <1>11, <1>12, <1>13, <1>14 DEF s

LEMMA FiniteStatuses == SearchInv => IsFiniteSet(DOMAIN StatusList)
<1> SUFFICES ASSUME SearchInv PROVE IsFiniteSet(DOMAIN StatusList)
  OBVIOUS
<1>1. IsFiniteSet(DOMAIN cards)
  BY DEF SearchInv, CardsSay
<1>2. IsFiniteSet(DOMAIN FromPage(page))
  BY PageStatuses, FirstNaturals
<1> QED
  BY <1>1, <1>2 DEF StatusList

LEMMA NoFailureHidden == SearchInv => CaseNeverHidesFailure
<1> SUFFICES ASSUME SearchInv, Done, SummaryStatus(StatusList) = "not_found"
             PROVE  /\ search.graphite => errors = {}
                    /\ \A i \in DOMAIN page.platforms :
                         page.platforms[i].validation # "invalid" /\ page.platforms[i].fetch # "cf_challenge"
  BY DEF CaseNeverHidesFailure
<1>1. \A i \in DOMAIN StatusList : StatusList[i] \notin {"blocked", "error"}
  BY FiniteStatuses, SilentSummary
<1>2. /\ search.graphite \in BOOLEAN
      /\ CardsSay(cards, page.platforms, errors, ran, search.graphite)
  BY DEF SearchInv, SearchTyped
<1>3. CASE DOMAIN cards # {}
  <2>1. StatusList = cards
    BY <1>3 DEF StatusList
  <2>2. search.graphite
    BY <1>2, <1>3 DEF CardsSay
  <2>3. ASSUME NEW m \in errors PROVE FALSE
    <3>1. <<m, 0>> \in DOMAIN cards /\ cards[<<m, 0>>] = "error"
      BY <1>2, <2>2 DEF CardsSay
    <3> QED
      BY <1>1, <2>1, <3>1
  <2>4. ASSUME NEW i \in DOMAIN page.platforms
        PROVE  page.platforms[i].validation # "invalid" /\ page.platforms[i].fetch # "cf_challenge"
    <3>1. <<"sherlock", i>> \in DOMAIN cards
          /\ cards[<<"sherlock", i>>] = CardStatus(page.platforms[i])
      BY <1>2, <2>2 DEF CardsSay
    <3>2. CardStatus(page.platforms[i]) \notin {"blocked", "error"}
      BY <1>1, <2>1, <3>1
    <3> QED
      BY <3>2, BadPlatform
  <2> QED
    BY <2>3, <2>4
<1>4. CASE DOMAIN cards = {}
  <2>1. StatusList = FromPage(page)
    BY <1>4 DEF StatusList
  <2>2. search.graphite => errors = {}
    BY <1>2, <1>4 DEF CardsSay
  <2>3. ASSUME NEW i \in DOMAIN page.platforms
        PROVE  page.platforms[i].validation # "invalid" /\ page.platforms[i].fetch # "cf_challenge"
    <3>1. PICK j \in DOMAIN FromPage(page) : FromPage(page)[j] = CaseStatus(page.platforms[i])
      BY PageStatuses
    <3>2. CaseStatus(page.platforms[i]) \notin {"blocked", "error"}
      BY <1>1, <2>1, <3>1
    <3> QED
      BY <3>2, BadPlatform
  <2> QED
    BY <2>2, <2>3
<1> QED
  BY <1>3, <1>4

LEMMA CasePdfIsNoMilder == SearchInv => CasePdfNeverUnderstates
<1> SUFFICES ASSUME SearchInv
             PROVE  LET pdf == CasePDF(SavedCase(page))
                    IN  /\ pdf.risk >= ExportPDF(page).risk
                        /\ pdf.counts.breach # page.count => page.count = 0
                        /\ pdf.counts.stealer = page.stealers
  BY DEF CasePdfNeverUnderstates
<1> DEFINE found == Count(StatusList, LAMBDA s : s = "found")
           count == IF page.count > 0 THEN page.count ELSE found
           c == SavedCase(page)
           r == CaseResult(c)
<1>1. page.count \in Nat /\ page.stealers \in Nat
  BY DEF SearchInv, PageTyped, PagesWith
<1>2. found \in Nat
  <2> DEFINE S == {i \in DOMAIN StatusList : StatusList[i] = "found"}
  <2>1. found = Cardinality(S)
    BY DEF Count
  <2>2. IsFiniteSet(DOMAIN StatusList) /\ S \in SUBSET DOMAIN StatusList
    BY FiniteStatuses
  <2> HIDE DEF S, found
  <2> QED
    BY <2>1, <2>2, FS_Subset, FS_CardinalityType
<1>3. c.breach = page.count /\ c.stealer = page.stealers /\ c.found = found
  BY DEF SavedCase
<1> HIDE DEF found, c
<1>4. r.count = count /\ r.stealers = page.stealers
  BY <1>3 DEF CaseResult, EmptyPage
<1> HIDE DEF r
<1>5. /\ CasePDF(c).risk = ReportRisk(r) /\ CasePDF(c).counts.breach = r.count
      /\ CasePDF(c).counts.stealer = r.stealers /\ ExportPDF(page).risk = ReportRisk(page)
  BY DEF CasePDF, ExportPDF, ReportCounts, r
<1>6. ReportRisk(r) >= ReportRisk(page)
  <2> DEFINE x == 15 * page.count + 20 * page.stealers
             y == 15 * count + 20 * page.stealers
  <2>1. count \in Nat /\ page.count <= count
    BY <1>1, <1>2
  <2> HIDE DEF count
  <2>2. x \in Nat /\ y \in Nat /\ x <= y
    BY <1>1, <2>1
  <2>3. ReportRisk(r) = Min100(y) /\ ReportRisk(page) = Min100(x)
    BY <1>4 DEF ReportRisk
  <2> HIDE DEF x, y
  <2>4. Min100(x) <= Min100(y)
    BY <2>2, RiskGrows
  <2>5. Min100(x) \in Int /\ Min100(y) \in Int
    BY <2>2 DEF Min100, Between
  <2> QED
    BY <2>3, <2>4, <2>5
<1>7. count # page.count => page.count = 0
  BY <1>1
<1> QED
  BY <1>4, <1>5, <1>6, <1>7 DEF c

\* A saved case hides no failed source, and the report printed from it never shows
\* less risk than the search had.
THEOREM CaseInvariance == Spec => []SavedCaseIsHonest
<1>1. SearchInv => SavedCaseIsHonest
  BY NoFailureHidden, CasePdfIsNoMilder DEF SavedCaseIsHonest
<1> QED
  BY <1>1, SearchInvariance, PTL

=============================================================================
