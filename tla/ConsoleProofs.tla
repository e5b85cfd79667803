--------------------------- MODULE ConsoleProofs ----------------------------
(***************************************************************************)
(* Theorems about what surrounds a search, a component at a time: the      *)
(* runner of the connectors, the form and the scan box, the evidence       *)
(* drawer, the budget of the proxy, the case book and its lists, and the   *)
(* admin page; and then of their composition.                              *)
(***************************************************************************)
EXTENDS MCConsole, SessionsProofs, DataLemmas

-----------------------------------------------------------------------------
(***************************************************************************)
(* The inductive invariant.                                                *)
(***************************************************************************)
Inquiries == [source : Sources, target : Targets]
Keys == Sources \X Targets
Statuses == _CACHEABLE_STATUSES \cup Outcomes \cup {"none", "error"}

RequestStates ==
  [at : {"idle"}]
  \cup [at : {"lookup"}, ask : Inquiries]
  \cup [at : {"limiter"}, ask : Inquiries, queued : Nat, ahead : Nat]
  \cup [at : {"sleeping"}, ask : Inquiries, queued : Nat, ahead : Nat, wake : Int]
  \cup [at : {"running"}, ask : Inquiries, called : Nat]
  \cup [at : {"storing"}, ask : Inquiries, called : Nat, status : _CACHEABLE_STATUSES]
  \cup [at : {"done"}, ask : Inquiries, called : Nat \cup {Never}, status : Statuses,
        hit : BOOLEAN, ended : Nat]

RunnerTypeOK ==
  /\ clock \in Nat
  /\ request \in [Requests -> RequestStates]
  /\ turns \in [Sources -> Seq(Requests)]
  /\ lastCall \in [Sources -> Int]
  /\ connCache \in [Keys -> [status : Statuses, until : Nat]]

Waiting(r) == request[r].at \in {"limiter", "sleeping"}

\* The callers of the limiter are those that wait for their source, each once.
QueueIsOfWaiters ==
  /\ \A s \in Sources : \A i \in 1..Len(turns[s]) :
       Waiting(turns[s][i]) /\ Source(turns[s][i]) = s
  /\ \A s \in Sources : \A i, k \in 1..Len(turns[s]) : turns[s][i] = turns[s][k] => i = k
  /\ \A r \in Requests : Waiting(r) =>
       \E i \in 1..Len(turns[Source(r)]) : turns[Source(r)][i] = r

\* Only the first caller sleeps, until an interval after the last call.
SleeperIsNext ==
  \A r \in Requests : request[r].at = "sleeping" =>
    /\ turns[Source(r)] # <<>> /\ HasSemaphore(r)
    /\ request[r].wake = lastCall[Source(r)] + MinInterval

\* The last call of a source is the latest.
LastCallIsLatest ==
  /\ \A s \in Sources : lastCall[s] <= clock
  /\ \A r \in Requests : HasCalled(r) => request[r].called <= lastCall[Source(r)]

Times(n) == n * MinInterval

\* The caller in place i leaves at most i - 1 intervals after now and at most i
\* after the last call, and either is in time.
QueueMoves ==
  \A s \in Sources : \A i \in 1..Len(turns[s]) :
    LET r == request[turns[s][i]]
    IN  /\ clock + Times(i) <= r.queued + Times(r.ahead + 1) + MinInterval
        /\ lastCall[s] + Times(i) <= r.queued + Times(r.ahead + 1)

LimiterInv ==
  QueueIsOfWaiters /\ SleeperIsNext /\ LastCallIsLatest /\ QueueMoves /\ CallsKeepTheirDistance

\* What the cache holds was answered by a call with its key.
CacheHoldsAnswers ==
  \A k \in Keys : connCache[k].until # 0 =>
    \E q \in Requests :
      /\ request[q].at = "done" /\ ~request[q].hit /\ KeyOf(q) = k
      /\ request[q].status = connCache[k].status /\ request[q].status # "error"
      /\ connCache[k].until = request[q].ended + CacheTTL

CacheInv == CacheHoldsAnswers /\ HitsAreFreshVerdicts

RunnerInv == RunnerTypeOK /\ LimiterInv /\ CacheInv

-----------------------------------------------------------------------------
(***************************************************************************)
(* Types.                                                                  *)
(***************************************************************************)

\* What a call knows depends on where it is.
LEMMA FieldsOfAState ==
  ASSUME NEW x \in RequestStates
  PROVE  /\ x.at \in {"idle", "lookup", "limiter", "sleeping", "running", "storing", "done"}
         /\ x.at # "idle" => x.ask \in Inquiries
         /\ x.at \in {"limiter", "sleeping"} => x.queued \in Nat /\ x.ahead \in Nat
         /\ x.at = "sleeping" => x.wake \in Int
         /\ x.at \in {"running", "storing"} => x.called \in Nat
         /\ x.at = "storing" => x.status \in _CACHEABLE_STATUSES
         /\ x.at = "done" => /\ x.called \in Nat \cup {Never} /\ x.status \in Statuses
                             /\ x.hit \in BOOLEAN /\ x.ended \in Nat
BY DEF RequestStates

LEMMA Fields ==
  ASSUME RunnerTypeOK, NEW r \in Requests
  PROVE  /\ request[r].at \in
              {"idle", "lookup", "limiter", "sleeping", "running", "storing", "done"}
         /\ request[r].at # "idle" =>
              /\ request[r].ask \in Inquiries /\ Source(r) \in Sources /\ KeyOf(r) \in Keys
         /\ Waiting(r) => request[r].queued \in Nat /\ request[r].ahead \in Nat
         /\ request[r].at = "sleeping" => request[r].wake \in Int
         /\ request[r].at \in {"running", "storing"} => request[r].called \in Nat
         /\ request[r].at = "storing" => request[r].status \in _CACHEABLE_STATUSES
         /\ request[r].at = "done" =>
              /\ request[r].called \in Nat \cup {Never} /\ request[r].status \in Statuses
              /\ request[r].hit \in BOOLEAN /\ request[r].ended \in Nat
         /\ HasCalled(r) => request[r].called \in Nat
<1>1. request[r] \in RequestStates
  BY DEF RunnerTypeOK
<1>2. request[r].at # "idle" => Source(r) \in Sources /\ KeyOf(r) \in Keys
  BY <1>1, FieldsOfAState DEF Inquiries, Source, KeyOf, CacheKey, Keys
<1> QED
  BY <1>1, <1>2, FieldsOfAState DEF Waiting, HasCalled

\* Who queues is a call.
LEMMA Callers ==
  ASSUME RunnerTypeOK, NEW s \in Sources
  PROVE  /\ turns[s] \in Seq(Requests) /\ Len(turns[s]) \in Nat
         /\ \A i \in 1..Len(turns[s]) : turns[s][i] \in Requests
         /\ turns[s] # <<>> <=> Len(turns[s]) > 0
         /\ turns[s] # <<>> => Head(turns[s]) = turns[s][1]
<1>1. turns[s] \in Seq(Requests)
  BY DEF RunnerTypeOK
<1> QED
  BY <1>1, ElementOfSeq, EmptySeq, HeadTailProperties

LEMMA Intervals ==
  /\ MinInterval \in Nat /\ MinInterval > 0 /\ CacheTTL \in Nat /\ CacheTTL > 0
  /\ Never \in Int /\ Never < 0
<1>1. MinInterval \in Nat /\ MinInterval > 0 /\ CacheTTL \in Nat /\ CacheTTL > 0
  BY RunnerAssumption
<1> QED
  BY <1>1 DEF Never

LEMMA TimesType == \A n \in Nat : Times(n) \in Nat
BY Intervals DEF Times

LEMMA OneMore == \A n \in Nat : Times(n + 1) = Times(n) + MinInterval
BY Intervals DEF Times

LEMMA InitIsSound == RunnerInit => RunnerInv
<1> SUFFICES ASSUME RunnerInit PROVE RunnerInv
  OBVIOUS
<1>1. \A r \in Requests : request[r].at = "idle" /\ ~Waiting(r) /\ ~HasCalled(r)
  BY DEF RunnerInit, Waiting, HasCalled
<1>2. /\ clock = 0
      /\ \A s \in Sources : turns[s] = <<>> /\ Len(turns[s]) = 0 /\ lastCall[s] = Never
  BY DEF RunnerInit
<1>3. \A k \in Keys : connCache[k].until = 0
  BY DEF RunnerInit, NoEntry, Keys
<1>4. RunnerTypeOK
  <2>1. [at |-> "idle"] \in RequestStates
    BY DEF RequestStates
  <2>2. NoEntry \in [status : Statuses, until : Nat]
    BY DEF NoEntry, Statuses
  <2>3. connCache \in [Keys -> [status : Statuses, until : Nat]]
    BY <2>2 DEF RunnerInit, Keys
  <2>4. clock \in Nat /\ request \in [Requests -> RequestStates]
    BY <2>1 DEF RunnerInit
  <2>5. turns \in [Sources -> Seq(Requests)]
    BY EmptySeq DEF RunnerInit
  <2>6. lastCall \in [Sources -> Int]
    BY Intervals DEF RunnerInit
  <2> QED
    BY <2>3, <2>4, <2>5, <2>6 DEF RunnerTypeOK
<1>5. QueueIsOfWaiters /\ QueueMoves
  BY <1>1, <1>2 DEF QueueIsOfWaiters, QueueMoves
<1>6. SleeperIsNext /\ CallsKeepTheirDistance
  BY <1>1 DEF SleeperIsNext, CallsKeepTheirDistance
<1>7. LastCallIsLatest
  BY <1>1, <1>2, Intervals DEF LastCallIsLatest
<1>8. CacheInv
  BY <1>1, <1>3 DEF CacheInv, CacheHoldsAnswers, HitsAreFreshVerdicts
<1> QED
  BY <1>4, <1>5, <1>6, <1>7, <1>8 DEF RunnerInv, LimiterInv

-----------------------------------------------------------------------------
(***************************************************************************)
(* What the steps of one call have in common.                              *)
(***************************************************************************)

LEMMA OneCallMoves ==
  ASSUME RunnerTypeOK, NEW r \in Requests, NEW x \in RequestStates, Becomes(r, x)
  PROVE  /\ request' \in [Requests -> RequestStates]
         /\ request'[r] = x
         /\ \A q \in Requests : q # r => request'[q] = request[q]
BY DEF Becomes, RunnerTypeOK

\* A step within a call, outside of the limiter, leaves the limiter alone.
LEMMA QuietStep ==
  ASSUME RunnerInv, NEW r \in Requests, NEW x \in RequestStates, Becomes(r, x),
         clock' = clock, turns' = turns, lastCall' = lastCall,
         ~Waiting(r), x.at \notin {"limiter", "sleeping"},
         (x.at \in {"running", "storing", "done"} /\ x.called # Never)
           => HasCalled(r) /\ x.called = request[r].called /\ x.ask = request[r].ask
  PROVE  LimiterInv'
<1>1. /\ request'[r] = x
      /\ \A q \in Requests : q # r => request'[q] = request[q]
  BY OneCallMoves DEF RunnerInv
<1>2. \A q \in Requests :
        /\ request'[q].at \in {"limiter", "sleeping"} <=> Waiting(q)
        /\ Waiting(q) => request'[q] = request[q]
  BY <1>1 DEF Waiting
<1>3. \A q \in Requests :
        (request'[q].at \in {"running", "storing", "done"} /\ request'[q].called # Never)
          => HasCalled(q) /\ request'[q].called = request[q].called
               /\ request'[q].ask = request[q].ask
  BY <1>1 DEF HasCalled
<1>4. QueueIsOfWaiters'
  BY <1>2, Callers, Fields
     DEF RunnerInv, LimiterInv, QueueIsOfWaiters, Waiting, Source
<1>5. SleeperIsNext'
  BY <1>2 DEF RunnerInv, LimiterInv, SleeperIsNext, Waiting, Source, HasSemaphore
<1>6. LastCallIsLatest'
  BY <1>3 DEF RunnerInv, LimiterInv, LastCallIsLatest, Source, HasCalled
<1>7. QueueMoves'
  BY <1>2, Callers DEF RunnerInv, LimiterInv, QueueIsOfWaiters, QueueMoves
<1>8. CallsKeepTheirDistance'
  BY <1>3 DEF RunnerInv, LimiterInv, CallsKeepTheirDistance, Source, HasCalled
<1> QED
  BY <1>4, <1>5, <1>6, <1>7, <1>8 DEF LimiterInv

\* As long as a call is not over, its steps take no answer away.
LEMMA AnswersStay ==
  ASSUME RunnerInv, NEW r \in Requests, NEW x \in RequestStates, Becomes(r, x),
         connCache' = connCache, request[r].at # "done",
         ~(x.at = "done" /\ x.hit)
  PROVE  CacheInv'
<1>1. /\ request'[r] = x
      /\ \A q \in Requests : q # r => request'[q] = request[q]
  BY OneCallMoves DEF RunnerInv
<1>2. \A q \in Requests : request[q].at = "done" => request'[q] = request[q]
  BY <1>1
<1>3. CacheHoldsAnswers'
  BY <1>2 DEF RunnerInv, CacheInv, CacheHoldsAnswers, KeyOf
<1>4. \A q \in Requests : (request'[q].at = "done" /\ request'[q].hit) =>
        request[q].at = "done" /\ request'[q] = request[q]
  BY <1>1
<1>5. HitsAreFreshVerdicts'
  BY <1>2, <1>4 DEF RunnerInv, CacheInv, HitsAreFreshVerdicts
<1> QED
  BY <1>3, <1>5 DEF CacheInv

-----------------------------------------------------------------------------
(***************************************************************************)
(* One lemma per step.                                                     *)
(***************************************************************************)

LEMMA CallRunnerStep ==
  ASSUME RunnerInv, NEW r \in Requests, NEW s \in Sources, NEW t \in Targets,
         CallRunner(r, s, t)
  PROVE  RunnerInv'
<1> DEFINE x == [at |-> "lookup", ask |-> [source |-> s, target |-> t]]
<1>1. x \in RequestStates
  BY DEF RequestStates, Inquiries
<1>2. Becomes(r, x) /\ request[r].at = "idle" /\ x.at = "lookup"
  BY DEF CallRunner
<1> HIDE DEF x
<1>3. RunnerTypeOK'
  BY <1>1, <1>2, OneCallMoves DEF RunnerInv, RunnerTypeOK, CallRunner
<1>4. LimiterInv'
  BY <1>1, <1>2, QuietStep DEF CallRunner, Waiting
<1>5. CacheInv'
  BY <1>1, <1>2, AnswersStay DEF CallRunner
<1> QED
  BY <1>3, <1>4, <1>5 DEF RunnerInv

LEMMA CacheHitStep ==
  ASSUME RunnerInv, NEW r \in Requests, CacheHit(r)
  PROVE  RunnerInv'
<1> DEFINE e == connCache[KeyOf(r)]
           x == [at |-> "done", ask |-> request[r].ask, called |-> Never,
                 status |-> e.status, hit |-> TRUE, ended |-> clock]
<1>1. /\ request[r].at = "lookup" /\ request[r].ask \in Inquiries /\ KeyOf(r) \in Keys
      /\ e \in [status : Statuses, until : Nat] /\ clock \in Nat
  BY Fields DEF CacheHit, RunnerInv, RunnerTypeOK
<1>2. e.until \in Nat /\ e.status \in Statuses /\ e.until > clock /\ e.until # 0
  BY <1>1 DEF CacheHit, TooOld
<1>3. x \in RequestStates
  BY <1>1, <1>2 DEF RequestStates
<1>4. /\ Becomes(r, x) /\ x.at = "done" /\ x.hit /\ x.called = Never /\ x.ask = request[r].ask
      /\ x.status = e.status /\ x.ended = clock
  BY DEF CacheHit, Finish
<1>5. PICK q \in Requests :
        /\ request[q].at = "done" /\ ~request[q].hit /\ KeyOf(q) = KeyOf(r)
        /\ request[q].status = e.status /\ request[q].status # "error"
        /\ e.until = request[q].ended + CacheTTL
  BY <1>1, <1>2 DEF RunnerInv, CacheInv, CacheHoldsAnswers
<1>6. request[q].ask = request[r].ask
  BY <1>1, <1>5, Fields DEF RunnerInv, KeyOf, CacheKey, Inquiries
<1> HIDE DEF x, e
<1>7. /\ request'[r] = x
      /\ \A p \in Requests : p # r => request'[p] = request[p]
      /\ request' \in [Requests -> RequestStates]
  BY <1>3, <1>4, OneCallMoves DEF RunnerInv
<1>8. RunnerTypeOK'
  BY <1>7 DEF RunnerInv, RunnerTypeOK, CacheHit
<1>9. LimiterInv'
  BY <1>1, <1>3, <1>4, QuietStep DEF CacheHit, Waiting
<1>10. \A p \in Requests : request[p].at = "done" => request'[p] = request[p]
  BY <1>1, <1>7
<1>11. CacheHoldsAnswers'
  BY <1>10 DEF RunnerInv, CacheInv, CacheHoldsAnswers, KeyOf, CacheHit
<1>12. HitsAreFreshVerdicts'
  <2>1. ASSUME NEW p \in Requests, request'[p].at = "done", request'[p].hit, p # r
        PROVE  \E b \in Requests :
                 /\ request'[b].at = "done" /\ ~request'[b].hit
                 /\ request'[b].ask = request'[p].ask
                 /\ request'[b].status = request'[p].status /\ request'[b].status # "error"
                 /\ request'[p].ended < request'[b].ended + CacheTTL
    BY <2>1, <1>7, <1>10 DEF RunnerInv, CacheInv, HitsAreFreshVerdicts
  <2>2. /\ request'[q].at = "done" /\ ~request'[q].hit
        /\ request'[q].ask = request'[r].ask
        /\ request'[q].status = request'[r].status /\ request'[q].status # "error"
        /\ request'[r].ended < request'[q].ended + CacheTTL
    BY <1>2, <1>4, <1>5, <1>6, <1>7, <1>10
  <2> QED
    BY <2>1, <2>2 DEF HitsAreFreshVerdicts
<1> QED
  BY <1>8, <1>9, <1>11, <1>12 DEF RunnerInv, CacheInv

LEMMA ConnectorAnswersStep ==
  ASSUME RunnerInv, NEW r \in Requests, NEW outcome \in Outcomes, ConnectorAnswers(r, outcome)
  PROVE  RunnerInv'
<1>1. /\ request[r].at = "running" /\ request[r].ask \in Inquiries
      /\ request[r].called \in Nat /\ clock \in Nat /\ outcome \in Statuses
  BY Fields DEF ConnectorAnswers, RunnerInv, RunnerTypeOK, Statuses
<1>2. PICK x \in RequestStates :
        /\ Becomes(r, x) /\ x.at \in {"storing", "done"} /\ ~(x.at = "done" /\ x.hit)
        /\ x.ask = request[r].ask /\ x.called = request[r].called
  <2>1. CASE outcome \in _CACHEABLE_STATUSES
    <3> DEFINE y == [at |-> "storing", ask |-> request[r].ask, called |-> request[r].called,
                     status |-> outcome]
    <3>1. y \in RequestStates
      BY <1>1, <2>1 DEF RequestStates
    <3> QED
      BY <2>1, <3>1 DEF ConnectorAnswers
  <2>2. CASE outcome \notin _CACHEABLE_STATUSES
    <3> DEFINE y == [at |-> "done", ask |-> request[r].ask, called |-> request[r].called,
                     status |-> outcome, hit |-> FALSE, ended |-> clock]
    <3>1. y \in RequestStates
      BY <1>1 DEF RequestStates
    <3> QED
      BY <2>2, <3>1 DEF ConnectorAnswers, Finish
  <2> QED
    BY <2>1, <2>2
<1>3. RunnerTypeOK'
  BY <1>2, OneCallMoves DEF RunnerInv, RunnerTypeOK, ConnectorAnswers
<1>4. LimiterInv'
  BY <1>1, <1>2, QuietStep, Intervals DEF ConnectorAnswers, Waiting, HasCalled
<1>5. CacheInv'
  BY <1>1, <1>2, AnswersStay DEF ConnectorAnswers
<1> QED
  BY <1>3, <1>4, <1>5 DEF RunnerInv

LEMMA TimeOutStep ==
  ASSUME RunnerInv, NEW r \in Requests, TimeOut(r)
  PROVE  RunnerInv'
<1> DEFINE x == [at |-> "done", ask |-> request[r].ask, called |-> request[r].called,
                 status |-> "error", hit |-> FALSE, ended |-> clock]
<1>1. /\ request[r].at = "running" /\ request[r].ask \in Inquiries
      /\ request[r].called \in Nat /\ clock \in Nat
  BY Fields DEF TimeOut, RunnerInv, RunnerTypeOK
<1>2. x \in RequestStates
  BY <1>1 DEF RequestStates, Statuses
<1>3. /\ Becomes(r, x) /\ x.at = "done" /\ ~x.hit
      /\ x.ask = request[r].ask /\ x.called = request[r].called
  BY DEF TimeOut, Finish
<1> HIDE DEF x
<1>4. RunnerTypeOK'
  BY <1>2, <1>3, OneCallMoves DEF RunnerInv, RunnerTypeOK, TimeOut
<1>5. LimiterInv'
  BY <1>1, <1>2, <1>3, QuietStep, Intervals DEF TimeOut, Waiting, HasCalled
<1>6. CacheInv'
  BY <1>1, <1>2, <1>3, AnswersStay DEF TimeOut
<1> QED
  BY <1>4, <1>5, <1>6 DEF RunnerInv

LEMMA StoreResultStep ==
  ASSUME RunnerInv, NEW r \in Requests, StoreResult(r)
  PROVE  RunnerInv'
<1> DEFINE x == [at |-> "done", ask |-> request[r].ask, called |-> request[r].called,
                 status |-> request[r].status, hit |-> FALSE, ended |-> clock]
           e == [status |-> request[r].status, until |-> clock + CacheTTL]
<1>1. /\ request[r].at = "storing" /\ request[r].ask \in Inquiries /\ KeyOf(r) \in Keys
      /\ request[r].called \in Nat /\ clock \in Nat
      /\ request[r].status \in Statuses /\ request[r].status # "error"
  BY Fields DEF StoreResult, RunnerInv, RunnerTypeOK, Statuses, _CACHEABLE_STATUSES
<1>2. x \in RequestStates /\ e \in [status : Statuses, until : Nat]
  BY <1>1, Intervals DEF RequestStates
<1>3. /\ Becomes(r, x) /\ x.at = "done" /\ ~x.hit /\ x.status = request[r].status
      /\ x.ask = request[r].ask /\ x.called = request[r].called /\ x.ended = clock
      /\ e.status = request[r].status /\ e.until = clock + CacheTTL
  BY DEF StoreResult, Finish
<1>4. connCache' = [connCache EXCEPT ![KeyOf(r)] = e] \/ connCache' = connCache
  BY DEF StoreResult
<1> HIDE DEF x, e
<1>5. /\ request'[r] = x
      /\ \A p \in Requests : p # r => request'[p] = request[p]
      /\ request' \in [Requests -> RequestStates]
  BY <1>2, <1>3, OneCallMoves DEF RunnerInv
<1>6. RunnerTypeOK'
  BY <1>1, <1>2, <1>4, <1>5 DEF RunnerInv, RunnerTypeOK, StoreResult
<1>7. LimiterInv'
  BY <1>1, <1>2, <1>3, QuietStep, Intervals DEF StoreResult, Waiting, HasCalled
<1>8. \A p \in Requests : request[p].at = "done" => request'[p] = request[p]
  BY <1>1, <1>5
<1>9. \A p \in Requests : (request'[p].at = "done" /\ request'[p].hit) =>
        request[p].at = "done" /\ request'[p] = request[p]
  BY <1>3, <1>5
<1>10. HitsAreFreshVerdicts'
  BY <1>8, <1>9 DEF RunnerInv, CacheInv, HitsAreFreshVerdicts
<1>11. ASSUME NEW k \in Keys, connCache'[k].until # 0
       PROVE  \E q \in Requests :
                /\ request'[q].at = "done" /\ ~request'[q].hit /\ KeyOf(q)' = k
                /\ request'[q].status = connCache'[k].status /\ request'[q].status # "error"
                /\ connCache'[k].until = request'[q].ended + CacheTTL
  <2>1. CASE connCache'[k] = connCache[k]
    BY <1>8, <1>11, <2>1 DEF RunnerInv, CacheInv, CacheHoldsAnswers, KeyOf
  <2>2. CASE connCache'[k] # connCache[k]
    <3>1. k = KeyOf(r) /\ connCache'[k] = e
      BY <1>1, <1>4, <2>2 DEF RunnerInv, RunnerTypeOK
    <3>2. KeyOf(r)' = KeyOf(r)
      BY <1>3, <1>5 DEF KeyOf
    <3> QED
      BY <1>1, <1>3, <1>5, <3>1, <3>2
  <2> QED
    BY <2>1, <2>2
<1>12. CacheHoldsAnswers'
  BY <1>11 DEF CacheHoldsAnswers
<1> QED
  BY <1>6, <1>7, <1>10, <1>12 DEF RunnerInv, CacheInv

LEMMA InTimeAfterATick ==
  ASSUME NEW c \in Int, NEW latest \in Int, NEW t \in Int, NEW limit \in Int,
         NEW moment \in Int, NEW m \in Int, c + 1 <= latest + m, latest + t <= moment + limit
  PROVE  c + 1 + t <= moment + limit + m
OBVIOUS

LEMMA ClockTickStep ==
  ASSUME RunnerInv, ClockTick
  PROVE  RunnerInv'
<1>1. /\ clock \in Nat /\ clock' = clock + 1
      /\ request' = request /\ turns' = turns /\ lastCall' = lastCall /\ connCache' = connCache
  BY DEF RunnerInv, RunnerTypeOK, ClockTick
<1>2. RunnerTypeOK'
  BY <1>1 DEF RunnerInv, RunnerTypeOK
<1>3. QueueIsOfWaiters' /\ SleeperIsNext' /\ CallsKeepTheirDistance'
  BY <1>1 DEF RunnerInv, LimiterInv, QueueIsOfWaiters, SleeperIsNext, CallsKeepTheirDistance,
     Waiting, Source, HasSemaphore, HasCalled
<1>4. LastCallIsLatest'
  BY <1>1 DEF RunnerInv, RunnerTypeOK, LimiterInv, LastCallIsLatest, HasCalled, Source
<1>5. CacheInv'
  BY <1>1 DEF RunnerInv, CacheInv, CacheHoldsAnswers, HitsAreFreshVerdicts, KeyOf
<1>6. QueueMoves'
  <2> SUFFICES ASSUME NEW s \in Sources, NEW i \in 1..Len(turns[s])
               PROVE  LET r == request[turns[s][i]]
                      IN  /\ clock + 1 + Times(i)
                               <= r.queued + Times(r.ahead + 1) + MinInterval
                          /\ lastCall[s] + Times(i) <= r.queued + Times(r.ahead + 1)
    BY <1>1 DEF QueueMoves
  <2> DEFINE h == turns[s][1]
             q == turns[s][i]
  <2>1. /\ Len(turns[s]) \in Nat /\ h \in Requests /\ q \in Requests
        /\ turns[s] # <<>> /\ Head(turns[s]) = h
    BY Callers DEF RunnerInv
  <2>2. Waiting(h) /\ Source(h) = s /\ Waiting(q)
    BY <2>1 DEF RunnerInv, LimiterInv, QueueIsOfWaiters
  <2>3. HasSemaphore(h)
    BY <2>1, <2>2 DEF HasSemaphore
  <2>4. request[h].at = "sleeping" /\ ~(clock >= request[h].wake)
    BY <2>1, <2>2, <2>3 DEF ClockTick, Due, Waiting
  <2>5. request[h].wake = lastCall[s] + MinInterval /\ lastCall[s] \in Int
    BY <2>1, <2>2, <2>4 DEF RunnerInv, RunnerTypeOK, LimiterInv, SleeperIsNext
  <2>6. clock \in Int /\ MinInterval \in Int
    BY <1>1, Intervals
  <2>7. clock + 1 <= lastCall[s] + MinInterval
    <3> DEFINE wake == request[h].wake
    <3>1. ~(clock >= wake) /\ wake = lastCall[s] + MinInterval
      BY <2>4, <2>5
    <3> HIDE DEF wake, h
    <3> QED
      BY <3>1, <2>5, <2>6
  <2>8. /\ lastCall[s] + Times(i) <= request[q].queued + Times(request[q].ahead + 1)
        /\ request[q].queued \in Nat /\ request[q].ahead + 1 \in Nat
    BY <2>1, <2>2, Fields DEF RunnerInv, LimiterInv, QueueMoves
  <2>9. Times(i) \in Nat /\ Times(request[q].ahead + 1) \in Nat
    <3>1. Times(request[q].ahead + 1) \in Nat
      BY <2>8, TimesType, Zenon
    <3>2. i \in Nat
      BY <2>1
    <3>3. Times(i) \in Nat
      BY <3>2, TimesType, Zenon
    <3> QED
      BY <3>1, <3>3
  <2> HIDE DEF h, q
  <2>10. clock + 1 + Times(i) <= request[q].queued + Times(request[q].ahead + 1) + MinInterval
    BY <2>5, <2>6, <2>7, <2>8, <2>9, InTimeAfterATick
  <2> QED
    BY <2>8, <2>10 DEF q
<1> QED
  BY <1>2, <1>3, <1>4, <1>5, <1>6 DEF RunnerInv, LimiterInv

LEMMA AcquireStep ==
  ASSUME RunnerInv, NEW r \in Requests, Acquire(r)
  PROVE  RunnerInv'
<1> DEFINE x == [at |-> "sleeping", ask |-> request[r].ask, queued |-> request[r].queued,
                 ahead |-> request[r].ahead, wake |-> lastCall[Source(r)] + MinInterval]
<1>1. /\ request[r].at = "limiter" /\ request[r].ask \in Inquiries /\ Source(r) \in Sources
      /\ request[r].queued \in Nat /\ request[r].ahead \in Nat /\ HasSemaphore(r)
      /\ lastCall[Source(r)] \in Int
  BY Fields DEF Acquire, Waiting, RunnerInv, RunnerTypeOK
<1>2. x \in RequestStates
  BY <1>1, Intervals DEF RequestStates
<1>3. /\ Becomes(r, x) /\ x.at = "sleeping" /\ x.ask = request[r].ask
      /\ x.queued = request[r].queued /\ x.ahead = request[r].ahead
      /\ x.wake = lastCall[Source(r)] + MinInterval
  BY DEF Acquire
<1> HIDE DEF x
<1>4. /\ request'[r] = x
      /\ \A p \in Requests : p # r => request'[p] = request[p]
      /\ request' \in [Requests -> RequestStates]
  BY <1>2, <1>3, OneCallMoves DEF RunnerInv
<1>5. clock' = clock /\ turns' = turns /\ lastCall' = lastCall /\ connCache' = connCache
  BY DEF Acquire
<1>6. \A p \in Requests :
        /\ (Waiting(p)' <=> Waiting(p)) /\ (HasCalled(p)' <=> HasCalled(p))
        /\ (request[p].at # "idle" => Source(p)' = Source(p))
        /\ Waiting(p) => Source(p)' = Source(p) /\ request'[p].queued = request[p].queued
                           /\ request'[p].ahead = request[p].ahead
        /\ HasCalled(p) => request'[p] = request[p] /\ Source(p)' = Source(p)
  BY <1>1, <1>3, <1>4 DEF Waiting, HasCalled, Source
<1>7. RunnerTypeOK'
  BY <1>4, <1>5 DEF RunnerInv, RunnerTypeOK
<1>8. QueueIsOfWaiters'
  BY <1>5, <1>6, Callers DEF RunnerInv, LimiterInv, QueueIsOfWaiters
<1>9. SleeperIsNext'
  <2> SUFFICES ASSUME NEW p \in Requests, request'[p].at = "sleeping"
               PROVE  /\ turns[Source(p)'] # <<>> /\ Head(turns[Source(p)']) = p
                      /\ request'[p].wake = lastCall[Source(p)'] + MinInterval
    BY <1>5 DEF SleeperIsNext, HasSemaphore
  <2>1. CASE p # r
    BY <2>1, <1>4 DEF RunnerInv, LimiterInv, SleeperIsNext, HasSemaphore, Source
  <2>2. CASE p = r
    <3>1. Source(r)' = Source(r)
      BY <1>3, <1>4 DEF Source
    <3>2. turns[Source(r)] # <<>>
      BY <1>1, Callers DEF RunnerInv, LimiterInv, QueueIsOfWaiters, Waiting
    <3> QED
      BY <2>2, <3>1, <3>2, <1>1, <1>3, <1>4 DEF HasSemaphore
  <2> QED
    BY <2>1, <2>2
<1>10. LastCallIsLatest'
  BY <1>5, <1>6 DEF RunnerInv, LimiterInv, LastCallIsLatest
<1>11. QueueMoves'
  BY <1>5, <1>6, Callers DEF RunnerInv, LimiterInv, QueueMoves, QueueIsOfWaiters
<1>12. CallsKeepTheirDistance'
  BY <1>6 DEF RunnerInv, LimiterInv, CallsKeepTheirDistance
<1>13. CacheInv'
  BY <1>1, <1>2, <1>3, <1>5, AnswersStay
<1> QED
  BY <1>7, <1>8, <1>9, <1>10, <1>11, <1>12, <1>13 DEF RunnerInv, LimiterInv

LEMMA JoiningTheQueue ==
  ASSUME RunnerTypeOK, NEW s \in Sources, NEW r \in Requests
  PROVE  LET q == Append(turns[s], r)
         IN  /\ q \in Seq(Requests) /\ q # <<>> /\ Len(q) = Len(turns[s]) + 1
             /\ \A i \in 1..Len(turns[s]) : q[i] = turns[s][i]
             /\ q[Len(turns[s]) + 1] = r /\ Head(q) = q[1]
<1>1. turns[s] \in Seq(Requests)
  BY Callers
<1> QED
  BY <1>1, AppendProperties, HeadTailProperties

LEMMA CacheMissStep ==
  ASSUME RunnerInv, NEW r \in Requests, CacheMiss(r)
  PROVE  RunnerInv'
<1> DEFINE s == Source(r)
           n == Len(turns[s])
           x == [at |-> "limiter", ask |-> request[r].ask, queued |-> clock, ahead |-> n]
<1>1. /\ request[r].at = "lookup" /\ request[r].ask \in Inquiries /\ s \in Sources
      /\ clock \in Nat /\ n \in Nat /\ ~Waiting(r) /\ ~HasCalled(r)
  BY Fields, Callers DEF CacheMiss, Waiting, HasCalled, RunnerInv, RunnerTypeOK
<1>2. x \in RequestStates
  BY <1>1 DEF RequestStates
<1>3. /\ Becomes(r, x) /\ x.at = "limiter" /\ x.ask = request[r].ask
      /\ x.queued = clock /\ x.ahead = n
  BY DEF CacheMiss
<1> HIDE DEF x
<1>4. /\ request'[r] = x
      /\ \A p \in Requests : p # r => request'[p] = request[p]
      /\ request' \in [Requests -> RequestStates]
  BY <1>2, <1>3, OneCallMoves DEF RunnerInv
<1>5. clock' = clock /\ lastCall' = lastCall /\ connCache' = connCache
  BY DEF CacheMiss
<1>6. /\ turns'[s] = Append(turns[s], r)
      /\ \A t \in Sources : t # s => turns'[t] = turns[t]
      /\ turns' = [turns EXCEPT ![s] = Append(turns[s], r)]
  BY <1>1 DEF CacheMiss, RunnerInv, RunnerTypeOK
<1>7. /\ turns'[s] \in Seq(Requests) /\ turns'[s] # <<>> /\ Len(turns'[s]) = n + 1
      /\ \A i \in 1..n : turns'[s][i] = turns[s][i]
      /\ turns'[s][n + 1] = r /\ Head(turns'[s]) = turns'[s][1]
  BY <1>1, <1>6, JoiningTheQueue DEF RunnerInv
<1>8. \A p \in Requests :
        /\ Waiting(p)' <=> Waiting(p) \/ p = r
        /\ Waiting(p) => p # r /\ request'[p] = request[p] /\ Source(p)' = Source(p)
        /\ HasCalled(p)' <=> HasCalled(p)
        /\ HasCalled(p) => request'[p] = request[p] /\ Source(p)' = Source(p)
  BY <1>1, <1>3, <1>4 DEF Waiting, HasCalled, Source
<1>9. Waiting(r)' /\ Source(r)' = s
  BY <1>3, <1>4 DEF Waiting, Source
<1>10. /\ \A t \in Sources : \A i \in 1..Len(turns[t]) :
            turns[t][i] \in Requests /\ Waiting(turns[t][i]) /\ Source(turns[t][i]) = t
       /\ \A i \in 1..n : turns[s][i] # r
  BY <1>1, Callers DEF RunnerInv, LimiterInv, QueueIsOfWaiters
<1> HIDE DEF s, n
<1>11. RunnerTypeOK'
  BY <1>1, <1>4, <1>5, <1>6, <1>7 DEF RunnerInv, RunnerTypeOK
<1>12. \A t \in Sources : \A i \in 1..Len(turns'[t]) :
         \/ i \in 1..Len(turns[t]) /\ turns'[t][i] = turns[t][i]
         \/ t = s /\ i = n + 1 /\ turns'[t][i] = r
  <2> SUFFICES ASSUME NEW t \in Sources, NEW i \in 1..Len(turns'[t])
               PROVE  \/ i \in 1..Len(turns[t]) /\ turns'[t][i] = turns[t][i]
                      \/ t = s /\ i = n + 1 /\ turns'[t][i] = r
    OBVIOUS
  <2>1. CASE t # s
    BY <2>1, <1>6
  <2>2. CASE t = s
    <3>1. i \in 1..n \/ i = n + 1
      BY <2>2, <1>1, <1>7
    <3> QED
      BY <2>2, <3>1, <1>7 DEF n
  <2> QED
    BY <2>1, <2>2
<1>13. QueueIsOfWaiters'
  <2>1. \A t \in Sources : \A i \in 1..Len(turns'[t]) :
          /\ request'[turns'[t][i]].at \in {"limiter", "sleeping"}
          /\ request'[turns'[t][i]].ask.source = t
    <3> SUFFICES ASSUME NEW t \in Sources, NEW i \in 1..Len(turns'[t])
                 PROVE  /\ request'[turns'[t][i]].at \in {"limiter", "sleeping"}
                        /\ request'[turns'[t][i]].ask.source = t
      OBVIOUS
    <3>1. CASE i \in 1..Len(turns[t]) /\ turns'[t][i] = turns[t][i]
      <4>1. request'[turns[t][i]] = request[turns[t][i]]
        BY <3>1, <1>8, <1>10
      <4> QED
        BY <3>1, <4>1, <1>10 DEF Waiting, Source
    <3>2. CASE t = s /\ i = n + 1 /\ turns'[t][i] = r
      BY <3>2, <1>9 DEF Waiting, Source
    <3> QED
      BY <3>1, <3>2, <1>12
  <2>2. \A t \in Sources : \A i, k \in 1..Len(turns'[t]) : turns'[t][i] = turns'[t][k] => i = k
    <3> SUFFICES ASSUME NEW t \in Sources, NEW i \in 1..Len(turns'[t]),
                        NEW k \in 1..Len(turns'[t]), turns'[t][i] = turns'[t][k]
                 PROVE  i = k
      OBVIOUS
    <3>1. CASE t # s
      BY <3>1, <1>6 DEF RunnerInv, LimiterInv, QueueIsOfWaiters
    <3>2. CASE t = s
      <4>1. (i \in 1..n \/ i = n + 1) /\ (k \in 1..n \/ k = n + 1)
        BY <3>2, <1>1, <1>7
      <4>2. \A a, b \in 1..n : turns[s][a] = turns[s][b] => a = b
        BY <1>1 DEF RunnerInv, LimiterInv, QueueIsOfWaiters, n
      <4> QED
        BY <3>2, <4>1, <4>2, <1>7, <1>10
    <3> QED
      BY <3>1, <3>2
  <2>3. \A p \in Requests : Waiting(p)' =>
          \E i \in 1..Len(turns'[Source(p)']) : turns'[Source(p)'][i] = p
    <3> SUFFICES ASSUME NEW p \in Requests, Waiting(p)'
                 PROVE  \E i \in 1..Len(turns'[Source(p)']) : turns'[Source(p)'][i] = p
      OBVIOUS
    <3>1. CASE p = r
      <4>1. n + 1 \in 1..Len(turns'[s])
        BY <1>1, <1>7
      <4> QED
        BY <3>1, <4>1, <1>7, <1>9
    <3>2. CASE p # r
      <4>1. Waiting(p) /\ Source(p)' = Source(p)
        BY <3>2, <1>8
      <4>2. PICK i \in 1..Len(turns[Source(p)]) : turns[Source(p)][i] = p
        BY <4>1 DEF RunnerInv, LimiterInv, QueueIsOfWaiters
      <4>3. CASE Source(p) # s
        <5>1. Source(p) \in Sources
          BY <4>1, Fields DEF Waiting, RunnerInv
        <5> QED
          BY <4>1, <4>2, <4>3, <5>1, <1>6
      <4>4. CASE Source(p) = s
        <5>1. i \in 1..n /\ i \in 1..Len(turns'[s])
          BY <4>2, <4>4, <1>1, <1>7 DEF n
        <5> QED
          BY <4>1, <4>2, <4>4, <5>1, <1>7
      <4> QED
        BY <4>3, <4>4
    <3> QED
      BY <3>1, <3>2
  <2> QED
    BY <2>1, <2>2, <2>3 DEF QueueIsOfWaiters, Waiting, Source
<1>14. SleeperIsNext'
  <2> SUFFICES ASSUME NEW p \in Requests, request'[p].at = "sleeping"
               PROVE  /\ turns'[Source(p)'] # <<>> /\ Head(turns'[Source(p)']) = p
                      /\ request'[p].wake = lastCall[Source(p)'] + MinInterval
    BY <1>5 DEF SleeperIsNext, HasSemaphore
  <2>1. /\ p # r /\ request'[p] = request[p] /\ Source(p)' = Source(p)
        /\ Source(p) \in Sources /\ request[p].at = "sleeping"
    BY <1>3, <1>4, Fields DEF Source, RunnerInv
  <2>2. /\ turns[Source(p)] # <<>> /\ Head(turns[Source(p)]) = p
        /\ request[p].wake = lastCall[Source(p)] + MinInterval
    BY <2>1 DEF RunnerInv, LimiterInv, SleeperIsNext, HasSemaphore
  <2>3. CASE Source(p) # s
    BY <2>1, <2>2, <2>3, <1>6
  <2>4. CASE Source(p) = s
    <3>1. turns[s][1] = p /\ n > 0
      BY <1>1, <2>2, <2>4, Callers DEF RunnerInv, n
    <3>2. 1 \in 1..n
      BY <3>1, <1>1
    <3> QED
      BY <2>1, <2>2, <2>4, <3>1, <3>2, <1>7
  <2> QED
    BY <2>3, <2>4
<1>15. LastCallIsLatest'
  BY <1>5, <1>8 DEF RunnerInv, LimiterInv, LastCallIsLatest
<1>16. CallsKeepTheirDistance'
  BY <1>8 DEF RunnerInv, LimiterInv, CallsKeepTheirDistance
<1>17. QueueMoves'
  <2> SUFFICES ASSUME NEW t \in Sources, NEW i \in 1..Len(turns'[t])
               PROVE  LET q == request'[turns'[t][i]]
                      IN  /\ clock + Times(i) <= q.queued + Times(q.ahead + 1) + MinInterval
                          /\ lastCall[t] + Times(i) <= q.queued + Times(q.ahead + 1)
    BY <1>5 DEF QueueMoves
  <2>1. CASE i \in 1..Len(turns[t]) /\ turns'[t][i] = turns[t][i]
    <3>1. request'[turns[t][i]] = request[turns[t][i]]
      BY <2>1, <1>8, <1>10
    <3> QED
      BY <2>1, <3>1 DEF RunnerInv, LimiterInv, QueueMoves
  <2>2. CASE t = s /\ i = n + 1 /\ turns'[t][i] = r
    <3>1. lastCall[s] <= clock /\ lastCall[s] \in Int
      BY <1>1 DEF RunnerInv, RunnerTypeOK, LimiterInv, LastCallIsLatest
    <3>2. Times(n) \in Nat /\ Times(n + 1) = Times(n) + MinInterval /\ MinInterval \in Nat
      BY <1>1, Intervals, TimesType, OneMore
    <3>3. /\ clock + Times(n + 1) <= clock + Times(n + 1) + MinInterval
          /\ lastCall[s] + Times(n + 1) <= clock + Times(n + 1)
      BY <1>1, <3>1, <3>2
    <3> QED
      BY <2>2, <3>3, <1>3, <1>4
  <2> QED
    BY <2>1, <2>2, <1>12
<1>18. CacheInv'
  BY <1>1, <1>2, <1>3, <1>5, AnswersStay
<1> QED
  BY <1>11, <1>13, <1>14, <1>15, <1>16, <1>17, <1>18 DEF RunnerInv, LimiterInv

LEMMA LeavingTheQueue ==
  ASSUME RunnerTypeOK, NEW s \in Sources, turns[s] # <<>>
  PROVE  LET q == Tail(turns[s])
         IN  /\ q \in Seq(Requests) /\ Len(q) = Len(turns[s]) - 1
             /\ \A i \in 1..Len(q) : q[i] = turns[s][i + 1]
<1>1. turns[s] \in Seq(Requests)
  BY Callers
<1> QED
  BY <1>1, HeadTailProperties

\* Who was in time before the caller in front left is in time after it.
LEMMA InTimeAfterATurn ==
  ASSUME NEW c \in Int, NEW t \in Int, NEW u \in Int, NEW limit \in Int, NEW moment \in Int,
         NEW m \in Nat, u = t + m, c + u <= moment + limit + m
  PROVE  c + t <= moment + limit + m /\ c + t <= moment + limit
OBVIOUS

LEMMA DepartStep ==
  ASSUME RunnerInv, NEW r \in Requests, Depart(r)
  PROVE  RunnerInv'
<1> DEFINE s == Source(r)
           n == Len(turns[s])
           x == [at |-> "running", ask |-> request[r].ask, called |-> clock]
<1>1. /\ request[r].at = "sleeping" /\ request[r].ask \in Inquiries /\ s \in Sources
      /\ clock \in Nat /\ n \in Nat /\ Waiting(r) /\ lastCall[s] \in Int
  BY Fields, Callers DEF Depart, Waiting, RunnerInv, RunnerTypeOK
<1>2. x \in RequestStates
  BY <1>1 DEF RequestStates
<1>3. Becomes(r, x) /\ x.at = "running" /\ x.ask = request[r].ask /\ x.called = clock
  BY DEF Depart
<1> HIDE DEF x
<1>4. /\ request'[r] = x
      /\ \A p \in Requests : p # r => request'[p] = request[p]
      /\ request' \in [Requests -> RequestStates]
  BY <1>2, <1>3, OneCallMoves DEF RunnerInv
<1>5. clock' = clock /\ connCache' = connCache
  BY DEF Depart
<1>6. /\ turns'[s] = Tail(turns[s]) /\ lastCall'[s] = clock
      /\ \A t \in Sources : t # s => turns'[t] = turns[t] /\ lastCall'[t] = lastCall[t]
      /\ turns' = [turns EXCEPT ![s] = Tail(turns[s])]
      /\ lastCall' = [lastCall EXCEPT ![s] = clock]
  BY <1>1 DEF Depart, RunnerInv, RunnerTypeOK
<1>7. turns[s] # <<>> /\ Head(turns[s]) = r /\ turns[s][1] = r /\ 1 \in 1..n
  <2>1. turns[s] # <<>> /\ Head(turns[s]) = r
    BY <1>1 DEF RunnerInv, LimiterInv, SleeperIsNext, HasSemaphore
  <2>2. n > 0
    BY <1>1, <2>1, Callers DEF RunnerInv
  <2>3. 1 \in 1..n
    BY <1>1, <2>2
  <2> QED
    BY <1>1, <2>1, <2>3, Callers DEF RunnerInv
<1>8. /\ turns'[s] \in Seq(Requests) /\ Len(turns'[s]) = n - 1
      /\ \A i \in 1..Len(turns'[s]) : turns'[s][i] = turns[s][i + 1]
  BY <1>1, <1>6, <1>7, LeavingTheQueue DEF RunnerInv
<1>9. /\ \A p \in Requests : Waiting(p)' <=> Waiting(p) /\ p # r
      /\ \A p \in Requests : Waiting(p)' => request'[p] = request[p] /\ Source(p)' = Source(p)
      /\ \A p \in Requests : HasCalled(p)' => HasCalled(p) \/ p = r
      /\ \A p \in Requests :
           HasCalled(p) => p # r /\ request'[p] = request[p] /\ Source(p)' = Source(p)
      /\ Source(r)' = s /\ request'[r].called = clock
  BY <1>1, <1>3, <1>4 DEF Waiting, HasCalled, Source
<1>10. /\ \A t \in Sources : \A i \in 1..Len(turns[t]) :
            turns[t][i] \in Requests /\ Waiting(turns[t][i]) /\ Source(turns[t][i]) = t
       /\ \A i, k \in 1..n : turns[s][i] = turns[s][k] => i = k
  BY <1>1, Callers DEF RunnerInv, LimiterInv, QueueIsOfWaiters
<1> HIDE DEF s, n
<1>11. RunnerTypeOK'
  BY <1>1, <1>4, <1>5, <1>6, <1>8 DEF RunnerInv, RunnerTypeOK
\* Who is still in the queue is as before, one place nearer if the queue is r's.
<1>12. ASSUME NEW t \in Sources, NEW i \in 1..Len(turns'[t])
       PROVE  /\ turns'[t][i] \in Requests /\ turns'[t][i] # r
              /\ request'[turns'[t][i]] = request[turns'[t][i]]
              /\ request[turns'[t][i]].at \in {"limiter", "sleeping"}
              /\ request[turns'[t][i]].ask.source = t
              /\ t # s => i \in 1..Len(turns[t]) /\ turns'[t][i] = turns[t][i]
              /\ t = s => i + 1 \in 1..n /\ turns'[t][i] = turns[s][i + 1]
  <2>1. /\ t # s => i \in 1..Len(turns[t]) /\ turns'[t][i] = turns[t][i]
        /\ t = s => i + 1 \in 1..n /\ i + 1 # 1 /\ turns'[t][i] = turns[s][i + 1]
    <3>1. CASE t # s
      BY <3>1, <1>6
    <3>2. CASE t = s
      <4>1. i \in 1..(n - 1) /\ turns'[s][i] = turns[s][i + 1]
        BY <3>2, <1>8
      <4>2. i + 1 \in 1..n /\ i + 1 # 1
        BY <4>1, <1>1
      <4> QED
        BY <3>2, <4>1, <4>2
    <3> QED
      BY <3>1, <3>2
  <2>2. /\ turns'[t][i] \in Requests /\ Waiting(turns'[t][i]) /\ Source(turns'[t][i]) = t
        /\ turns'[t][i] # r
    <3>1. CASE t # s
      <4>1. turns'[t][i] = turns[t][i] /\ turns[t][i] \in Requests /\ Waiting(turns[t][i])
              /\ Source(turns[t][i]) = t
        BY <3>1, <2>1, <1>10
      <4> QED
        BY <3>1, <4>1 DEF s
    <3>2. CASE t = s
      <4>1. turns'[t][i] = turns[s][i + 1] /\ turns[s][i + 1] \in Requests
              /\ Waiting(turns[s][i + 1]) /\ Source(turns[s][i + 1]) = s
        BY <3>2, <2>1, <1>1, <1>10 DEF n
      <4>2. turns[s][i + 1] # r
        BY <3>2, <2>1, <1>7, <1>10
      <4> QED
        BY <3>2, <4>1, <4>2
    <3> QED
      BY <3>1, <3>2
  <2>3. request'[turns'[t][i]] = request[turns'[t][i]]
    BY <2>2, <1>4
  <2> QED
    BY <2>1, <2>2, <2>3 DEF Waiting, Source
<1>13. QueueIsOfWaiters'
  <2>1. \A t \in Sources : \A i \in 1..Len(turns'[t]) :
          /\ request'[turns'[t][i]].at \in {"limiter", "sleeping"}
          /\ request'[turns'[t][i]].ask.source = t
    BY <1>12
  <2>2. \A t \in Sources : \A i, k \in 1..Len(turns'[t]) : turns'[t][i] = turns'[t][k] => i = k
    <3> SUFFICES ASSUME NEW t \in Sources, NEW i \in 1..Len(turns'[t]),
                        NEW k \in 1..Len(turns'[t]), turns'[t][i] = turns'[t][k]
                 PROVE  i = k
      OBVIOUS
    <3>1. CASE t # s
      BY <3>1, <1>6 DEF RunnerInv, LimiterInv, QueueIsOfWaiters
    <3>2. CASE t = s
      <4>1. /\ i + 1 \in 1..n /\ turns'[t][i] = turns[s][i + 1]
            /\ k + 1 \in 1..n /\ turns'[t][k] = turns[s][k + 1]
        BY <3>2, <1>12
      <4>2. i + 1 = k + 1
        BY <4>1, <1>10
      <4> QED
        BY <4>2, <1>8, <3>2
    <3> QED
      BY <3>1, <3>2
  <2>3. \A p \in Requests : Waiting(p)' =>
          \E i \in 1..Len(turns'[Source(p)']) : turns'[Source(p)'][i] = p
    <3> SUFFICES ASSUME NEW p \in Requests, Waiting(p)'
                 PROVE  \E i \in 1..Len(turns'[Source(p)']) : turns'[Source(p)'][i] = p
      OBVIOUS
    <3>1. Waiting(p) /\ Source(p)' = Source(p) /\ p # r
      BY <1>9
    <3>2. PICK i \in 1..Len(turns[Source(p)]) : turns[Source(p)][i] = p
      BY <3>1 DEF RunnerInv, LimiterInv, QueueIsOfWaiters
    <3>3. CASE Source(p) # s
      <4>1. Source(p) \in Sources
        BY <3>1, Fields DEF Waiting, RunnerInv
      <4> QED
        BY <3>1, <3>2, <3>3, <4>1, <1>6
    <3>4. CASE Source(p) = s
      <4>1. i \in 1..n /\ i # 1
        BY <3>1, <3>2, <3>4, <1>7 DEF n
      <4>2. i - 1 \in 1..Len(turns'[s]) /\ (i - 1) + 1 = i
        BY <4>1, <1>1, <1>8
      <4>3. turns'[s][i - 1] = turns[s][i]
        BY <4>2, <1>8
      <4> QED
        BY <3>1, <3>2, <3>4, <4>2, <4>3
    <3> QED
      BY <3>3, <3>4
  <2> QED
    BY <2>1, <2>2, <2>3 DEF QueueIsOfWaiters, Waiting, Source
<1>14. SleeperIsNext'
  <2> SUFFICES ASSUME NEW p \in Requests, request'[p].at = "sleeping"
               PROVE  /\ turns'[Source(p)'] # <<>> /\ Head(turns'[Source(p)']) = p
                      /\ request'[p].wake = lastCall'[Source(p)'] + MinInterval
    BY DEF SleeperIsNext, HasSemaphore
  <2>1. /\ p # r /\ request'[p] = request[p] /\ Source(p)' = Source(p)
        /\ Source(p) \in Sources /\ request[p].at = "sleeping"
    BY <1>3, <1>4, Fields DEF Source, RunnerInv
  <2>2. /\ turns[Source(p)] # <<>> /\ Head(turns[Source(p)]) = p
        /\ request[p].wake = lastCall[Source(p)] + MinInterval
    BY <2>1 DEF RunnerInv, LimiterInv, SleeperIsNext, HasSemaphore
  <2>3. Source(p) # s
    BY <2>1, <2>2, <1>7
  <2> QED
    BY <2>1, <2>2, <2>3, <1>6
<1>15. LastCallIsLatest'
  <2>1. \A t \in Sources : lastCall[t] <= clock
    BY DEF RunnerInv, LimiterInv, LastCallIsLatest
  <2>2. \A t \in Sources : lastCall'[t] <= clock'
    <3> SUFFICES ASSUME NEW t \in Sources PROVE lastCall'[t] <= clock
      BY <1>5
    <3>1. CASE t = s
      BY <3>1, <1>1, <1>6
    <3>2. CASE t # s
      BY <3>2, <1>6, <2>1
    <3> QED
      BY <3>1, <3>2
  <2>3. ASSUME NEW p \in Requests, HasCalled(p)'
        PROVE  request'[p].called <= lastCall'[Source(p)']
    <3>1. CASE p = r
      BY <3>1, <1>1, <1>6, <1>9
    <3>2. CASE p # r
      <4>1. HasCalled(p) /\ request'[p] = request[p] /\ Source(p)' = Source(p)
        BY <2>3, <3>2, <1>9
      <4>2. Source(p) \in Sources /\ request[p].called \in Nat
        BY <4>1, Fields DEF HasCalled, RunnerInv
      <4>3. request[p].called <= lastCall[Source(p)] /\ lastCall[Source(p)] \in Int
        BY <4>1, <4>2 DEF RunnerInv, RunnerTypeOK, LimiterInv, LastCallIsLatest
      <4>4. CASE Source(p) # s
        BY <4>1, <4>2, <4>3, <4>4, <1>6
      <4>5. CASE Source(p) = s
        <5>1. lastCall[s] <= clock /\ request[p].called <= lastCall[s]
          BY <4>3, <4>5, <1>1, <2>1
        <5>2. request[p].called <= clock
          BY <4>2, <5>1, <1>1
        <5> QED
          BY <4>1, <4>5, <5>2, <1>6
      <4> QED
        BY <4>4, <4>5
    <3> QED
      BY <3>1, <3>2
  <2> QED
    BY <2>2, <2>3 DEF LastCallIsLatest
<1>16. CallsKeepTheirDistance'
  <2>1. ASSUME NEW p \in Requests, HasCalled(p), Source(p) = s
        PROVE  clock >= request[p].called + MinInterval
    <3>1. request[r].wake = lastCall[s] + MinInterval /\ clock >= request[r].wake
      BY <1>1 DEF Depart, RunnerInv, LimiterInv, SleeperIsNext, s
    <3>2. request[p].called <= lastCall[s] /\ request[p].called \in Nat
      BY <2>1, Fields DEF RunnerInv, LimiterInv, LastCallIsLatest
    <3>3. MinInterval \in Nat /\ clock >= lastCall[s] + MinInterval
      BY <3>1, Intervals
    <3> QED
      BY <3>2, <3>3, <1>1
  <2> SUFFICES ASSUME NEW p \in Requests, NEW q \in Requests, p # q,
                      HasCalled(p)', HasCalled(q)', Source(p)' = Source(q)'
               PROVE  \/ request'[p].called >= request'[q].called + MinInterval
                      \/ request'[q].called >= request'[p].called + MinInterval
    BY DEF CallsKeepTheirDistance
  <2>2. CASE p = r
    BY <2>1, <2>2, <1>9
  <2>3. CASE q = r
    BY <2>1, <2>3, <1>9
  <2>4. CASE p # r /\ q # r
    BY <2>4, <1>9 DEF RunnerInv, LimiterInv, CallsKeepTheirDistance
  <2> QED
    BY <2>2, <2>3, <2>4
<1>17. QueueMoves'
  <2> SUFFICES ASSUME NEW t \in Sources, NEW i \in 1..Len(turns'[t])
               PROVE  LET q == request'[turns'[t][i]]
                      IN  /\ clock + Times(i) <= q.queued + Times(q.ahead + 1) + MinInterval
                          /\ lastCall'[t] + Times(i) <= q.queued + Times(q.ahead + 1)
    BY <1>5 DEF QueueMoves
  <2>1. CASE t # s
    BY <2>1, <1>6, <1>12 DEF RunnerInv, LimiterInv, QueueMoves
  <2>2. CASE t = s
    <3>1. PICK q \in Requests : q = turns'[t][i]
      BY <1>12
    <3>2. /\ q = turns[s][i + 1] /\ i + 1 \in 1..n /\ request'[q] = request[q] /\ Waiting(q)
      BY <2>2, <3>1, <1>12 DEF Waiting
    <3>3. request[q].queued \in Nat /\ request[q].ahead + 1 \in Nat /\ i \in Nat
      BY <3>2, Fields DEF RunnerInv
    <3>4. clock + Times(i + 1) <= request[q].queued + Times(request[q].ahead + 1) + MinInterval
      BY <3>2, <1>1 DEF RunnerInv, LimiterInv, QueueMoves, n
    <3>5. /\ Times(i) \in Nat /\ Times(i + 1) = Times(i) + MinInterval /\ MinInterval \in Nat
          /\ Times(request[q].ahead + 1) \in Nat
      <4>1. Times(i) \in Nat /\ Times(i + 1) = Times(i) + MinInterval /\ MinInterval \in Nat
        BY <3>3, Intervals, TimesType, OneMore
      <4>2. Times(request[q].ahead + 1) \in Nat
        BY <3>3, TimesType, Zenon
      <4> QED
        BY <4>1, <4>2
    <3>6. /\ clock + Times(i) <= request[q].queued + Times(request[q].ahead + 1) + MinInterval
          /\ clock + Times(i) <= request[q].queued + Times(request[q].ahead + 1)
      <4>1. /\ clock \in Int /\ Times(i) \in Int /\ Times(i + 1) \in Int
            /\ request[q].queued \in Int /\ Times(request[q].ahead + 1) \in Int
        BY <1>1, <3>3, <3>5
      <4>2. Times(i + 1) = Times(i) + MinInterval /\ MinInterval \in Nat
        BY <3>5
      <4> QED
        BY <4>1, <4>2, <3>4, InTimeAfterATurn
    <3> QED
      BY <2>2, <3>1, <3>2, <3>6, <1>6
  <2> QED
    BY <2>1, <2>2
<1>18. CacheInv'
  BY <1>1, <1>2, <1>3, <1>5, AnswersStay
<1> QED
  BY <1>11, <1>13, <1>14, <1>15, <1>16, <1>17, <1>18 DEF RunnerInv, LimiterInv

LEMMA StepIsSound ==
  ASSUME RunnerInv, [RunnerNext]_runnerVars
  PROVE  RunnerInv'
<1>1. CASE ClockTick
  BY <1>1, ClockTickStep
<1>2. ASSUME NEW r \in Requests, RunnerStep(r)
      PROVE  RunnerInv'
  BY <1>2, CallRunnerStep, CacheHitStep, CacheMissStep, AcquireStep, DepartStep,
     ConnectorAnswersStep, TimeOutStep, StoreResultStep DEF RunnerStep
<1>3. CASE UNCHANGED runnerVars
  <2>1. /\ clock' = clock /\ request' = request /\ turns' = turns
        /\ lastCall' = lastCall /\ connCache' = connCache
    BY <1>3 DEF runnerVars
  <2>2. RunnerTypeOK'
    BY <2>1 DEF RunnerInv, RunnerTypeOK
  <2>3. LimiterInv'
    BY <2>1 DEF RunnerInv, LimiterInv, QueueIsOfWaiters, SleeperIsNext, LastCallIsLatest,
       QueueMoves, CallsKeepTheirDistance, Waiting, Source, HasSemaphore, HasCalled
  <2>4. CacheInv'
    BY <2>1 DEF RunnerInv, CacheInv, CacheHoldsAnswers, HitsAreFreshVerdicts, KeyOf
  <2> QED
    BY <2>2, <2>3, <2>4 DEF RunnerInv
<1> QED
  BY <1>1, <1>2, <1>3 DEF RunnerNext

\* The types, the queues and what the cache holds, in every state that the runner,
\* its limiter and its cache reach.
THEOREM RunnerInvariance == RunnerSpec => []RunnerInv
<1>1. RunnerInit => RunnerInv
  BY InitIsSound
<1>2. RunnerInv /\ [RunnerNext]_runnerVars => RunnerInv'
  BY StepIsSound
<1> QED
  BY <1>1, <1>2, PTL DEF RunnerSpec

-----------------------------------------------------------------------------
(***************************************************************************)
(* What the invariant says of the callers.                                 *)
(***************************************************************************)

LEMMA PlacesTakeTime ==
  ASSUME NEW i \in Nat, i > 0
  PROVE  Times(i) \in Nat /\ Times(i) >= MinInterval
<1>1. i - 1 \in Nat /\ (i - 1) + 1 = i
  OBVIOUS
<1>2. Times(i - 1) \in Nat /\ Times(i) = Times(i - 1) + MinInterval /\ MinInterval \in Nat
  BY <1>1, Intervals, TimesType, OneMore
<1> QED
  BY <1>2

LEMMA WaitIsShort ==
  ASSUME NEW c \in Int, NEW t \in Int, NEW moment \in Int, NEW limit \in Int, NEW m \in Int,
         t >= m, c + t <= moment + limit + m
  PROVE  c - moment <= limit
OBVIOUS

LEMMA QueueMovesInTime == RunnerInv => TurnsComeInTime
<1> SUFFICES ASSUME RunnerInv, NEW r \in Requests, request[r].at \in {"limiter", "sleeping"}
             PROVE  clock - request[r].queued <= Times(request[r].ahead + 1)
  BY DEF TurnsComeInTime, Times
<1>1. /\ Source(r) \in Sources /\ request[r].queued \in Nat /\ request[r].ahead + 1 \in Nat
  BY Fields DEF Waiting, RunnerInv
<1>2. PICK i \in 1..Len(turns[Source(r)]) : turns[Source(r)][i] = r
  BY DEF Waiting, RunnerInv, LimiterInv, QueueIsOfWaiters
<1>3. clock + Times(i) <= request[r].queued + Times(request[r].ahead + 1) + MinInterval
  BY <1>1, <1>2 DEF RunnerInv, LimiterInv, QueueMoves
<1>4. i \in Nat /\ i > 0
  BY <1>1, <1>2, Callers DEF RunnerInv
<1>5. Times(i) \in Int /\ Times(i) >= MinInterval
  BY <1>4, PlacesTakeTime
<1>6. /\ clock \in Int /\ MinInterval \in Int /\ request[r].queued \in Int
      /\ Times(request[r].ahead + 1) \in Int
  <2>1. clock \in Int /\ MinInterval \in Int
    BY Intervals DEF RunnerInv, RunnerTypeOK
  <2>2. request[r].queued \in Int
    BY <1>1
  <2>3. Times(request[r].ahead + 1) \in Nat
    BY <1>1, TimesType, Zenon
  <2> QED
    BY <2>1, <2>2, <2>3
<1> QED
  BY <1>3, <1>5, <1>6, WaitIsShort

\* Two calls of a source start at least the interval apart, no caller of the
\* limiter waits longer than an interval for itself and for each caller before
\* it, and what comes from the cache is a fresh verdict on the same target.
THEOREM CallsAreSound == RunnerSpec => []ConcurrentCallsAreSound
<1>1. RunnerInv => ConcurrentCallsAreSound
  BY QueueMovesInTime DEF ConcurrentCallsAreSound, RunnerInv, LimiterInv, CacheInv
<1> QED
  BY <1>1, RunnerInvariance, PTL

-----------------------------------------------------------------------------
(***************************************************************************)
(* The search form and the scan box.                                       *)
(***************************************************************************)
FormTypeOK ==
  /\ activeCat \in DOMAIN CATEGORIES
  /\ box = [l \in DOMAIN box |-> box[l]]
  /\ named = [once |-> named.once, again |-> named.again]
  /\ engine \in {"legacy", "v2"}

\* While the chips are those of the first category the default modules may be
\* selected unlit; the page remembers the rows of the running search and those of
\* earlier ones, which the v2 engine forgets.
FormInv ==
  /\ FormTypeOK
  /\ ~chosen => DefaultMods \subseteq CATEGORIES[activeCat]
  /\ moduleRows = named.once \cup before
  /\ engine = "v2" => before = {}
  /\ FormFollowsTheSearch


LEMMA FormInitially == FormInit => FormInv
<1> SUFFICES ASSUME FormInit PROVE FormInv
  OBVIOUS
<1>1. FormTypeOK
  BY SearchFormAssumption DEF FormInit, FormTypeOK, NoRows
<1>2. ~chosen => DefaultMods \subseteq CATEGORIES[activeCat]
  BY SearchFormAssumption DEF FormInit
<1>3. moduleRows = named.once \cup before /\ (engine = "v2" => before = {})
  BY DEF FormInit
<1>4. ChipsShowTheSelection
  BY DEF FormInit, ChipsShowTheSelection
<1>5. ScanFollowsTheSearch
  BY DEF FormInit, ScanFollowsTheSearch, NoRows
<1> QED
  BY <1>1, <1>2, <1>3, <1>4, <1>5 DEF FormInv, FormFollowsTheSearch

\* The chips.
LEMMA ChipsKeepShowing ==
  ASSUME FormInv, UNCHANGED scanVars,
         \/ \E m \in {"auto", "manual"} : SetMode(m)
         \/ \E c \in DOMAIN CATEGORIES : SelectCat(c)
         \/ \E m \in UNION {CATEGORIES[c] : c \in DOMAIN CATEGORIES} : ToggleMod(m)
  PROVE  FormInv'
<1>1. /\ activeCat' \in DOMAIN CATEGORIES
      /\ ~chosen' => DefaultMods \subseteq CATEGORIES[activeCat']
      /\ ChipsShowTheSelection'
  <2>1. CASE \E m \in {"auto", "manual"} : SetMode(m)
    BY <2>1 DEF SetMode, FormInv, FormTypeOK, FormFollowsTheSearch, ChipsShowTheSelection
  <2>2. CASE \E c \in DOMAIN CATEGORIES : SelectCat(c)
    BY <2>2 DEF SelectCat, ChipsShowTheSelection
  <2>3. ASSUME NEW m, ToggleMod(m)
        PROVE  /\ activeCat' \in DOMAIN CATEGORIES
               /\ ~chosen' => DefaultMods \subseteq CATEGORIES[activeCat']
               /\ ChipsShowTheSelection'
    BY <2>3 DEF ToggleMod, Toggled, LitAfter, FormInv, FormTypeOK, FormFollowsTheSearch,
                ChipsShowTheSelection
  <2> QED
    BY <2>1, <2>2, <2>3
<1> QED
  BY <1>1 DEF FormInv, FormTypeOK, FormFollowsTheSearch, ScanFollowsTheSearch, scanVars

\* The scan box.
LEMMA RowsStayInStep ==
  ASSUME FormInv, UNCHANGED formVars, ScanNext
  PROVE  FormInv'
<1> USE DEF FormInv, FormTypeOK, FormFollowsTheSearch, ScanFollowsTheSearch
<1>1. ChipsShowTheSelection'
  BY DEF ChipsShowTheSelection, formVars
<1>2. CASE BeginScan
  BY <1>1, <1>2 DEF BeginScan, RowsAfterReset, NoRows, formVars
<1>3. ASSUME NEW l, MarkModuleDone(l) PROVE FormInv'
  BY <1>1, <1>3 DEF MarkModuleDone, formVars
<1>4. ASSUME NEW l, NEW s, AddModuleRow(l, s), l \in moduleRows PROVE FormInv'
  BY <1>1, <1>4 DEF AddModuleRow, formVars
<1>5. ASSUME NEW l, NEW s, AddModuleRow(l, s), l \notin moduleRows PROVE FormInv'
  <2>1. /\ box' = [k \in DOMAIN box \cup {l} |->
                    IF k = l THEN s ELSE OthersAreDone(box)[k]]
        /\ moduleRows' = moduleRows \cup {l} /\ last' = l
        /\ named' = [once |-> named.once \cup {l},
                     again |-> named.again \cup ({l} \cap named.once)]
        /\ UNCHANGED <<formVars, engine, before>>
    BY <1>5 DEF AddModuleRow
  <2>2. \A k \in DOMAIN box : OthersAreDone(box)[k] # "active"
    BY DEF OthersAreDone
  <2>3. \A k \in DOMAIN box' : box'[k] = "active" => k = last'
    BY <2>1, <2>2
  <2>4. DOMAIN box' = named'.once \ before' /\ box' = [k \in DOMAIN box' |-> box'[k]]
    BY <1>5, <2>1
  <2> QED
    BY <1>1, <2>1, <2>3, <2>4 DEF formVars
<1> QED
  BY <1>2, <1>3, <1>4, <1>5 DEF ScanNext

\* The chips show what is selected, and the scan box shows what the running search
\* has named, whatever searches of either engine went before.
THEOREM FormInvariance == FormSpec => []FormFollowsTheSearch
<1>1. FormInit => FormInv
  BY FormInitially
<1>2. FormInv /\ [FormNext \/ ScanNext]_<<formVars, scanVars>> => FormInv'
  <2> SUFFICES ASSUME FormInv, [FormNext \/ ScanNext]_<<formVars, scanVars>> PROVE FormInv'
    OBVIOUS
  <2>1. CASE UNCHANGED scanVars /\ FormNext /\ ~BeginScan
    BY <2>1, ChipsKeepShowing DEF FormNext
  <2>2. CASE ScanNext
    <3>1. UNCHANGED formVars
      BY <2>2 DEF ScanNext, BeginScan, MarkModuleDone, AddModuleRow
    <3> QED
      BY <2>2, <3>1, RowsStayInStep
  <2>3. CASE UNCHANGED <<formVars, scanVars>>
    BY <2>3 DEF formVars, scanVars, FormInv, FormTypeOK, FormFollowsTheSearch,
                ChipsShowTheSelection, ScanFollowsTheSearch
  <2>4. FormNext => UNCHANGED scanVars \/ BeginScan
    BY DEF FormNext, SetMode, SelectCat, ToggleMod
  <2> QED
    BY <2>1, <2>2, <2>3, <2>4 DEF ScanNext
<1>3. FormInv => FormFollowsTheSearch
  BY DEF FormInv
<1> QED
  BY <1>1, <1>2, <1>3, PTL DEF FormSpec

-----------------------------------------------------------------------------
(***************************************************************************)
(* The evidence drawer.                                                    *)
(***************************************************************************)
\* The shell of a drawer, for a card of this list or an earlier one.
Shells ==
  [card : [kind : {"card"}, at : Connectors, of : Nat], rows : {"none available", "listed"}]

\* The cards on the page have the evidence of the results; a drawer is of a list
\* that has been drawn, and while that list is on the page it shows its evidence.
DrawerInv ==
  /\ listing \in Nat
  /\ results = [c \in Connectors |-> results[c]]
  /\ \A c \in Connectors : results[c].evidence \in Nat
  /\ DOMAIN cardsShown \subseteq Connectors
  /\ \A c \in DOMAIN cardsShown : cardsShown[c].evidence = results[c].evidence
  /\ drawers \in Seq(Shells)
  /\ \A i \in DOMAIN drawers : drawers[i].card.of <= listing
  /\ OneDrawer

LEMMA DrawerInitially == DrawerInit => DrawerInv
<1> SUFFICES ASSUME DrawerInit PROVE DrawerInv
  OBVIOUS
<1>1. drawers \in Seq(Shells) /\ Len(drawers) = 0 /\ DOMAIN drawers = {}
  BY EmptySeq, LenProperties DEF DrawerInit
<1> QED
  BY <1>1 DEF DrawerInit, DrawerInv, NoResultYet, OneDrawer

\* A new list leaves the drawer where it is, over cards that are gone.
LEMMA ResultKeepsTheDrawer == DrawerInv /\ ResultArrives => DrawerInv'
<1> SUFFICES ASSUME DrawerInv, ResultArrives PROVE DrawerInv'
  OBVIOUS
<1>1. PICK c \in Connectors, r \in Reports : results' = [results EXCEPT ![c] = r]
  BY DEF ResultArrives
<1>2. /\ results' = [d \in Connectors |-> results'[d]]
      /\ \A d \in Connectors : results'[d].evidence \in Nat
  BY <1>1, EvidenceDrawerAssumption DEF DrawerInv
<1>3. listing' = listing + 1 /\ UNCHANGED drawers
  BY DEF ResultArrives, DrawList
<1>4. /\ DOMAIN cardsShown' \subseteq Connectors
      /\ \A d \in DOMAIN cardsShown' : cardsShown'[d].evidence = results'[d].evidence
  BY DEF ResultArrives, DrawList, Card
<1>5. \A i \in DOMAIN drawers' : drawers'[i].card.of \in Nat /\ drawers'[i].card.of <= listing
  <2> TAKE i \in DOMAIN drawers'
  <2>1. drawers[i] \in Shells
    BY <1>3, ElementOfSeq, LenProperties DEF DrawerInv
  <2> QED
    BY <1>3, <2>1 DEF DrawerInv, Shells
<1>6. \A i \in DOMAIN drawers' : ~Attached(drawers[i].card)'
  BY <1>3, <1>5 DEF Attached, DrawerInv
<1> QED
  BY <1>2, <1>3, <1>4, <1>5, <1>6 DEF DrawerInv, OneDrawer, Attached

\* One drawer takes the place of another.
LEMMA OpeningReplaces ==
  ASSUME DrawerInv, NEW c \in DOMAIN cardsShown, OpenDrawer(c)
  PROVE  DrawerInv' /\ drawers' # <<>>
<1> DEFINE d == [card |-> CardOf(c, listing), rows |-> EvidenceRows(cardsShown[c])]
<1>1. d \in Shells
  BY DEF Shells, CardOf, EvidenceRows, DrawerInv
<1>2. WithoutExisting = <<>>
  <2>1. CASE drawers = <<>>
    BY <2>1 DEF WithoutExisting
  <2>2. CASE drawers # <<>>
    <3>1. Len(drawers) = 1
      <4>1. drawers \in Seq(Shells)
        BY DEF DrawerInv
      <4>3. Len(drawers) <= 1
        BY DEF DrawerInv, OneDrawer
      <4>2. Len(drawers) \in Nat \ {0}
        BY <2>2, <4>1, EmptySeq, Zenon
      <4> QED
        BY <4>3, <4>2
    <3>2. Len(Tail(drawers)) = 0 /\ Tail(drawers) \in Seq(Shells)
      BY <2>2, <3>1, HeadTailProperties DEF DrawerInv
    <3> QED
      BY <2>2, <3>2, EmptySeq DEF WithoutExisting
  <2> QED
    BY <2>1, <2>2
<1>3. drawers' = Append(<<>>, d)
  BY <1>2 DEF OpenDrawer
<1>4. UNCHANGED <<results, listing, cardsShown>>
  BY DEF OpenDrawer
<1>5. d.rows = "listed" <=> results[d.card.at].evidence > 0
  <2>1. /\ d.card.at = c /\ cardsShown[c].evidence = results[c].evidence
        /\ results[c].evidence \in Nat
    BY DEF DrawerInv, CardOf
  <2> QED
    BY <2>1 DEF EvidenceRows
<1>6. d.card.of = listing
  BY DEF CardOf
<1> HIDE DEF d
<1>7. drawers' \in Seq(Shells) /\ Len(drawers') = 1 /\ DOMAIN drawers' = {1} /\ drawers'[1] = d
  <2>1. /\ drawers' \in Seq(Shells) /\ Len(drawers') = 1 /\ drawers'[1] = d
    BY <1>1, <1>3, EmptySeq, AppendProperties
  <2> QED
    BY <2>1, LenProperties
<1>8. \A i \in DOMAIN drawers' :
        /\ drawers'[i].card.of = listing
        /\ drawers'[i].rows = "listed" <=> results[drawers'[i].card.at].evidence > 0
  BY <1>5, <1>6, <1>7
<1>9. drawers' # <<>>
  BY <1>7, EmptySeq
<1>10. OneDrawer'
  BY <1>4, <1>7, <1>8 DEF OneDrawer, Attached
<1>11. \A i \in DOMAIN drawers' : drawers'[i].card.of <= listing'
  BY <1>4, <1>8 DEF DrawerInv
<1> QED
  BY <1>4, <1>7, <1>9, <1>10, <1>11 DEF DrawerInv

\* What is closed is the only drawer.
LEMMA ClosingCloses ==
  ASSUME DrawerInv, NEW i \in DOMAIN drawers, CloseDrawer(i)
  PROVE  DrawerInv' /\ i = 1 /\ drawers' = <<>>
<1>1. Len(drawers) = 1 /\ i = 1
  <2>1. DOMAIN drawers = 1..Len(drawers) /\ Len(drawers) \in Nat /\ Len(drawers) <= 1
    BY LenProperties DEF DrawerInv, OneDrawer
  <2> QED
    BY <2>1
<1>2. drawers' = <<>>
  <2>1. SubSeq(drawers, 1, 0) = <<>> /\ SubSeq(drawers, 2, 1) = <<>>
    BY SubSeqEmpty
  <2> QED
    BY <1>1, <2>1, EmptySeq, ConcatEmptySeq DEF CloseDrawer
<1>3. UNCHANGED <<results, listing, cardsShown>>
  BY DEF CloseDrawer
<1>4. drawers' \in Seq(Shells) /\ Len(drawers') = 0 /\ DOMAIN drawers' = {}
  <2>1. <<>> \in Seq(Shells) /\ Len(<<>>) = 0
    BY EmptySeq
  <2>2. DOMAIN drawers' = 1..0
    BY <1>2, <2>1, LenProperties
  <2> QED
    BY <1>2, <2>1, <2>2
<1>5. OneDrawer'
  BY <1>4 DEF OneDrawer
<1> QED
  BY <1>1, <1>2, <1>3, <1>4, <1>5 DEF DrawerInv

LEMMA DrawerStep == DrawerInv /\ [DrawerNext]_drawerVars => DrawerInv'
<1> SUFFICES ASSUME DrawerInv, [DrawerNext]_drawerVars PROVE DrawerInv'
  OBVIOUS
<1>1. CASE MoveFocus \/ UNCHANGED drawerVars
  BY <1>1 DEF MoveFocus, drawerVars, DrawerInv, OneDrawer, Attached
<1> QED
  BY <1>1, ResultKeepsTheDrawer, OpeningReplaces, ClosingCloses DEF DrawerNext

\* Whatever is opened over an open drawer and whenever the list is drawn anew,
\* there is one drawer, of its card, and closing it gives the card the focus back.
THEOREM DrawerIsSound == DrawerSpec => DrawerReturns
<1>1. DrawerInv /\ [DrawerNext]_drawerVars =>
        [drawers # <<>> /\ drawers' = <<>> /\ Attached(drawers[1].card)
           => focus' = drawers[1].card]_drawerVars
  <2> SUFFICES ASSUME DrawerInv, DrawerNext, drawers # <<>>, drawers' = <<>>,
                      Attached(drawers[1].card)
               PROVE  focus' = drawers[1].card
    OBVIOUS
  <2>1. PICK i \in DOMAIN drawers : CloseDrawer(i)
    <3>1. ~ResultArrives /\ ~MoveFocus
      BY DEF ResultArrives, MoveFocus
    <3>2. ASSUME NEW c \in DOMAIN cardsShown, OpenDrawer(c) PROVE FALSE
      <4> QED
        BY <3>2, OpeningReplaces
    <3> QED
      BY <3>1, <3>2 DEF DrawerNext
  <2>2. i = 1
    BY <2>1, ClosingCloses
  <2> QED
    BY <2>1, <2>2 DEF CloseDrawer, FocusAfterClose
<1>2. DrawerInv => OneDrawer
  BY DEF DrawerInv
<1> QED
  BY <1>1, <1>2, DrawerInitially, DrawerStep, PTL DEF DrawerSpec, DrawerReturns, FocusComesBack

-----------------------------------------------------------------------------
(***************************************************************************)
(* The budget of the proxy.                                                *)
(***************************************************************************)
ChargesOf(table, day) == {c \in Checks : table[c].at = "charged" /\ table[c].day = day}
BytesOf(table) == [c \in Checks |-> table[c].bytes]
ChargedIn(table, day) == MapThenSumSet(LAMBDA c : table[c].bytes, ChargesOf(table, day))

Bytes(table) == \A c \in Checks : table[c].at = "charged" => table[c].bytes \in Nat

LEMMA ChargedIsASum ==
  ASSUME NEW table, Bytes(table), NEW day
  PROVE  /\ ChargedIn(table, day) = SumOver(BytesOf(table), ChargesOf(table, day))
         /\ ChargedIn(table, day) \in Nat
         /\ IsFiniteSet(ChargesOf(table, day))
<1> DEFINE S == ChargesOf(table, day)
           f == BytesOf(table)
           Iter(g) == g = [s \in SUBSET S |->
                             IF s = {} THEN 0
                             ELSE LET x == CHOOSE x \in s : TRUE IN table[x].bytes + g[s \ {x}]]
<1>1. IsFiniteSet(S)
  BY BudgetAssumption, FS_Subset DEF ChargesOf
<1>2. \A x \in S : f[x] = table[x].bytes /\ f[x] \in Nat /\ f[x] \in Int
  BY DEF ChargesOf, BytesOf, Bytes
<1>3. ChargedIn(table, day) = (CHOOSE g : Iter(g))[S]
  BY DEF ChargedIn, MapThenSumSet, MapThenFoldSet
<1> HIDE DEF S, f
<1>4. \E g : Iter(g)
  <2>1. PICK g : g = [s \in SUBSET S |-> g[s]] /\ AddsUp(g, f, S)
    BY <1>1, <1>2, AddsUpExists
  <2>2. ASSUME NEW s \in SUBSET S
        PROVE  g[s] = IF s = {} THEN 0
                      ELSE LET x == CHOOSE x \in s : TRUE IN table[x].bytes + g[s \ {x}]
    BY <1>2, <2>1 DEF AddsUp
  <2>3. Iter(g)
    BY <2>1, <2>2
  <2> HIDE DEF Iter
  <2> QED
    BY <2>3
<1> DEFINE g == CHOOSE g : Iter(g)
<1>5. Iter(g)
  <2> HIDE DEF Iter
  <2> QED
    BY <1>4
<1> HIDE DEF g
<1>6. AddsUp(g, f, S)
  BY <1>2, <1>5 DEF AddsUp
<1>7. ChargedIn(table, day) = SumOver(f, S)
  <2>1. SumOver(f, S) = g[S]
    BY <1>1, <1>2, <1>6, SumOverIs
  <2> QED
    BY <1>3, <2>1 DEF g
<1>8. SumOver(f, S) \in Nat
  BY <1>1, <1>2, SumOfNaturals
<1> QED
  BY <1>1, <1>7, <1>8 DEF S, f

\* Tables with the same charges of a day.
LEMMA SameCharges ==
  ASSUME NEW table, NEW other, Bytes(table), Bytes(other), NEW day,
         ChargesOf(other, day) = ChargesOf(table, day),
         \A c \in ChargesOf(table, day) : other[c].bytes = table[c].bytes
  PROVE  ChargedIn(other, day) = ChargedIn(table, day)
<1>1. \A c \in ChargesOf(table, day) :
        /\ BytesOf(table)[c] \in Int
        /\ BytesOf(other)[c] = BytesOf(table)[c]
  BY DEF Bytes, BytesOf, ChargesOf
<1>2. SumOver(BytesOf(other), ChargesOf(table, day)) = SumOver(BytesOf(table), ChargesOf(table, day))
  BY <1>1, ChargedIsASum, SumOfSame
<1> QED
  BY <1>2, ChargedIsASum

\* A check that is charged adds what it read to its day.
LEMMA ChargeAdds ==
  ASSUME NEW table, NEW other, Bytes(table), Bytes(other), NEW day, NEW c \in Checks,
         table[c].at # "charged",
         ChargesOf(other, day) = ChargesOf(table, day) \cup {c},
         \A d \in ChargesOf(table, day) : other[d].bytes = table[d].bytes
  PROVE  ChargedIn(other, day) = ChargedIn(table, day) + other[c].bytes
<1> DEFINE S == ChargesOf(table, day)
           T == ChargesOf(other, day)
           f == BytesOf(table)
           e == BytesOf(other)
<1>1. T \ {c} = S /\ c \in T
  BY DEF ChargesOf
<1>2. \A d \in T : e[d] \in Int
  BY DEF Bytes, BytesOf, ChargesOf
<1>3. \A d \in S : f[d] \in Int /\ e[d] = f[d]
  BY DEF Bytes, BytesOf, ChargesOf
<1>4. /\ IsFiniteSet(S) /\ IsFiniteSet(T)
      /\ ChargedIn(table, day) = SumOver(f, S) /\ ChargedIn(other, day) = SumOver(e, T)
      /\ ChargedIn(table, day) \in Nat
  BY ChargedIsASum
<1>5. e[c] = other[c].bytes /\ e[c] \in Nat
  BY <1>1 DEF BytesOf, Bytes, ChargesOf
<1> HIDE DEF S, T, f, e
<1>6. SumOver(e, T) = e[c] + SumOver(e, T \ {c})
  BY <1>1, <1>2, <1>4, SumWithout
<1>7. SumOver(e, S) = SumOver(f, S)
  BY <1>3, <1>4, SumOfSame
<1>8. ChargedIn(other, day) = e[c] + ChargedIn(table, day)
  BY <1>1, <1>4, <1>6, <1>7
<1> QED
  BY <1>4, <1>5, <1>8

\* The counter is of the last day it was used on, and nothing has been charged, nor
\* anybody refused, on a later one.
BudgetInv ==
  /\ utcDay \in Nat /\ _current_day \in Nat /\ _current_day <= utcDay
  /\ check = [c \in Checks |-> check[c]]
  /\ Bytes(check)
  /\ \A c \in Checks : check[c].at \in {"charged", "refused"} =>
       check[c].day \in Nat /\ check[c].day <= _current_day
  /\ _bytes_today = ChargedIn(check, _current_day)
  /\ \A c \in Checks : check[c].at = "refused" => ChargedIn(check, check[c].day) >= DailyBudget

LEMMA BudgetInitially == BudgetInit => BudgetInv
<1> SUFFICES ASSUME BudgetInit PROVE BudgetInv
  OBVIOUS
<1>1. check = [c \in Checks |-> check[c]] /\ \A c \in Checks : check[c].at = "idle"
  BY DEF BudgetInit
<1>2. Bytes(check) /\ ChargesOf(check, 0) = {}
  BY <1>1 DEF Bytes, ChargesOf
<1>3. ChargedIn(check, 0) = 0
  BY <1>2, ChargedIsASum, SumOfNone
<1> QED
  BY <1>1, <1>2, <1>3 DEF BudgetInv, BudgetInit

\* After the reset, if one is due, the counter is what this day was charged.
LEMMA ResetIsOfTheDay ==
  ASSUME BudgetInv
  PROVE  _maybe_reset = ChargedIn(check, utcDay)
<1>1. CASE utcDay = _current_day
  BY <1>1 DEF _maybe_reset, BudgetInv
<1>2. CASE utcDay # _current_day
  <2>1. ChargesOf(check, utcDay) = {}
    BY <1>2 DEF BudgetInv, ChargesOf
  <2>2. ChargedIn(check, utcDay) = SumOver(BytesOf(check), ChargesOf(check, utcDay))
    BY ChargedIsASum DEF BudgetInv
  <2>3. ChargedIn(check, utcDay) = 0
    BY <2>1, <2>2, SumOfNone
  <2> QED
    BY <1>2, <2>3 DEF _maybe_reset
<1> QED
  BY <1>1, <1>2

\* A step that charges nothing.
LEMMA NothingCharged ==
  ASSUME NEW table, NEW other, Bytes(table), Bytes(other),
         \A c \in Checks : (table[c].at = "charged" \/ other[c].at = "charged")
                             => other[c] = table[c]
  PROVE  \A day : ChargedIn(other, day) = ChargedIn(table, day)
<1> TAKE day
<1>1. ChargesOf(other, day) = ChargesOf(table, day)
  BY DEF ChargesOf
<1>2. \A c \in ChargesOf(table, day) : other[c].bytes = table[c].bytes
  BY DEF ChargesOf
<1> QED
  BY <1>1, <1>2, SameCharges

LEMMA BudgetStep == BudgetInv /\ [BudgetNext]_budgetVars => BudgetInv'
<1> SUFFICES ASSUME BudgetInv, [BudgetNext]_budgetVars PROVE BudgetInv'
  OBVIOUS
<1>1. CASE Midnight \/ UNCHANGED budgetVars
  BY <1>1 DEF Midnight, budgetVars, BudgetInv
<1>2. ASSUME NEW c \in Checks, NEW consults \in BOOLEAN, BeginCheck(c, consults)
      PROVE  BudgetInv'
  <2> DEFINE refused == consults /\ _maybe_reset >= DailyBudget
  <2>1. /\ check' = [check EXCEPT ![c] = IF refused THEN [at |-> "refused", day |-> utcDay]
                                                  ELSE [at |-> "running"]]
        /\ check[c].at = "idle"
        /\ UNCHANGED utcDay
    BY <1>2 DEF BeginCheck
  <2>2. /\ check'[c].at \in {"refused", "running"}
        /\ check'[c].at = "refused" => refused /\ check'[c].day = utcDay
        /\ \A d \in Checks : d # c => check'[d] = check[d]
        /\ check' = [d \in Checks |-> check'[d]]
    BY <2>1 DEF BudgetInv
  <2>3. Bytes(check')
    BY <2>2 DEF Bytes, BudgetInv
  <2>4. \A day : ChargedIn(check', day) = ChargedIn(check, day)
    BY <2>1, <2>2, <2>3, NothingCharged DEF BudgetInv
  <2>5. /\ _current_day' \in {_current_day, utcDay}
        /\ consults => _current_day' = utcDay
        /\ _bytes_today' = ChargedIn(check, _current_day')
    <3>1. CASE consults
      BY <1>2, <3>1, ResetIsOfTheDay DEF BeginCheck
    <3>2. CASE ~consults
      BY <1>2, <3>2 DEF BeginCheck, BudgetInv
    <3> QED
      BY <3>1, <3>2
  <2>6. ASSUME NEW d \in Checks, check'[d].at = "refused"
        PROVE  ChargedIn(check', check'[d].day) >= DailyBudget
    <3>1. CASE d = c
      BY <2>2, <2>4, <2>6, <3>1, ResetIsOfTheDay
    <3>2. CASE d # c
      BY <2>2, <2>4, <2>6, <3>2 DEF BudgetInv
    <3> QED
      BY <3>1, <3>2
  <2>7. ASSUME NEW d \in Checks, check'[d].at \in {"charged", "refused"}
        PROVE  check'[d].day \in Nat /\ check'[d].day <= _current_day'
    <3>1. CASE d = c
      BY <2>2, <2>5, <2>7, <3>1 DEF BudgetInv
    <3>2. CASE d # c
      <4>1. check[d].day \in Nat /\ check[d].day <= _current_day /\ check'[d].day = check[d].day
        BY <2>2, <2>7, <3>2 DEF BudgetInv
      <4>2. _current_day \in Nat /\ utcDay \in Nat /\ _current_day <= _current_day'
            /\ _current_day' \in Nat
        BY <2>5 DEF BudgetInv
      <4> QED
        BY <4>1, <4>2
    <3> QED
      BY <3>1, <3>2
  <2>8. utcDay' \in Nat /\ _current_day' \in Nat /\ _current_day' <= utcDay'
    BY <2>1, <2>5 DEF BudgetInv
  <2>9. _bytes_today' = ChargedIn(check', _current_day')
    BY <2>4, <2>5
  <2> HIDE DEF refused
  <2> QED
    BY <2>2, <2>3, <2>6, <2>7, <2>8, <2>9 DEF BudgetInv
<1>3. ASSUME NEW c \in Checks, NEW bytes \in 0..MaxBytes, EndCheck(c, bytes)
      PROVE  BudgetInv'
  <2>1. /\ check' = [check EXCEPT ![c] = [at |-> "charged", day |-> utcDay, bytes |-> bytes]]
        /\ check[c].at = "running" /\ bytes \in Nat
        /\ _bytes_today' = ChargedIn(check, utcDay) + bytes
        /\ _current_day' = utcDay /\ utcDay' = utcDay
    BY <1>3, ResetIsOfTheDay, BudgetAssumption DEF EndCheck
  <2>2. /\ check'[c].at = "charged" /\ check'[c].day = utcDay /\ check'[c].bytes = bytes
        /\ \A d \in Checks : d # c => check'[d] = check[d]
        /\ check' = [d \in Checks |-> check'[d]]
    BY <2>1 DEF BudgetInv
  <2>3. Bytes(check')
    BY <2>1, <2>2 DEF Bytes, BudgetInv
  <2>4. ChargedIn(check', utcDay) = ChargedIn(check, utcDay) + bytes
    <3>1. ChargesOf(check', utcDay) = ChargesOf(check, utcDay) \cup {c}
      BY <2>1, <2>2 DEF ChargesOf
    <3>2. \A d \in ChargesOf(check, utcDay) : check'[d].bytes = check[d].bytes
      BY <2>1, <2>2 DEF ChargesOf
    <3>3. Bytes(check) /\ check[c].at # "charged"
      BY <2>1 DEF BudgetInv
    <3>4. ChargedIn(check', utcDay) = ChargedIn(check, utcDay) + check'[c].bytes
      BY <2>3, <3>1, <3>2, <3>3, ChargeAdds
    <3> QED
      BY <2>2, <3>4
  <2>5. ASSUME NEW day, day # utcDay PROVE ChargedIn(check', day) = ChargedIn(check, day)
    <3>1. ChargesOf(check', day) = ChargesOf(check, day)
      BY <2>1, <2>2, <2>5 DEF ChargesOf
    <3>2. \A d \in ChargesOf(check, day) : check'[d].bytes = check[d].bytes
      BY <2>1, <2>2 DEF ChargesOf
    <3>3. Bytes(check)
      BY DEF BudgetInv
    <3> QED
      BY <2>3, <3>1, <3>2, <3>3, SameCharges
  <2>6. ASSUME NEW d \in Checks, check'[d].at = "refused"
        PROVE  ChargedIn(check', check'[d].day) >= DailyBudget
    <3>1. d # c /\ check'[d] = check[d] /\ ChargedIn(check, check[d].day) >= DailyBudget
      BY <2>2, <2>6 DEF BudgetInv
    <3>2. ChargedIn(check, check[d].day) \in Nat /\ DailyBudget \in Nat /\ bytes \in Nat
      BY <2>1, ChargedIsASum, BudgetAssumption DEF BudgetInv
    <3>3. CASE check[d].day = utcDay
      BY <2>4, <3>1, <3>2, <3>3
    <3>4. CASE check[d].day # utcDay
      BY <2>5, <3>1, <3>4
    <3> QED
      BY <3>3, <3>4
  <2>7. ASSUME NEW d \in Checks, check'[d].at \in {"charged", "refused"}
        PROVE  check'[d].day \in Nat /\ check'[d].day <= _current_day'
    <3>1. CASE d = c
      BY <2>1, <2>2, <3>1 DEF BudgetInv
    <3>2. CASE d # c
      BY <2>1, <2>2, <2>7, <3>2 DEF BudgetInv
    <3> QED
      BY <3>1, <3>2
  <2>8. utcDay' \in Nat /\ _current_day' \in Nat /\ _current_day' <= utcDay'
    BY <2>1 DEF BudgetInv
  <2>9. _bytes_today' = ChargedIn(check', _current_day')
    BY <2>1, <2>4
  <2> QED
    BY <2>2, <2>3, <2>6, <2>7, <2>8, <2>9 DEF BudgetInv
<1>4. ASSUME NEW c \in Checks, GiveUp(c)
      PROVE  BudgetInv'
  <2>1. /\ check' = [check EXCEPT ![c] = [at |-> "given up"]]
        /\ check[c].at = "running"
        /\ UNCHANGED <<utcDay, _current_day, _bytes_today>>
    BY <1>4 DEF GiveUp
  <2>2. /\ check'[c].at = "given up"
        /\ \A d \in Checks : d # c => check'[d] = check[d]
        /\ check' = [d \in Checks |-> check'[d]]
    BY <2>1 DEF BudgetInv
  <2>3. Bytes(check')
    BY <2>2 DEF Bytes, BudgetInv
  <2>4. \A day : ChargedIn(check', day) = ChargedIn(check, day)
    <3>1. /\ Bytes(check)
          /\ \A d \in Checks : (check[d].at = "charged" \/ check'[d].at = "charged")
                                 => check'[d] = check[d]
      BY <2>1, <2>2 DEF BudgetInv
    <3> QED
      BY <2>3, <3>1, NothingCharged
  <2>5. ASSUME NEW d \in Checks, check'[d].at = "refused"
        PROVE  ChargedIn(check', check'[d].day) >= DailyBudget
    BY <2>2, <2>4, <2>5 DEF BudgetInv
  <2>6. ASSUME NEW d \in Checks, check'[d].at \in {"charged", "refused"}
        PROVE  check'[d].day \in Nat /\ check'[d].day <= _current_day'
    BY <2>1, <2>2, <2>6 DEF BudgetInv
  <2> QED
    BY <2>1, <2>2, <2>3, <2>4, <2>5, <2>6 DEF BudgetInv
<1> QED
  BY <1>1, <1>2, <1>3, <1>4 DEF BudgetNext

\* Over any number of midnights the counter is what was charged on its day, and
\* who is refused is refused on a day whose own charges have used the budget up.
THEOREM BudgetInvariance == BudgetSpec => []BudgetIsTheDays
<1>1. BudgetInv => BudgetIsTheDays
  <2> SUFFICES ASSUME BudgetInv PROVE BudgetIsTheDays
    OBVIOUS
  <2>1. \A day : Charged(day) = ChargedIn(check, day)
    BY DEF Charged, ChargedIn, ChargesOf, MapThenSumSet, MapThenFoldSet
  <2> QED
    BY <2>1 DEF BudgetInv, BudgetIsTheDays, CounterIsTheDays, RefusedOnlyOnASpentDay
<1> QED
  BY <1>1, BudgetInitially, BudgetStep, PTL DEF BudgetSpec

-----------------------------------------------------------------------------
(***************************************************************************)
(* The case book.  The storage is as true as the lists of the tabs, and a  *)
(* save that waits for its hash has an id that is nowhere yet.             *)
(***************************************************************************)
CaseRecords == [id : Nat, of : Int, summary : Int]
SaveRecords == [id : Nat, of : Int]

CasesTyped ==
  /\ cases \in [Tabs -> Seq(CaseRecords)] /\ stored \in Seq(CaseRecords)
  /\ current \in [Tabs -> [n : Int, case : Nat]]
  /\ saving \in [Tabs -> Seq(SaveRecords)]
  /\ saves \in Nat /\ behind \subseteq Tabs

\* What holds of every list of cases.
TrueList(list, without, upto) ==
  /\ Len(list) <= CaseCap
  /\ \A c \in ToSet(list) : c.id <= upto /\ (c.id \notin without => c.summary = c.of)

ListsAreTrue ==
  TrueList(stored, overlapped, saves) /\ \A t \in Tabs : TrueList(cases[t], overlapped, saves)

\* A save that waits, of a tab that shows result n.
Waits(s, n, without) == s.id \notin without => n = s.of

SavesWait ==
  \A t \in Tabs : \A i \in DOMAIN saving[t] :
    /\ saving[t][i].id \in 1..saves
    /\ Waits(saving[t][i], current[t].n, overlapped)

SavesAreNew ==
  \A t \in Tabs : \A i \in DOMAIN saving[t] :
    /\ saving[t][i].id \notin IdsOf(stored)
    /\ \A u \in Tabs : saving[t][i].id \notin IdsOf(cases[u])

SavesDiffer ==
  \A t, u \in Tabs : \A i \in DOMAIN saving[t], j \in DOMAIN saving[u] :
    saving[t][i].id = saving[u][j].id => t = u /\ i = j

\* The result that bears a case's id.
BearsItsCase(list, cur, without) ==
  \A c \in ToSet(list) :
    (c.id # NoCase /\ c.id \notin without /\ cur.case = c.id) => cur.n = c.of

ResultsBearTheirCases == \A t \in Tabs : BearsItsCase(cases[t], current[t], overlapped)

\* A tab that has seen every write knows of all that is stored, but for what is gone.
ListIsStored(t) ==
  /\ t \notin behind => IdsOf(cases[t]) \subseteq IdsOf(stored)
  /\ t \notin behind \cup forgot => IdsOf(stored) \ IdsOf(cases[t]) \subseteq gone

ListsAreStored == \A t \in Tabs : ListIsStored(t)

CasesInv ==
  /\ CasesTyped /\ ListsAreTrue /\ SavesWait /\ SavesAreNew /\ SavesDiffer
  /\ ResultsBearTheirCases /\ ListsAreStored

-----------------------------------------------------------------------------
\* The lists that are written.
LEMMA IdsAre ==
  ASSUME NEW list \in Seq(CaseRecords)
  PROVE  /\ \A c \in ToSet(list) : c \in CaseRecords /\ c.id \in Nat /\ c.id \in IdsOf(list)
         /\ \A k \in IdsOf(list) : \E c \in ToSet(list) : c.id = k
<1>1. DOMAIN list = 1..Len(list) /\ \A i \in 1..Len(list) : list[i] \in CaseRecords
  BY LenProperties, ElementOfSeq
<1> QED
  BY <1>1 DEF ToSet, IdsOf, CaseRecords

LEMMA WithoutCaseIs ==
  ASSUME NEW list \in Seq(CaseRecords), NEW id
  PROVE  /\ WithoutCase(list, id) \in Seq(CaseRecords)
         /\ Len(WithoutCase(list, id)) <= Len(list)
         /\ ToSet(WithoutCase(list, id)) \subseteq ToSet(list)
         /\ IdsOf(WithoutCase(list, id)) = IdsOf(list) \ {id}
<1>1. WithoutCase(list, id) = Dropped(list, id)
  BY DEF WithoutCase, Dropped
<1> DEFINE R == WithoutCase(list, id)
<1>2. R \in Seq(CaseRecords) /\ Len(R) <= Len(list) /\ ToSet(R) = {c \in ToSet(list) : c.id # id}
  BY <1>1, DroppedIs
<1> HIDE DEF R
<1>3. IdsOf(R) = IdsOf(list) \ {id}
  BY <1>2 DEF IdsOf
<1> QED
  BY <1>2, <1>3 DEF R

\* A case put at the head of a list pushes out the last one of a full list.
LEMMA WithCaseIs ==
  ASSUME NEW list \in Seq(CaseRecords), NEW c \in CaseRecords, Len(list) <= CaseCap
  PROVE  /\ WithCase(list, c) \in Seq(CaseRecords) /\ Len(WithCase(list, c)) <= CaseCap
         /\ ToSet(WithCase(list, c)) \subseteq {c} \cup ToSet(list)
         /\ c.id \in IdsOf(WithCase(list, c))
         /\ Len(list) # CaseCap => IdsOf(list) \subseteq IdsOf(WithCase(list, c))
         /\ Len(list) = CaseCap =>
              IdsOf(list) \subseteq IdsOf(WithCase(list, c)) \cup {Last(list).id}
<1> DEFINE all == <<c>> \o list
           m == Min({CaseCap, Len(list) + 1})
           R == SubSeq(all, 1, m)
           n == Len(list)
<1>1. n \in Nat /\ CaseCap \in Nat \ {0} /\ n <= CaseCap /\ DOMAIN list = 1..n
      /\ \A i \in 1..n : list[i] \in CaseRecords
  BY LenProperties, ElementOfSeq, CaseBookAssumption
<1>2. /\ m = (IF n = CaseCap THEN CaseCap ELSE n + 1) /\ m \in 1..(n + 1) /\ m <= CaseCap
  <2>1. m = IF CaseCap <= n + 1 THEN CaseCap ELSE n + 1
    BY <1>1, MinOfTwo
  <2> HIDE DEF m, n
  <2> QED
    BY <1>1, <2>1
<1>3. /\ <<c>> \in Seq(CaseRecords) /\ Len(<<c>>) = 1 /\ <<c>>[1] = c
  OBVIOUS
<1>4. /\ all \in Seq(CaseRecords) /\ Len(all) = n + 1 /\ all[1] = c
      /\ \A i \in 2..(n + 1) : all[i] = list[i - 1]
  <2>1. all \in Seq(CaseRecords) /\ Len(all) = 1 + n
        /\ \A i \in 1..Len(all) : all[i] = IF i <= 1 THEN <<c>>[i] ELSE list[i - 1]
    BY <1>3, ConcatProperties
  <2> HIDE DEF all
  <2> QED
    BY <1>1, <1>3, <2>1
<1> HIDE DEF all, m, n
<1>5. R \in Seq(CaseRecords) /\ Len(R) = m /\ \A i \in 1..m : R[i] = all[i]
  BY <1>1, <1>2, <1>4, SubSeqProperties
<1>6. R = WithCase(list, c)
  BY DEF WithCase, R, m, n, all
<1> HIDE DEF R
<1>7. /\ ToSet(R) = {R[i] : i \in 1..m} /\ ToSet(list) = {list[i] : i \in 1..n}
  BY <1>1, <1>5, LenProperties DEF ToSet
<1>8. ToSet(R) \subseteq {c} \cup ToSet(list)
  <2> SUFFICES ASSUME NEW i \in 1..m PROVE R[i] \in {c} \cup ToSet(list)
    BY <1>7
  <2>1. CASE i = 1
    BY <1>4, <1>5, <2>1
  <2>2. CASE i # 1
    <3>1. i \in 2..(n + 1) /\ i - 1 \in 1..n
      BY <1>1, <1>2, <2>2
    <3>2. R[i] = list[i - 1]
      BY <1>4, <1>5, <3>1
    <3> QED
      BY <1>7, <3>1, <3>2
  <2> QED
    BY <2>1, <2>2
<1>9. c \in ToSet(R)
  BY <1>1, <1>2, <1>4, <1>5, <1>7
<1>10. ASSUME NEW i \in 1..n, i + 1 <= m PROVE list[i] \in ToSet(R)
  <2>1. i + 1 \in 2..(n + 1) /\ i + 1 \in 1..m /\ (i + 1) - 1 = i
    BY <1>1, <1>2, <1>10
  <2>2. R[i + 1] = list[i]
    BY <1>4, <1>5, <2>1
  <2> QED
    BY <1>7, <2>1, <2>2
<1>11. ASSUME n # CaseCap PROVE ToSet(list) \subseteq ToSet(R)
  BY <1>1, <1>2, <1>7, <1>10, <1>11
<1>12. ASSUME n = CaseCap PROVE ToSet(list) \subseteq ToSet(R) \cup {Last(list)}
  <2> SUFFICES ASSUME NEW i \in 1..n PROVE list[i] \in ToSet(R) \cup {Last(list)}
    BY <1>7
  <2>1. CASE i = n
    BY <2>1 DEF Last, n
  <2>2. CASE i # n
    <3>1. i + 1 <= m
      BY <1>1, <1>2, <1>12, <2>2
    <3> QED
      BY <1>10, <3>1
  <2> QED
    BY <2>1, <2>2
<1> QED
  BY <1>2, <1>5, <1>6, <1>8, <1>9, <1>11, <1>12 DEF IdsOf, n

-----------------------------------------------------------------------------
\* A step tells of every case that leaves the storage, if the list that is written
\* is up to date.
TellsOfLoss ==
  \/ IdsOf(stored) \ IdsOf(stored') \subseteq gone'
  \/ \E t \in behind \cup forgot : behind' = Tabs \ {t}

LEMMA CasesInitially == CaseBookInit => CasesInv
<1> SUFFICES ASSUME CaseBookInit PROVE CasesInv
  OBVIOUS
<1>1. PICK old \in {<<>>, <<LegacyCase>>} : stored = old /\ cases = [t \in Tabs |-> old]
  BY DEF CaseBookInit
<1>2. /\ current = [t \in Tabs |-> [n |-> NoResult, case |-> NoCase]]
      /\ saving = [t \in Tabs |-> <<>>] /\ saves = 0
      /\ overlapped = {} /\ behind = {} /\ gone = {} /\ forgot = {}
  BY DEF CaseBookInit
<1>3. LegacyCase \in CaseRecords /\ LegacyCase.id = 0 /\ LegacyCase.summary = LegacyCase.of
  BY DEF LegacyCase, CaseRecords, NoCase, OldResult
<1>4. old \in Seq(CaseRecords) /\ Len(old) <= 1 /\ ToSet(old) \subseteq {LegacyCase}
  <2>1. CASE old = <<>>
    <3>1. Len(old) = 0 /\ DOMAIN old = {} /\ old \in Seq(CaseRecords)
      BY <2>1, EmptySeq
    <3> QED
      BY <3>1 DEF ToSet
  <2>2. CASE old = <<LegacyCase>>
    <3>1. /\ old \in Seq(CaseRecords) /\ Len(old) = 1 /\ DOMAIN old = {1}
          /\ old[1] = LegacyCase
      BY <1>3, <2>2
    <3> QED
      BY <3>1 DEF ToSet
  <2> QED
    BY <2>1, <2>2
<1>5. TrueList(old, overlapped, saves)
  <2>1. \A c \in ToSet(old) : c.id <= saves /\ c.summary = c.of
    BY <1>2, <1>3, <1>4
  <2> QED
    BY <1>4, <2>1, CaseBookAssumption, LenProperties DEF TrueList
<1>6. CasesTyped
  <2>1. <<>> \in Seq(SaveRecords)
    BY EmptySeq
  <2> QED
    BY <1>1, <1>2, <1>4, <2>1 DEF CasesTyped, NoResult, NoCase
<1>7. ListsAreTrue
  BY <1>1, <1>5 DEF ListsAreTrue
<1>8. \A t \in Tabs : DOMAIN saving[t] = {}
  BY <1>2, EmptySeq
<1>9. SavesWait /\ SavesAreNew /\ SavesDiffer
  BY <1>8 DEF SavesWait, SavesAreNew, SavesDiffer
<1>10. ResultsBearTheirCases
  <2>1. \A t \in Tabs : current[t].case = NoCase
    BY <1>2
  <2> QED
    BY <2>1 DEF ResultsBearTheirCases, BearsItsCase
<1>11. ListsAreStored
  BY <1>1 DEF ListsAreStored, ListIsStored
<1> QED
  BY <1>6, <1>7, <1>9, <1>10, <1>11 DEF CasesInv

\* More ids are taken for granted: what is true of a list stays true.
LEMMA TrueListGrows ==
  ASSUME NEW list \in Seq(CaseRecords), NEW without, NEW more, without \subseteq more,
         NEW upto \in Nat, NEW high \in Nat, upto <= high, TrueList(list, without, upto)
  PROVE  TrueList(list, more, high)
<1>1. \A c \in ToSet(list) : c.id \in Nat
  BY IdsAre
<1> QED
  BY <1>1 DEF TrueList

LEMMA TakeResultStep ==
  ASSUME CasesInv, NEW t \in Tabs, NEW n \in Int, TakeResult(t, n),
         UNCHANGED <<cases, stored, saving, saves, behind, gone, forgot>>
  PROVE  CasesInv'
<1>1. /\ current' = [current EXCEPT ![t] = [n |-> n, case |-> NoCase]]
      /\ overlapped' = overlapped \cup {c.id : c \in ToSet(saving[t])}
      /\ cases' = cases /\ stored' = stored /\ saving' = saving /\ saves' = saves
      /\ behind' = behind /\ gone' = gone /\ forgot' = forgot
  BY DEF TakeResult
<1>2. CasesTyped'
  BY <1>1 DEF CasesInv, CasesTyped, NoCase
<1>3. ListsAreTrue'
  <2>1. \A u \in Tabs : cases[u] \in Seq(CaseRecords)
    BY DEF CasesInv, CasesTyped
  <2>2. stored \in Seq(CaseRecords) /\ saves \in Nat /\ overlapped \subseteq overlapped'
    BY <1>1 DEF CasesInv, CasesTyped
  <2>3. TrueList(stored, overlapped, saves) /\ \A u \in Tabs : TrueList(cases[u], overlapped, saves)
    BY DEF CasesInv, ListsAreTrue
  <2>4. TrueList(stored, overlapped', saves)
    BY <2>2, <2>3, TrueListGrows
  <2>5. \A u \in Tabs : TrueList(cases[u], overlapped', saves)
    BY <2>1, <2>2, <2>3, TrueListGrows
  <2> QED
    BY <1>1, <2>4, <2>5 DEF ListsAreTrue
<1>4. \A u \in Tabs : current'[u] = IF u = t THEN [n |-> n, case |-> NoCase] ELSE current[u]
  BY <1>1 DEF CasesInv, CasesTyped
<1>5. SavesWait'
  <2>1. ASSUME NEW u \in Tabs, NEW i \in DOMAIN saving[u]
        PROVE  Waits(saving[u][i], current'[u].n, overlapped')
    <3>1. CASE u = t
      <4>1. saving[u][i].id \in overlapped'
        BY <1>1, <3>1 DEF ToSet
      <4> QED
        BY <4>1 DEF Waits
    <3>2. CASE u # t
      <4>1. Waits(saving[u][i], current[u].n, overlapped) /\ current'[u] = current[u]
        BY <1>4, <3>2 DEF CasesInv, SavesWait
      <4> QED
        BY <1>1, <4>1 DEF Waits
    <3> QED
      BY <3>1, <3>2
  <2> QED
    BY <1>1, <2>1 DEF CasesInv, SavesWait
<1>6. SavesAreNew' /\ SavesDiffer' /\ ListsAreStored'
  BY <1>1 DEF CasesInv, SavesAreNew, SavesDiffer, ListsAreStored, ListIsStored
<1>7. ResultsBearTheirCases'
  <2>1. ASSUME NEW u \in Tabs PROVE BearsItsCase(cases[u], current'[u], overlapped')
    <3>1. CASE u = t
      BY <1>4, <3>1 DEF BearsItsCase
    <3>2. CASE u # t
      <4>1. BearsItsCase(cases[u], current[u], overlapped) /\ current'[u] = current[u]
        BY <1>4, <3>2 DEF CasesInv, ResultsBearTheirCases
      <4> QED
        BY <1>1, <4>1 DEF BearsItsCase
    <3> QED
      BY <3>1, <3>2
  <2> QED
    BY <1>1, <2>1 DEF ResultsBearTheirCases
<1> QED
  BY <1>2, <1>3, <1>5, <1>6, <1>7 DEF CasesInv

LEMMA SaveCaseStep ==
  ASSUME CasesInv, NEW t \in Tabs, SaveCase(t)
  PROVE  CasesInv'
<1> DEFINE k == saves + 1
           new == [id |-> k, of |-> current[t].n]
<1>1. /\ saves' = k /\ saving' = [saving EXCEPT ![t] = Append(@, new)]
      /\ cases' = cases /\ stored' = stored /\ current' = current /\ overlapped' = overlapped
      /\ behind' = behind /\ gone' = gone /\ forgot' = forgot
  BY DEF SaveCase
<1>2. /\ saves \in Nat /\ k \in Nat /\ new \in SaveRecords /\ saving[t] \in Seq(SaveRecords)
      /\ saving \in [Tabs -> Seq(SaveRecords)] /\ stored \in Seq(CaseRecords)
      /\ \A u \in Tabs : cases[u] \in Seq(CaseRecords)
  BY DEF CasesInv, CasesTyped, SaveRecords
<1> DEFINE q == saving[t]
           p == Append(q, new)
<1>3. /\ p \in Seq(SaveRecords) /\ Len(p) = Len(q) + 1 /\ Len(q) \in Nat
      /\ p[Len(q) + 1] = new /\ \A i \in 1..Len(q) : p[i] = q[i]
  BY <1>2, AppendProperties, LenProperties
<1>4. new.id = k /\ new.of = current[t].n /\ k = saves + 1
  OBVIOUS
<1>5. saving'[t] = p /\ \A u \in Tabs : u # t => saving'[u] = saving[u]
  BY <1>1, <1>2
<1> HIDE DEF k, new, p
<1>6. DOMAIN p = 1..(Len(q) + 1) /\ DOMAIN q = 1..Len(q)
  BY <1>2, <1>3, LenProperties
<1>7. CasesTyped'
  BY <1>1, <1>2, <1>3, <1>5 DEF CasesInv, CasesTyped, p
<1>8. ListsAreTrue'
  <2>1. TrueList(stored, overlapped, saves) /\ \A u \in Tabs : TrueList(cases[u], overlapped, saves)
    BY DEF CasesInv, ListsAreTrue
  <2>2. saves <= k
    BY <1>2, <1>4
  <2>3. TrueList(stored, overlapped, k)
    BY <1>2, <2>1, <2>2, TrueListGrows
  <2>4. \A u \in Tabs : TrueList(cases[u], overlapped, k)
    BY <1>2, <2>1, <2>2, TrueListGrows
  <2> QED
    BY <1>1, <2>3, <2>4 DEF ListsAreTrue
\* What waits after the step is what waited before, or the new save.
<1>9. ASSUME NEW u \in Tabs, NEW i \in DOMAIN saving'[u]
      PROVE  \/ i \in DOMAIN saving[u] /\ saving'[u][i] = saving[u][i]
             \/ u = t /\ i = Len(q) + 1 /\ saving'[u][i] = new
  BY <1>3, <1>5, <1>6
<1>10. ASSUME NEW u \in Tabs, NEW i \in DOMAIN saving[u] PROVE saving[u][i].id \in 1..saves
  BY DEF CasesInv, SavesWait
<1>11. SavesWait'
  <2> SUFFICES ASSUME NEW u \in Tabs, NEW i \in DOMAIN saving'[u]
               PROVE  saving'[u][i].id \in 1..k /\ Waits(saving'[u][i], current[u].n, overlapped)
    BY <1>1 DEF SavesWait
  <2>1. CASE i \in DOMAIN saving[u] /\ saving'[u][i] = saving[u][i]
    <3>1. saving[u][i].id \in 1..saves /\ Waits(saving[u][i], current[u].n, overlapped)
      BY <2>1 DEF CasesInv, SavesWait
    <3> QED
      BY <1>2, <1>4, <2>1, <3>1
  <2>2. CASE u = t /\ saving'[u][i] = new
    BY <1>2, <1>4, <2>2 DEF Waits
  <2> QED
    BY <1>9, <2>1, <2>2
<1>12. k \notin IdsOf(stored) /\ \A u \in Tabs : k \notin IdsOf(cases[u])
  <2>1. ASSUME NEW list \in Seq(CaseRecords), TrueList(list, overlapped, saves)
        PROVE  k \notin IdsOf(list)
    <3> SUFFICES ASSUME NEW c \in ToSet(list), c.id = k PROVE FALSE
      BY DEF IdsOf
    <3>1. k <= saves
      BY <2>1 DEF TrueList
    <3> QED
      BY <1>2, <1>4, <3>1
  <2> QED
    BY <1>2, <2>1 DEF CasesInv, ListsAreTrue
<1>13. SavesAreNew'
  <2> SUFFICES ASSUME NEW u \in Tabs, NEW i \in DOMAIN saving'[u]
               PROVE  /\ saving'[u][i].id \notin IdsOf(stored)
                      /\ \A v \in Tabs : saving'[u][i].id \notin IdsOf(cases[v])
    BY <1>1 DEF SavesAreNew, IdsOf
  <2>1. CASE i \in DOMAIN saving[u] /\ saving'[u][i] = saving[u][i]
    BY <2>1 DEF CasesInv, SavesAreNew
  <2>2. CASE saving'[u][i] = new
    BY <1>4, <1>12, <2>2
  <2> QED
    BY <1>9, <2>1, <2>2
<1>14. SavesDiffer'
  <2> SUFFICES ASSUME NEW u \in Tabs, NEW v \in Tabs,
                      NEW i \in DOMAIN saving'[u], NEW j \in DOMAIN saving'[v],
                      saving'[u][i].id = saving'[v][j].id
               PROVE  u = v /\ i = j
    BY DEF SavesDiffer
  <2> DEFINE Old(w, m) == m \in DOMAIN saving[w] /\ saving'[w][m] = saving[w][m]
             New(w, m) == w = t /\ m = Len(q) + 1 /\ saving'[w][m] = new
  <2>1. (Old(u, i) \/ New(u, i)) /\ (Old(v, j) \/ New(v, j))
    BY <1>9
  <2>2. CASE Old(u, i) /\ Old(v, j)
    BY <2>2 DEF CasesInv, SavesDiffer
  <2>3. CASE New(u, i) /\ New(v, j)
    BY <2>3
  <2>4. CASE Old(u, i) /\ New(v, j)
    <3>1. saving[u][i].id \in 1..saves /\ saving[u][i].id = k
      BY <1>4, <1>10, <2>4
    <3> QED
      BY <1>2, <1>4, <3>1
  <2>5. CASE New(u, i) /\ Old(v, j)
    <3>1. saving[v][j].id \in 1..saves /\ saving[v][j].id = k
      BY <1>4, <1>10, <2>5
    <3> QED
      BY <1>2, <1>4, <3>1
  <2> QED
    BY <2>1, <2>2, <2>3, <2>4, <2>5
<1>15. ResultsBearTheirCases' /\ ListsAreStored'
  BY <1>1 DEF CasesInv, ResultsBearTheirCases, BearsItsCase, ListsAreStored, ListIsStored
<1> QED
  BY <1>7, <1>8, <1>11, <1>13, <1>14, <1>15 DEF CasesInv

\* A write that fits makes the list of its tab the storage.
LEMMA Written ==
  ASSUME CasesTyped, NEW t \in Tabs, NEW list, Persist(t, list, TRUE)
  PROVE  stored' = list /\ behind' = Tabs \ {t}
BY DEF Persist, CasesTyped

LEMMA StoredAfterWrite ==
  ASSUME CasesTyped, NEW t \in Tabs, Persist(t, cases'[t], TRUE)
  PROVE  ListsAreStored'
<1>1. stored' = cases'[t] /\ behind' = Tabs \ {t}
  BY Written
<1>2. ASSUME NEW u \in Tabs PROVE ListIsStored(u)'
  BY <1>1 DEF ListIsStored
<1> QED
  BY <1>2 DEF ListsAreStored

\* One that does not fit leaves a list that has no case but those stored.
LEMMA StoredAfterRefusal ==
  ASSUME ListsAreStored, NEW t \in Tabs, UNCHANGED <<stored, behind>>,
         \A u \in Tabs \ {t} : cases'[u] = cases[u],
         gone \subseteq gone', forgot \subseteq forgot',
         IdsOf(cases'[t]) \subseteq IdsOf(cases[t]),
         t \notin forgot' => IdsOf(cases[t]) \ IdsOf(cases'[t]) \subseteq gone'
  PROVE  ListsAreStored'
<1>1. ASSUME NEW u \in Tabs PROVE ListIsStored(u)'
  <2>1. ListIsStored(u)
    BY DEF ListsAreStored
  <2>2. CASE u = t
    BY <2>1, <2>2 DEF ListIsStored
  <2>3. CASE u # t
    BY <2>1, <2>3 DEF ListIsStored
  <2> QED
    BY <2>2, <2>3
<1> QED
  BY <1>1 DEF ListsAreStored

\* A tab writes some of its cases, and tells of the others.
LEMMA SetCasesStep ==
  ASSUME CasesInv, NEW t \in Tabs, NEW list \in Seq(CaseRecords),
         Len(list) <= Len(cases[t]), ToSet(list) \subseteq ToSet(cases[t]),
         IdsOf(cases[t]) \ IdsOf(list) \subseteq gone', gone \subseteq gone',
         SetCases(t, list), UNCHANGED <<current, saving, saves, overlapped, forgot>>
  PROVE  CasesInv' /\ TellsOfLoss
<1>1. /\ cases' = [cases EXCEPT ![t] = list] /\ \E ok \in BOOLEAN : Persist(t, list, ok)
      /\ current' = current /\ saving' = saving /\ saves' = saves
      /\ overlapped' = overlapped /\ forgot' = forgot
  BY DEF SetCases
<1>2. CasesTyped /\ ListsAreStored
  BY DEF CasesInv
<1>3. cases'[t] = list /\ \A u \in Tabs \ {t} : cases'[u] = cases[u]
  BY <1>1, <1>2 DEF CasesTyped
<1>4. \/ stored' = list /\ behind' = Tabs \ {t} /\ Persist(t, list, TRUE)
      \/ stored' = stored /\ behind' = behind
  <2>1. PICK ok \in BOOLEAN : Persist(t, list, ok)
    BY <1>1
  <2>2. CASE ok = TRUE
    BY <1>2, <2>1, <2>2, Written
  <2>3. CASE ok = FALSE
    BY <2>1, <2>3 DEF Persist
  <2> QED
    BY <2>2, <2>3
<1>5. IdsOf(list) \subseteq IdsOf(cases[t])
  BY DEF IdsOf
<1>6. CasesTyped'
  <2>1. behind' \subseteq Tabs /\ stored' \in Seq(CaseRecords)
    BY <1>2, <1>4 DEF CasesTyped
  <2>2. cases' \in [Tabs -> Seq(CaseRecords)]
    BY <1>1, <1>2 DEF CasesTyped
  <2> QED
    BY <1>1, <1>2, <2>1, <2>2 DEF CasesTyped
<1>7. ListsAreTrue'
  <2>1. TrueList(stored, overlapped, saves) /\ \A u \in Tabs : TrueList(cases[u], overlapped, saves)
    BY DEF CasesInv, ListsAreTrue
  <2>2. TrueList(list, overlapped, saves)
    <3>1. Len(list) \in Nat /\ Len(cases[t]) \in Nat /\ CaseCap \in Nat
      BY <1>2, LenProperties, CaseBookAssumption DEF CasesTyped
    <3> QED
      BY <2>1, <3>1 DEF TrueList
  <2>3. TrueList(stored', overlapped, saves)
    BY <1>4, <2>1, <2>2
  <2>4. \A u \in Tabs : TrueList(cases'[u], overlapped, saves)
    BY <1>3, <2>1, <2>2
  <2> QED
    BY <1>1, <2>3, <2>4 DEF ListsAreTrue
<1>8. SavesWait' /\ SavesDiffer'
  BY <1>1 DEF CasesInv, SavesWait, SavesDiffer
<1>9. SavesAreNew'
  <2> SUFFICES ASSUME NEW u \in Tabs, NEW i \in DOMAIN saving[u]
               PROVE  /\ saving[u][i].id \notin IdsOf(stored')
                      /\ \A v \in Tabs : saving[u][i].id \notin IdsOf(cases'[v])
    BY <1>1 DEF SavesAreNew, IdsOf
  <2>1. /\ saving[u][i].id \notin IdsOf(stored)
        /\ \A v \in Tabs : saving[u][i].id \notin IdsOf(cases[v])
    BY DEF CasesInv, SavesAreNew
  <2>2. saving[u][i].id \notin IdsOf(list)
    BY <1>5, <2>1
  <2> QED
    BY <1>3, <1>4, <2>1, <2>2
<1>10. ResultsBearTheirCases'
  <2> SUFFICES ASSUME NEW u \in Tabs PROVE BearsItsCase(cases'[u], current[u], overlapped)
    BY <1>1 DEF ResultsBearTheirCases
  <2>1. BearsItsCase(cases[u], current[u], overlapped)
    BY DEF CasesInv, ResultsBearTheirCases
  <2>2. ToSet(cases'[u]) \subseteq ToSet(cases[u])
    BY <1>3
  <2> QED
    BY <2>1, <2>2 DEF BearsItsCase
<1>11. CASE stored' = list /\ behind' = Tabs \ {t} /\ Persist(t, list, TRUE)
  <2>1. ListsAreStored'
    BY <1>2, <1>3, <1>11, StoredAfterWrite
  <2>2. TellsOfLoss
    <3> SUFFICES ASSUME t \notin behind \cup forgot
                 PROVE  IdsOf(stored) \ IdsOf(stored') \subseteq gone'
      BY <1>11 DEF TellsOfLoss
    <3>1. IdsOf(stored) \ IdsOf(cases[t]) \subseteq gone
      BY <1>2 DEF ListsAreStored, ListIsStored
    <3> QED
      BY <1>11, <3>1
  <2> QED
    BY <1>6, <1>7, <1>8, <1>9, <1>10, <2>1, <2>2 DEF CasesInv
<1>12. CASE stored' = stored /\ behind' = behind
  <2>1. ListsAreStored'
    BY <1>1, <1>2, <1>3, <1>5, <1>12, StoredAfterRefusal
  <2>2. TellsOfLoss
    BY <1>12 DEF TellsOfLoss
  <2> QED
    BY <1>6, <1>7, <1>8, <1>9, <1>10, <2>1, <2>2 DEF CasesInv
<1> QED
  BY <1>4, <1>11, <1>12

LEMMA ReloadTabStep ==
  ASSUME CasesInv, NEW t \in Tabs, ReloadTab(t)
  PROVE  CasesInv'
<1>1. /\ cases' = [cases EXCEPT ![t] = stored]
      /\ current' = [current EXCEPT ![t] = [n |-> NoResult, case |-> NoCase]]
      /\ saving' = [saving EXCEPT ![t] = <<>>]
      /\ behind' = behind \ {t} /\ forgot' = forgot \ {t}
      /\ stored' = stored /\ saves' = saves /\ overlapped' = overlapped /\ gone' = gone
  BY DEF ReloadTab
<1>2. CasesTyped
  BY DEF CasesInv
<1>3. /\ cases'[t] = stored /\ saving'[t] = <<>> /\ current'[t].case = NoCase
      /\ \A u \in Tabs \ {t} : cases'[u] = cases[u] /\ saving'[u] = saving[u]
                               /\ current'[u] = current[u]
  BY <1>1, <1>2 DEF CasesTyped
<1>4. DOMAIN saving'[t] = {}
  BY <1>3, EmptySeq
<1>5. CasesTyped'
  <2>1. <<>> \in Seq(SaveRecords) /\ NoResult \in Int /\ NoCase \in Nat
    BY EmptySeq DEF NoResult, NoCase
  <2> QED
    BY <1>1, <1>2, <2>1 DEF CasesTyped
<1>6. ListsAreTrue'
  <2>1. TrueList(stored, overlapped, saves) /\ \A u \in Tabs : TrueList(cases[u], overlapped, saves)
    BY DEF CasesInv, ListsAreTrue
  <2>2. \A u \in Tabs : TrueList(cases'[u], overlapped, saves)
    BY <1>3, <2>1
  <2> QED
    BY <1>1, <2>1, <2>2 DEF ListsAreTrue
\* What waits after the step waited before, in another tab.
<1>7. ASSUME NEW u \in Tabs, NEW i \in DOMAIN saving'[u]
      PROVE  u # t /\ i \in DOMAIN saving[u] /\ saving'[u][i] = saving[u][i]
  BY <1>3, <1>4, <1>7
<1>8. SavesWait'
  <2> SUFFICES ASSUME NEW u \in Tabs, NEW i \in DOMAIN saving'[u]
               PROVE  /\ saving'[u][i].id \in 1..saves
                      /\ Waits(saving'[u][i], current'[u].n, overlapped)
    BY <1>1 DEF SavesWait
  <2>1. u # t /\ i \in DOMAIN saving[u] /\ saving'[u][i] = saving[u][i]
    BY <1>7
  <2>2. saving[u][i].id \in 1..saves /\ Waits(saving[u][i], current[u].n, overlapped)
    BY <2>1 DEF CasesInv, SavesWait
  <2> QED
    BY <1>3, <2>1, <2>2
<1>9. SavesAreNew'
  <2> SUFFICES ASSUME NEW u \in Tabs, NEW i \in DOMAIN saving'[u]
               PROVE  /\ saving'[u][i].id \notin IdsOf(stored)
                      /\ \A v \in Tabs : saving'[u][i].id \notin IdsOf(cases'[v])
    BY <1>1 DEF SavesAreNew, IdsOf
  <2>1. i \in DOMAIN saving[u] /\ saving'[u][i] = saving[u][i]
    BY <1>7
  <2>2. /\ saving[u][i].id \notin IdsOf(stored)
        /\ \A v \in Tabs : saving[u][i].id \notin IdsOf(cases[v])
    BY <2>1 DEF CasesInv, SavesAreNew
  <2> QED
    BY <1>3, <2>1, <2>2
<1>10. SavesDiffer'
  <2> SUFFICES ASSUME NEW u \in Tabs, NEW v \in Tabs,
                      NEW i \in DOMAIN saving'[u], NEW j \in DOMAIN saving'[v],
                      saving'[u][i].id = saving'[v][j].id
               PROVE  u = v /\ i = j
    BY DEF SavesDiffer
  <2>1. i \in DOMAIN saving[u] /\ saving'[u][i] = saving[u][i]
    BY <1>7
  <2>2. j \in DOMAIN saving[v] /\ saving'[v][j] = saving[v][j]
    BY <1>7
  <2> QED
    BY <2>1, <2>2 DEF CasesInv, SavesDiffer
<1>11. ResultsBearTheirCases'
  <2> SUFFICES ASSUME NEW u \in Tabs PROVE BearsItsCase(cases'[u], current'[u], overlapped)
    BY <1>1 DEF ResultsBearTheirCases
  <2>1. CASE u = t
    BY <1>3, <2>1 DEF BearsItsCase
  <2>2. CASE u # t
    BY <1>3, <2>2 DEF CasesInv, ResultsBearTheirCases
  <2> QED
    BY <2>1, <2>2
<1>12. ListsAreStored'
  <2> SUFFICES ASSUME NEW u \in Tabs PROVE ListIsStored(u)'
    BY DEF ListsAreStored
  <2>1. CASE u = t
    BY <1>1, <1>3, <2>1 DEF ListIsStored
  <2>2. CASE u # t
    <3>1. ListIsStored(u)
      BY DEF CasesInv, ListsAreStored
    <3> QED
      BY <1>1, <1>3, <2>2, <3>1 DEF ListIsStored
  <2> QED
    BY <2>1, <2>2
<1> QED
  BY <1>5, <1>6, <1>8, <1>9, <1>10, <1>11, <1>12 DEF CasesInv

LEMMA CaseSavedStep ==
  ASSUME CasesInv, NEW t \in Tabs, NEW i \in DOMAIN saving[t], CaseSaved(t, i)
  PROVE  CasesInv' /\ TellsOfLoss
<1> DEFINE begun == saving[t][i]
           id == begun.id
           new == [id |-> id, of |-> begun.of, summary |-> current[t].n]
           all == WithCase(cases[t], new)
           oldest == IF Len(cases[t]) = CaseCap THEN {Last(cases[t]).id} ELSE {}
           q == saving[t]
           p == RemoveAt(q, i)
           L == cases'[t]
<1>1. PICK ok \in BOOLEAN :
        /\ current' = [current EXCEPT ![t].case = id]
        /\ Persist(t, all, ok)
        /\ cases' = [cases EXCEPT ![t] = IF ok THEN all ELSE AfterFailedSave(all, id)]
        /\ gone' = IF ok THEN gone \cup oldest ELSE gone
        /\ forgot' = IF ok \/ oldest = {} THEN forgot ELSE forgot \cup {t}
        /\ saving' = [saving EXCEPT ![t] = p]
        /\ saves' = saves /\ overlapped' = overlapped
  BY DEF CaseSaved
<1>2. CasesTyped /\ ListsAreStored
  BY DEF CasesInv
<1>3. /\ q \in Seq(SaveRecords) /\ i \in 1..Len(q) /\ begun \in SaveRecords
      /\ saves \in Nat /\ current[t].n \in Int /\ current[t] \in [n : Int, case : Nat]
      /\ stored \in Seq(CaseRecords) /\ \A u \in Tabs : cases[u] \in Seq(CaseRecords)
  <2>1. q \in Seq(SaveRecords)
    BY <1>2 DEF CasesTyped
  <2>2. i \in 1..Len(q) /\ begun \in SaveRecords
    BY <2>1, LenProperties, ElementOfSeq
  <2> QED
    BY <1>2, <2>1, <2>2 DEF CasesTyped
<1>4. new \in CaseRecords /\ id \in Nat
  BY <1>3 DEF SaveRecords, CaseRecords
<1>5. /\ id \in 1..saves /\ Waits(begun, current[t].n, overlapped)
      /\ id \notin IdsOf(stored) /\ \A u \in Tabs : id \notin IdsOf(cases[u])
  BY DEF CasesInv, SavesWait, SavesAreNew
<1>6. new.id = id /\ new.of = begun.of /\ new.summary = current[t].n
  OBVIOUS
<1>7. p \in Seq(SaveRecords) /\ \A k \in DOMAIN p : \E m \in DOMAIN q :
        m # i /\ p[k] = q[m] /\ m = (IF k < i THEN k ELSE k + 1)
  BY <1>3, RemoveAtIs
<1>8. /\ saving'[t] = p /\ \A u \in Tabs \ {t} : saving'[u] = saving[u]
      /\ current'[t] = [n |-> current[t].n, case |-> id]
      /\ \A u \in Tabs \ {t} : current'[u] = current[u]
      /\ L = (IF ok THEN all ELSE AfterFailedSave(all, id))
      /\ \A u \in Tabs \ {t} : cases'[u] = cases[u]
  BY <1>1, <1>2, <1>3 DEF CasesTyped
<1> HIDE DEF begun, id, new, p
<1>9. TrueList(stored, overlapped, saves) /\ \A u \in Tabs : TrueList(cases[u], overlapped, saves)
  BY DEF CasesInv, ListsAreTrue
<1>10. /\ all \in Seq(CaseRecords) /\ Len(all) <= CaseCap
       /\ ToSet(all) \subseteq {new} \cup ToSet(cases[t])
       /\ IdsOf(cases[t]) \subseteq IdsOf(all) \cup oldest
  <2>1. Len(cases[t]) <= CaseCap
    BY <1>9 DEF TrueList
  <2> QED
    BY <1>3, <1>4, <2>1, WithCaseIs
<1>11. ASSUME ~ok
       PROVE  /\ L \in Seq(CaseRecords) /\ Len(L) <= Len(all) /\ ToSet(L) \subseteq ToSet(all)
              /\ IdsOf(L) = IdsOf(all) \ {id}
  BY <1>8, <1>10, <1>11, WithoutCaseIs DEF AfterFailedSave
<1>12. /\ L \in Seq(CaseRecords) /\ Len(L) <= CaseCap
       /\ ToSet(L) \subseteq {new} \cup ToSet(cases[t])
  <2>1. CASE ok
    BY <1>8, <1>10, <2>1
  <2>2. CASE ~ok
    <3>1. L \in Seq(CaseRecords) /\ Len(L) <= Len(all) /\ ToSet(L) \subseteq ToSet(all)
      BY <1>11, <2>2
    <3>2. Len(L) \in Nat /\ Len(all) \in Nat /\ CaseCap \in Nat
      BY <1>10, <3>1, LenProperties, CaseBookAssumption
    <3> HIDE DEF all, L
    <3> QED
      BY <1>10, <3>1, <3>2
  <2> QED
    BY <2>1, <2>2
<1>13. \A u \in Tabs : IdsOf(cases'[u]) \subseteq {id} \cup IdsOf(cases[u])
  <2>1. IdsOf(L) \subseteq {id} \cup IdsOf(cases[t])
    BY <1>6, <1>12 DEF IdsOf
  <2> QED
    BY <1>8, <2>1
<1>14. /\ ok => stored' = L /\ behind' = Tabs \ {t} /\ Persist(t, L, TRUE)
       /\ ~ok => stored' = stored /\ behind' = behind
  <2>1. CASE ok
    BY <1>1, <1>2, <1>8, <2>1, Written
  <2>2. CASE ~ok
    BY <1>1, <2>2 DEF Persist
  <2> QED
    BY <2>1, <2>2
<1>15. IdsOf(stored') \subseteq {id} \cup IdsOf(stored) \cup IdsOf(cases[t])
  BY <1>13, <1>14
<1> HIDE DEF all, oldest
<1>16. CasesTyped'
  <2>1. stored' \in Seq(CaseRecords) /\ behind' \subseteq Tabs
    BY <1>2, <1>3, <1>12, <1>14 DEF CasesTyped
  <2>2. cases' \in [Tabs -> Seq(CaseRecords)]
    BY <1>1, <1>2, <1>8, <1>12 DEF CasesTyped
  <2>3. current' \in [Tabs -> [n : Int, case : Nat]]
    BY <1>1, <1>2, <1>4 DEF CasesTyped
  <2>4. saving' \in [Tabs -> Seq(SaveRecords)]
    BY <1>1, <1>2, <1>7 DEF CasesTyped
  <2> QED
    BY <1>1, <1>2, <2>1, <2>2, <2>3, <2>4 DEF CasesTyped
<1>17. ListsAreTrue'
  <2>1. new.id <= saves /\ (new.id \notin overlapped => new.summary = new.of)
    <3>1. id \in 1..saves /\ saves \in Nat
      BY <1>3, <1>5
    <3>2. id <= saves
      BY <3>1
    <3>3. id \notin overlapped => current[t].n = begun.of
      BY <1>5 DEF Waits, id
    <3> QED
      BY <1>6, <3>2, <3>3
  <2>2. TrueList(L, overlapped, saves)
    <3>1. TrueList(cases[t], overlapped, saves)
      BY <1>9
    <3> HIDE DEF L
    <3> QED
      BY <1>12, <2>1, <3>1 DEF TrueList
  <2>3. TrueList(stored', overlapped, saves)
    BY <1>9, <1>14, <2>2
  <2>4. \A u \in Tabs : TrueList(cases'[u], overlapped, saves)
    BY <1>8, <1>9, <2>2
  <2> QED
    BY <1>1, <2>3, <2>4 DEF ListsAreTrue
\* What waits after the step waited before, and is not the save that has ended.
<1>18. ASSUME NEW u \in Tabs, NEW k \in DOMAIN saving'[u]
       PROVE  \E m \in DOMAIN saving[u] :
                /\ saving'[u][k] = saving[u][m] /\ saving[u][m].id # id
                /\ m = (IF u = t /\ ~(k < i) THEN k + 1 ELSE k)
  <2>1. CASE u = t
    <3>1. PICK m \in DOMAIN q : m # i /\ p[k] = q[m] /\ m = (IF k < i THEN k ELSE k + 1)
      BY <1>7, <1>8, <2>1
    <3>2. q[m].id # id
      BY <3>1 DEF CasesInv, SavesDiffer, id, begun
    <3> QED
      BY <1>8, <2>1, <3>1, <3>2
  <2>2. CASE u # t
    <3>1. saving'[u] = saving[u]
      BY <1>8, <2>2
    <3>2. saving[u][k].id # id
      BY <2>2, <3>1 DEF CasesInv, SavesDiffer, id, begun
    <3> QED
      BY <2>2, <3>1, <3>2
  <2> QED
    BY <2>1, <2>2
<1>19. \A u \in Tabs : current'[u].n = current[u].n
  BY <1>8
<1>20. SavesWait'
  <2> SUFFICES ASSUME NEW u \in Tabs, NEW k \in DOMAIN saving'[u]
               PROVE  /\ saving'[u][k].id \in 1..saves
                      /\ Waits(saving'[u][k], current'[u].n, overlapped)
    BY <1>1 DEF SavesWait
  <2>1. PICK m \in DOMAIN saving[u] : saving'[u][k] = saving[u][m]
    BY <1>18
  <2> QED
    BY <1>19, <2>1 DEF CasesInv, SavesWait
<1>21. SavesAreNew'
  <2> SUFFICES ASSUME NEW u \in Tabs, NEW k \in DOMAIN saving'[u]
               PROVE  /\ saving'[u][k].id \notin IdsOf(stored')
                      /\ \A v \in Tabs : saving'[u][k].id \notin IdsOf(cases'[v])
    BY DEF SavesAreNew, IdsOf
  <2>1. PICK m \in DOMAIN saving[u] : saving'[u][k] = saving[u][m] /\ saving[u][m].id # id
    BY <1>18
  <2>2. /\ saving[u][m].id \notin IdsOf(stored)
        /\ \A v \in Tabs : saving[u][m].id \notin IdsOf(cases[v])
    BY DEF CasesInv, SavesAreNew
  <2>3. saving[u][m].id \notin IdsOf(stored')
    BY <1>15, <2>1, <2>2
  <2>4. \A v \in Tabs : saving[u][m].id \notin IdsOf(cases'[v])
    BY <1>13, <2>1, <2>2
  <2> QED
    BY <2>1, <2>3, <2>4
<1>22. SavesDiffer'
  <2> SUFFICES ASSUME NEW u \in Tabs, NEW v \in Tabs,
                      NEW k \in DOMAIN saving'[u], NEW j \in DOMAIN saving'[v],
                      saving'[u][k].id = saving'[v][j].id
               PROVE  u = v /\ k = j
    BY DEF SavesDiffer
  <2>1. PICK m \in DOMAIN saving[u] : /\ saving'[u][k] = saving[u][m]
                                      /\ m = (IF u = t /\ ~(k < i) THEN k + 1 ELSE k)
    BY <1>18
  <2>2. PICK l \in DOMAIN saving[v] : /\ saving'[v][j] = saving[v][l]
                                      /\ l = (IF v = t /\ ~(j < i) THEN j + 1 ELSE j)
    BY <1>18
  <2>3. u = v /\ m = l
    BY <2>1, <2>2 DEF CasesInv, SavesDiffer
  <2>4. k \in Nat /\ j \in Nat /\ i \in Nat
    <3>1. saving'[u] \in Seq(SaveRecords) /\ saving'[v] \in Seq(SaveRecords)
      BY <1>16 DEF CasesTyped
    <3> QED
      BY <1>3, <3>1, LenProperties
  <2> QED
    BY <2>1, <2>2, <2>3, <2>4
<1>23. ResultsBearTheirCases'
  <2> SUFFICES ASSUME NEW u \in Tabs PROVE BearsItsCase(cases'[u], current'[u], overlapped)
    BY <1>1 DEF ResultsBearTheirCases
  <2>1. CASE u = t
    <3> SUFFICES ASSUME NEW c \in ToSet(L), c.id \notin overlapped, id = c.id
                 PROVE  current[t].n = c.of
      BY <1>8, <2>1 DEF BearsItsCase
    <3>1. c \notin ToSet(cases[t])
      BY <1>5 DEF IdsOf
    <3>2. c = new
      BY <1>12, <3>1
    <3> QED
      BY <1>5, <1>6, <3>2 DEF Waits, id
  <2>2. CASE u # t
    BY <1>8, <2>2 DEF CasesInv, ResultsBearTheirCases
  <2> QED
    BY <2>1, <2>2
<1>24. CASE ok
  <2>1. ListsAreStored'
    BY <1>2, <1>14, <1>24, StoredAfterWrite
  <2>2. TellsOfLoss
    <3> SUFFICES ASSUME t \notin behind \cup forgot
                 PROVE  IdsOf(stored) \ IdsOf(stored') \subseteq gone'
      BY <1>14, <1>24 DEF TellsOfLoss
    <3>1. IdsOf(stored) \ IdsOf(cases[t]) \subseteq gone
      BY <1>2 DEF ListsAreStored, ListIsStored
    <3>2. gone' = gone \cup oldest /\ stored' = all
      BY <1>1, <1>8, <1>14, <1>24
    <3> QED
      BY <1>10, <3>1, <3>2
  <2> QED
    BY <1>16, <1>17, <1>20, <1>21, <1>22, <1>23, <2>1, <2>2 DEF CasesInv
<1>25. CASE ~ok
  <2>1. gone' = gone /\ stored' = stored /\ behind' = behind /\ IdsOf(L) = IdsOf(all) \ {id}
    BY <1>1, <1>11, <1>14, <1>25
  <2>2. IdsOf(L) \subseteq IdsOf(cases[t])
    BY <1>13, <2>1
  <2>3. forgot \subseteq forgot' /\ (t \notin forgot' => oldest = {})
    BY <1>1, <1>25
  <2>4. t \notin forgot' => IdsOf(cases[t]) \ IdsOf(L) \subseteq gone'
    BY <1>5, <1>10, <2>1, <2>3
  <2>5. ListsAreStored'
    BY <1>2, <1>8, <2>1, <2>2, <2>3, <2>4, StoredAfterRefusal
  <2>6. TellsOfLoss
    BY <2>1 DEF TellsOfLoss
  <2> QED
    BY <1>16, <1>17, <1>20, <1>21, <1>22, <1>23, <2>5, <2>6 DEF CasesInv
<1> QED
  BY <1>24, <1>25

LEMMA CasesStep ==
  ASSUME CasesInv, [CasesNext]_caseVars
  PROVE  CasesInv' /\ (TellsOfLoss \/ UNCHANGED caseVars)
<1>1. CasesTyped
  BY DEF CasesInv
<1>2. ASSUME NEW t \in Tabs, NewResultShown(t) PROVE CasesInv' /\ TellsOfLoss
  <2>1. Max({current[t].n, NoResult}) \in Int
    <3>1. current[t].n \in Int /\ NoResult \in Int
      BY <1>1 DEF CasesTyped, NoResult
    <3> QED
      BY <3>1, MaxOfTwo
  <2>2. CasesInv'
    BY <1>2, <2>1, TakeResultStep DEF NewResultShown
  <2> QED
    BY <1>2, <2>2 DEF NewResultShown, TellsOfLoss
<1>3. ASSUME NEW t \in Tabs, SaveCase(t) PROVE CasesInv' /\ TellsOfLoss
  <2>1. CasesInv'
    BY <1>3, SaveCaseStep
  <2> QED
    BY <1>3, <2>1 DEF SaveCase, TellsOfLoss
<1>4. ASSUME NEW t \in Tabs, LoadCase(t) PROVE CasesInv' /\ TellsOfLoss
  <2>1. CasesInv'
    BY <1>4, TakeResultStep DEF LoadCase, OldResult
  <2> QED
    BY <1>4, <2>1 DEF LoadCase, TellsOfLoss
<1>5. ASSUME NEW t \in Tabs, ClearAllCases(t) PROVE CasesInv' /\ TellsOfLoss
  <2>1. /\ <<>> \in Seq(CaseRecords) /\ Len(<<>>) = 0 /\ ToSet(<<>>) = {}
        /\ IdsOf(<<>>) = {} /\ Len(cases[t]) \in Nat
    BY <1>1, EmptySeq, LenProperties DEF CasesTyped, ToSet, IdsOf
  <2>2. SetCases(t, <<>>) /\ gone' = gone \cup IdsOf(cases[t])
        /\ UNCHANGED <<current, saving, saves, overlapped, forgot>>
    BY <1>5 DEF ClearAllCases
  <2>3. /\ Len(<<>>) <= Len(cases[t]) /\ ToSet(<<>>) \subseteq ToSet(cases[t])
        /\ IdsOf(cases[t]) \ IdsOf(<<>>) \subseteq gone' /\ gone \subseteq gone'
    BY <2>1, <2>2
  <2> QED
    BY <2>1, <2>2, <2>3, SetCasesStep
<1>6. ASSUME NEW t \in Tabs, SaveCaseNote(t) PROVE CasesInv' /\ TellsOfLoss
  <2>1. cases[t] \in Seq(CaseRecords) /\ Len(cases[t]) \in Nat
    BY <1>1, LenProperties DEF CasesTyped
  <2>2. SetCases(t, cases[t]) /\ gone' = gone
        /\ UNCHANGED <<current, saving, saves, overlapped, forgot>>
    BY <1>6 DEF SaveCaseNote
  <2>3. /\ Len(cases[t]) <= Len(cases[t]) /\ ToSet(cases[t]) \subseteq ToSet(cases[t])
        /\ IdsOf(cases[t]) \ IdsOf(cases[t]) \subseteq gone' /\ gone \subseteq gone'
    BY <2>1, <2>2
  <2> QED
    BY <2>1, <2>2, <2>3, SetCasesStep
<1>7. ASSUME NEW t \in Tabs, ReloadTab(t) PROVE CasesInv' /\ TellsOfLoss
  <2>1. CasesInv'
    BY <1>7, ReloadTabStep
  <2> QED
    BY <1>7, <2>1 DEF ReloadTab, TellsOfLoss
<1>8. ASSUME NEW t \in Tabs, NEW id \in IdsOf(cases[t]), DeleteCase(t, id)
      PROVE  CasesInv' /\ TellsOfLoss
  <2> DEFINE rest == WithoutCase(cases[t], id)
  <2>1. cases[t] \in Seq(CaseRecords)
    BY <1>1 DEF CasesTyped
  <2>2. /\ rest \in Seq(CaseRecords) /\ Len(rest) <= Len(cases[t])
        /\ ToSet(rest) \subseteq ToSet(cases[t]) /\ IdsOf(rest) = IdsOf(cases[t]) \ {id}
    BY <2>1, WithoutCaseIs
  <2>3. SetCases(t, rest) /\ gone' = gone \cup {id}
        /\ UNCHANGED <<current, saving, saves, overlapped, forgot>>
    BY <1>8 DEF DeleteCase
  <2> HIDE DEF rest
  <2>4. IdsOf(cases[t]) \ IdsOf(rest) \subseteq gone' /\ gone \subseteq gone'
    BY <2>2, <2>3
  <2> QED
    BY <2>2, <2>3, <2>4, SetCasesStep
<1>9. CASE UNCHANGED caseVars
  <2>1. CasesInv'
    BY <1>9 DEF CasesInv, CasesTyped, ListsAreTrue, SavesWait, SavesAreNew, SavesDiffer,
                ResultsBearTheirCases, ListsAreStored, ListIsStored, caseVars
  <2> QED
    BY <1>9, <2>1
<1> QED
  BY <1>2, <1>3, <1>4, <1>5, <1>6, <1>7, <1>8, <1>9, CaseSavedStep DEF CasesNext

LEMMA CasesInvariance == CasesSpec => []CasesInv
<1>1. CaseBookInit => CasesInv
  BY CasesInitially
<1>2. CasesInv /\ [CasesNext]_caseVars => CasesInv'
  BY CasesStep
<1> QED
  BY <1>1, <1>2, PTL DEF CasesSpec

\* A case is of the search it was saved for, the result that bears its id is the
\* one it was made from, a tab that is up to date shows no case that is not
\* stored, and the storage loses a case only as the user was told; however saves
\* overlap, fail and end in any number of tabs over one storage (cases.js).
THEOREM CasesOutliveTheTabs == CasesSpec => CasesAreSafe
<1>1. CasesInv => CaseIsOfOneSearch
  BY DEF CasesInv, CaseIsOfOneSearch, ListsAreTrue, TrueList, ResultsBearTheirCases, BearsItsCase
<1>2. CasesInv => NothingOnlyInMemory
  BY DEF CasesInv, NothingOnlyInMemory, ListsAreStored, ListIsStored
<1>3. CasesInv /\ [CasesNext]_caseVars =>
        [\/ IdsOf(stored) \ IdsOf(stored') \subseteq gone'
         \/ \E t \in behind \cup forgot : behind' = Tabs \ {t}]_caseVars
  BY CasesStep DEF TellsOfLoss
<1> QED
  BY <1>1, <1>2, <1>3, CasesInvariance, PTL DEF CasesSpec, CasesAreSafe, NoSilentLoss

-----------------------------------------------------------------------------
(***************************************************************************)
(* Where cases are listed.  No two cases of a list share an id or a time,  *)
(* so that the order of a list is one; a save that waits for its hash has  *)
(* a time of its own.  Memory and storage differ in what was refused only. *)
(***************************************************************************)
BookRecords == [id : Nat, hashed : BOOLEAN, updated : Nat]

\* The cases of a list are of different times, none of them after now.
Timed(list, upto) ==
  /\ \A c \in ToSet(list) : c.id <= upto /\ c.updated <= upto
  /\ \A c, d \in ToSet(list) : c.updated = d.updated => c = d

ListOfCases(list, upto) ==
  /\ list \in Seq(BookRecords) /\ Len(list) <= CasesKept
  /\ DistinctIds(list, Len(list)) /\ Timed(list, upto)

ListsTyped ==
  /\ changes \in Nat /\ hashing \subseteq Nat /\ pushedOut \subseteq Nat
  /\ panel \in [open : BOOLEAN, ids : Seq(Nat)]

SavesAreToCome ==
  /\ \A t \in hashing :
       /\ t <= changes /\ t \notin pushedOut
       /\ \A c \in ToSet(book) : c.id # t /\ c.updated # t
  /\ \A id \in pushedOut : id <= changes

\* Two lists have the same cases, but for those of some ids.
SameCases(a, b, others) ==
  \A c \in ToSet(a) \cup ToSet(b) : c.id \notin others => c \in ToSet(a) /\ c \in ToSet(b)

ListsInv ==
  /\ ListsTyped /\ ListOfCases(book, changes) /\ ListOfCases(written, changes)
  /\ SavesAreToCome /\ SameCases(book, written, unwritten) /\ PanelShowsTheCases

-----------------------------------------------------------------------------
\* Cases of different times are put in one order, each of them once.
LEMMA LatestFirstIs ==
  ASSUME NEW set \in SUBSET BookRecords, IsFiniteSet(set),
         \A c, d \in set : c.updated = d.updated => c = d
  PROVE  /\ LatestFirst(set) \in Seq(BookRecords) /\ ToSet(LatestFirst(set)) = set
         /\ \A i, j \in 1..Len(LatestFirst(set)) :
              i < j => LatestFirst(set)[i].updated > LatestFirst(set)[j].updated
<1> DEFINE above == [c \in set |-> Later(set, c)]
           f == LatestFirst(set)
<1>1. \A c \in set : above[c] = {d \in set : d.updated > c.updated}
  BY DEF Later
<1>2. \A c \in set : c.updated \in Nat
  BY DEF BookRecords
<1> HIDE DEF above
<1>3. Orders(above, set)
  <2>1. \A c \in set : above[c] \subseteq set /\ c \notin above[c]
    BY <1>1, <1>2
  <2>2. \A a, b, c \in set : a \in above[b] /\ b \in above[c] => a \in above[c]
    BY <1>1, <1>2
  <2>3. \A a, b \in set : a = b \/ a \in above[b] \/ b \in above[a]
    BY <1>1, <1>2
  <2> QED
    BY <2>1, <2>2, <2>3 DEF Orders
<1>4. /\ Cardinality(set) \in Nat
      /\ \A i \in 1..Cardinality(set) : \E c \in set : Cardinality(above[c]) = i - 1
  BY <1>3, RanksExist
<1>5. \A c \in set : above[c] = Later(set, c)
  BY <1>1 DEF Later
<1>6. f = [i \in 1..Cardinality(set) |-> f[i]]
  BY DEF LatestFirst
<1>7. ASSUME NEW i \in 1..Cardinality(set)
      PROVE  f[i] \in set /\ Cardinality(above[f[i]]) = i - 1
  <2>1. f[i] = CHOOSE c \in set : Cardinality(Later(set, c)) = i - 1
    BY DEF LatestFirst
  <2>2. \E c \in set : Cardinality(Later(set, c)) = i - 1
    BY <1>4, <1>5
  <2>3. f[i] \in set /\ Cardinality(Later(set, f[i])) = i - 1
    BY <2>1, <2>2
  <2> QED
    BY <1>5, <2>3
<1> HIDE DEF f
<1>8. /\ f \in Seq(set) /\ Len(f) = Cardinality(set) /\ ToSet(f) = set
      /\ \A i, j \in 1..Len(f) : i < j => f[i] \in above[f[j]]
  BY <1>3, <1>6, <1>7, RankedIs
<1>9. \A i \in 1..Len(f) : f[i] \in set
  BY <1>8, ElementOfSeq
<1>10. \A i, j \in 1..Len(f) : i < j => f[i].updated > f[j].updated
  BY <1>1, <1>8, <1>9
<1>11. f \in Seq(BookRecords)
  <2>1. DOMAIN f = 1..Len(f) /\ Len(f) \in Nat /\ f = [i \in 1..Len(f) |-> f[i]]
    BY <1>8, LenProperties
  <2>2. f \in [1..Len(f) -> BookRecords]
    BY <1>9, <2>1
  <2> QED
    BY <2>1, <2>2, SeqDef
<1> QED
  BY <1>8, <1>10, <1>11 DEF f

LEMMA IdsInOrderIs ==
  ASSUME NEW list \in Seq(BookRecords)
  PROVE  /\ IdsInOrder(list) \in Seq(Nat) /\ Len(IdsInOrder(list)) = Len(list)
         /\ \A i \in 1..Len(list) : IdsInOrder(list)[i] = list[i].id
         /\ ToSet(IdsInOrder(list)) = {c.id : c \in ToSet(list)}
<1> DEFINE f == IdsInOrder(list)
           n == Len(list)
<1>1. DOMAIN list = 1..n /\ n \in Nat /\ \A i \in 1..n : list[i] \in BookRecords
  BY LenProperties, ElementOfSeq
<1>2. f = [i \in 1..n |-> list[i].id]
  BY <1>1 DEF IdsInOrder
<1> HIDE DEF f, n
<1>3. f \in [1..n -> Nat] /\ DOMAIN f = 1..n /\ \A i \in 1..n : f[i] = list[i].id
  BY <1>1, <1>2 DEF BookRecords
<1>4. f \in Seq(Nat)
  BY <1>1, <1>3, SeqDef
<1>5. DOMAIN f = 1..Len(f) /\ Len(f) \in Nat
  BY <1>4, LenProperties
<1>6. Len(f) = n
  <2>1. Cardinality(1..n) = n /\ Cardinality(1..Len(f)) = Len(f)
    BY <1>1, <1>5, FirstNaturals
  <2> QED
    BY <1>3, <1>5, <2>1
<1>7. ToSet(f) = {c.id : c \in ToSet(list)}
  BY <1>1, <1>3 DEF ToSet
<1> QED
  BY <1>3, <1>4, <1>6, <1>7 DEF f, n

\* The panel lists every case.
LEMMA DrawnIs ==
  ASSUME NEW list \in Seq(BookRecords), NEW upto, Timed(list, upto)
  PROVE  /\ Drawn(list) \in [open : BOOLEAN, ids : Seq(Nat)]
         /\ ToSet(Drawn(list).ids) = {c.id : c \in ToSet(list)}
<1> DEFINE set == ToSet(list)
           f == LatestFirst(set)
<1>1. set \subseteq BookRecords /\ IsFiniteSet(set)
  <2>1. DOMAIN list = 1..Len(list) /\ \A i \in 1..Len(list) : list[i] \in BookRecords
    BY LenProperties, ElementOfSeq
  <2> QED
    BY <2>1, ListIsFinite DEF ToSet
<1>2. \A c, d \in set : c.updated = d.updated => c = d
  BY DEF Timed
<1> HIDE DEF set
<1>3. f \in Seq(BookRecords) /\ ToSet(f) = set
  BY <1>1, <1>2, LatestFirstIs
<1>4. IdsInOrder(f) \in Seq(Nat) /\ ToSet(IdsInOrder(f)) = {c.id : c \in set}
  BY <1>3, IdsInOrderIs
<1>5. Drawn(list) = [open |-> TRUE, ids |-> IdsInOrder(f)]
  BY DEF Drawn, set
<1> QED
  BY <1>4, <1>5 DEF set

-----------------------------------------------------------------------------
\* What the rail shows of the cases that are stored.
AreTheLatest(ids, list) ==
  /\ Len(ids) <= RailSize
  /\ \A id \in ToSet(ids) : \E c \in ToSet(list) : c.id = id /\ c.hashed
  /\ \A c \in ToSet(list), d \in ToSet(list) :
       (c.hashed /\ c.id \notin ToSet(ids) /\ d.id \in ToSet(ids))
         => Len(ids) = RailSize /\ c.updated < d.updated

LEMMA SafeSignalCasesAre ==
  ASSUME ListsInv
  PROVE  AreTheLatest(SafeSignalCases, written)
<1> DEFINE set == {c \in ToSet(written) : c.hashed}
           safe == LatestFirst(set)
           m == Min({RailSize, Len(safe)})
           first == SubSeq(safe, 1, m)
           ids == IdsInOrder(first)
<1>1. /\ written \in Seq(BookRecords) /\ DistinctIds(written, Len(written)) /\ Timed(written, changes)
  BY DEF ListsInv, ListOfCases
<1>2. /\ DOMAIN written = 1..Len(written) /\ \A i \in 1..Len(written) : written[i] \in BookRecords
      /\ ToSet(written) \subseteq BookRecords /\ IsFiniteSet(ToSet(written))
  <2>1. DOMAIN written = 1..Len(written) /\ \A i \in 1..Len(written) : written[i] \in BookRecords
    BY <1>1, LenProperties, ElementOfSeq
  <2> QED
    BY <1>1, <2>1, ListIsFinite DEF ToSet
<1>3. set \subseteq ToSet(written) /\ IsFiniteSet(set) /\ \A c \in set : c.hashed
  BY <1>2, FS_Subset
<1>4. \A c, d \in ToSet(written) : c.id = d.id => c = d
  BY <1>1, <1>2 DEF DistinctIds, ToSet
<1>5. \A c \in ToSet(written) : c.hashed => c \in set
  OBVIOUS
<1> HIDE DEF set
<1>6. /\ safe \in Seq(BookRecords) /\ ToSet(safe) = set
      /\ \A i, j \in 1..Len(safe) : i < j => safe[i].updated > safe[j].updated
  <2>1. \A c, d \in set : c.updated = d.updated => c = d
    BY <1>1, <1>3 DEF Timed
  <2> QED
    BY <1>2, <1>3, <2>1, LatestFirstIs
<1>7. SafeSignalCases = ids
  BY DEF SafeSignalCases, set
<1> HIDE DEF safe
<1>8. /\ Len(safe) \in Nat /\ RailSize \in Nat \ {0}
      /\ \A i \in 1..Len(safe) : safe[i] \in BookRecords /\ safe[i] \in set
      /\ \A c \in set : \E i \in 1..Len(safe) : safe[i] = c
  <2>1. DOMAIN safe = 1..Len(safe) /\ \A i \in 1..Len(safe) : safe[i] \in BookRecords
    BY <1>6, LenProperties, ElementOfSeq
  <2> QED
    BY <1>6, <2>1, LenProperties, CaseListsAssumption DEF ToSet
<1>9. m = (IF RailSize <= Len(safe) THEN RailSize ELSE Len(safe)) /\ m \in Nat
      /\ m <= RailSize /\ m <= Len(safe) /\ (m < Len(safe) => m = RailSize)
  <2>1. m = IF RailSize <= Len(safe) THEN RailSize ELSE Len(safe)
    BY <1>8, MinOfTwo
  <2> HIDE DEF m
  <2> QED
    BY <1>8, <2>1
<1> HIDE DEF m
<1>10. first \in Seq(BookRecords) /\ Len(first) = m /\ \A i \in 1..m : first[i] = safe[i]
  <2>1. CASE m = 0
    <3>1. first = <<>> /\ 1..m = {}
      BY <1>8, <2>1, SubSeqEmpty
    <3> QED
      BY <2>1, <3>1, EmptySeq
  <2>2. CASE m # 0
    BY <1>6, <1>8, <1>9, <2>2, SubSeqProperties
  <2> QED
    BY <2>1, <2>2
<1> HIDE DEF first
<1>11. /\ ids \in Seq(Nat) /\ Len(ids) = m /\ \A i \in 1..m : ids[i] = safe[i].id
       /\ DOMAIN ids = 1..m
  BY <1>10, IdsInOrderIs, LenProperties
<1> HIDE DEF ids
<1>12. ToSet(ids) = {safe[i].id : i \in 1..m}
  BY <1>11 DEF ToSet
<1>13. \A i \in 1..m : i \in 1..Len(safe)
  BY <1>8, <1>9
<1>14. ASSUME NEW c \in ToSet(written), NEW d \in ToSet(written),
              c.hashed, c.id \notin ToSet(ids), d.id \in ToSet(ids)
       PROVE  Len(ids) = RailSize /\ c.updated < d.updated
  <2>1. PICK j \in 1..m : d.id = safe[j].id
    BY <1>12, <1>14
  <2>2. j \in 1..Len(safe) /\ safe[j] \in ToSet(written)
    BY <1>3, <1>8, <1>13
  <2>3. safe[j] = d
    BY <1>4, <2>1, <2>2
  <2>4. PICK k \in 1..Len(safe) : safe[k] = c
    BY <1>5, <1>8, <1>14
  <2>5. k \notin 1..m
    BY <1>12, <1>14, <2>4
  <2>6. j < k /\ m < Len(safe)
    BY <1>8, <1>9, <2>5
  <2>7. safe[j].updated > safe[k].updated
    BY <1>6, <2>2, <2>6
  <2>8. safe[j].updated \in Nat /\ safe[k].updated \in Nat
    BY <1>8, <2>2 DEF BookRecords
  <2> QED
    BY <1>9, <1>11, <2>3, <2>4, <2>6, <2>7, <2>8
<1>15. ASSUME NEW i \in DOMAIN ids PROVE \E c \in ToSet(written) : c.id = ids[i] /\ c.hashed
  <2>1. i \in 1..m /\ safe[i] \in set
    BY <1>8, <1>11, <1>13
  <2> QED
    BY <1>3, <1>11, <2>1
<1>16. Len(ids) <= RailSize
  BY <1>9, <1>11
<1> QED
  BY <1>7, <1>11, <1>14, <1>15, <1>16 DEF AreTheLatest, ToSet

\* So it is in step with memory, but for what was refused.
LEMMA RailIsInStep == ListsInv => ShowsTheLatest(SafeSignalCases, unwritten)
<1> SUFFICES ASSUME ListsInv PROVE ShowsTheLatest(SafeSignalCases, unwritten)
  OBVIOUS
<1>1. AreTheLatest(SafeSignalCases, written) /\ SameCases(book, written, unwritten)
  BY SafeSignalCasesAre DEF ListsInv
<1>2. \A c \in ToSet(book) : c.id \notin unwritten => c \in ToSet(written)
  BY <1>1 DEF SameCases
<1>3. \A c \in ToSet(written) : c.id \notin unwritten => c \in ToSet(book)
  BY <1>1 DEF SameCases
<1>4. \A id \in ToSet(SafeSignalCases) \ unwritten : \E c \in ToSet(book) : c.id = id /\ c.hashed
  BY <1>1, <1>3 DEF AreTheLatest
<1> QED
  BY <1>1, <1>2, <1>4 DEF AreTheLatest, ShowsTheLatest

-----------------------------------------------------------------------------
\* What is written, or refused, of a book that differs from the last in some ids.
LEMMA StorageStep ==
  ASSUME ListsInv, changes' \in Nat, changes <= changes', ListOfCases(book', changes'), NEW ids,
         IsWritten \/ (IsRefused(ids) /\ SameCases(book, book', ids))
  PROVE  ListOfCases(written', changes') /\ SameCases(book, written, unwritten)'
<1>1. /\ ListOfCases(written, changes) /\ SameCases(book, written, unwritten) /\ changes \in Nat
  BY DEF ListsInv, ListsTyped
<1>2. CASE IsWritten
  BY <1>2 DEF IsWritten, SameCases
<1>3. CASE IsRefused(ids) /\ SameCases(book, book', ids)
  <2>1. written' = written /\ unwritten' = unwritten \cup ids
    BY <1>3 DEF IsRefused
  <2>2. \A c \in ToSet(written) : c.id <= changes' /\ c.updated <= changes'
    <3>1. \A i \in DOMAIN written : written[i] \in BookRecords
      BY <1>1, LenProperties, ElementOfSeq DEF ListOfCases
    <3>2. \A c \in ToSet(written) : c.id \in Nat /\ c.updated \in Nat
      BY <3>1 DEF ToSet, BookRecords
    <3> QED
      BY <1>1, <3>2 DEF ListOfCases, Timed
  <2>3. SameCases(book', written, unwritten \cup ids)
    BY <1>1, <1>3 DEF SameCases
  <2> QED
    BY <1>1, <2>1, <2>2, <2>3 DEF ListOfCases, Timed, SameCases
<1> QED
  BY <1>2, <1>3

\* The cases of a list, each of them once.
LEMMA CasesAre ==
  ASSUME NEW list, NEW upto, ListOfCases(list, upto)
  PROVE  /\ Len(list) \in Nat /\ DOMAIN list = 1..Len(list)
         /\ \A i \in 1..Len(list) : list[i] \in BookRecords /\ list[i] \in ToSet(list)
         /\ \A c \in ToSet(list) : /\ c.id \in Nat /\ c.updated \in Nat
                                   /\ \E i \in 1..Len(list) : c = list[i]
         /\ \A c, d \in ToSet(list) : c.id = d.id => c = d
<1>1. /\ Len(list) \in Nat /\ DOMAIN list = 1..Len(list)
      /\ \A i \in 1..Len(list) : list[i] \in BookRecords
  BY LenProperties, ElementOfSeq DEF ListOfCases
<1> QED
  BY <1>1 DEF ListOfCases, DistinctIds, ToSet, BookRecords

\* What the cap leaves.
LEMMA KeptIs ==
  ASSUME ListsInv
  PROVE  /\ ListOfCases(Kept, changes) /\ Len(Kept) < CasesKept
         /\ ToSet(Kept) \subseteq ToSet(book) /\ OverCap \subseteq InBook
         /\ SameCases(book, Kept, OverCap)
<1> DEFINE n == Len(book)
           m == Min({CasesKept - 1, n})
<1>1. ListOfCases(book, changes) /\ CasesKept \in Nat \ {0}
  BY CaseListsAssumption DEF ListsInv
<1>2. /\ n \in Nat /\ n <= CasesKept /\ DOMAIN book = 1..n
      /\ \A i \in 1..n : book[i] \in BookRecords /\ book[i] \in ToSet(book)
      /\ \A c \in ToSet(book) : \E i \in 1..n : c = book[i]
  BY <1>1, CasesAre DEF ListOfCases
<1>3. m = (IF CasesKept - 1 <= n THEN CasesKept - 1 ELSE n)
  BY <1>1, <1>2, MinOfTwo
<1> HIDE DEF n, m
<1>4. m \in Nat /\ m <= n /\ m < CasesKept /\ (m = n \/ (n = CasesKept /\ m = n - 1))
  BY <1>1, <1>2, <1>3
<1>5. Kept = SubSeq(book, 1, m)
  BY DEF Kept, m, n
<1>6. Kept \in Seq(BookRecords) /\ Len(Kept) = m /\ \A i \in 1..m : Kept[i] = book[i]
  <2>1. CASE m = 0
    BY <1>1, <1>5, <2>1, SubSeqEmpty, EmptySeq DEF ListOfCases
  <2>2. CASE m # 0
    BY <1>1, <1>4, <1>5, <2>2, SubSeqProperties DEF ListOfCases, n
  <2> QED
    BY <2>1, <2>2
<1>7. DOMAIN Kept = 1..m /\ \A i \in 1..m : i \in 1..n
  BY <1>2, <1>4, <1>6, LenProperties
<1>8. ToSet(Kept) = {book[i] : i \in 1..m} /\ ToSet(Kept) \subseteq ToSet(book)
  BY <1>2, <1>6, <1>7 DEF ToSet
<1>9. OverCap = IF n = CasesKept THEN {book[n].id} ELSE {}
  BY DEF OverCap, n
<1>10. ASSUME NEW c \in ToSet(book), c.id \notin OverCap PROVE c \in ToSet(Kept)
  <2>1. PICK i \in 1..n : c = book[i]
    BY <1>2
  <2>2. i \in 1..m
    BY <1>2, <1>4, <1>9, <1>10, <2>1
  <2> QED
    BY <1>8, <2>1, <2>2
<1>11. OverCap \subseteq InBook
  <2>1. n = CasesKept => n \in 1..n
    BY <1>1, <1>2
  <2> QED
    BY <1>2, <1>9, <2>1 DEF InBook
<1>12. DistinctIds(Kept, m)
  BY <1>1, <1>6, <1>7 DEF ListOfCases, DistinctIds, n
<1>13. Timed(Kept, changes)
  BY <1>1, <1>8 DEF ListOfCases, Timed
<1>14. m <= CasesKept
  BY <1>1, <1>4
<1> QED
  BY <1>4, <1>6, <1>8, <1>10, <1>11, <1>12, <1>13, <1>14 DEF ListOfCases, SameCases

\* One more case, of a time of its own, before the cases of a list.
LEMMA OneMoreCase ==
  ASSUME NEW list, NEW upto \in Nat, ListOfCases(list, upto), Len(list) < CasesKept,
         NEW new \in BookRecords, new.id <= upto, new.updated <= upto,
         \A c \in ToSet(list) : c.id # new.id /\ c.updated # new.updated
  PROVE  /\ ListOfCases(<<new>> \o list, upto)
         /\ ToSet(<<new>> \o list) = {new} \cup ToSet(list)
<1> DEFINE n == Len(list)
           all == <<new>> \o list
<1>1. /\ n \in Nat /\ DOMAIN list = 1..n
      /\ \A i \in 1..n : list[i] \in BookRecords /\ list[i] \in ToSet(list)
      /\ \A c \in ToSet(list) : \E i \in 1..n : c = list[i]
  BY CasesAre
<1>2. list \in Seq(BookRecords) /\ DistinctIds(list, n) /\ Timed(list, upto)
  BY DEF ListOfCases
<1>3. /\ all \in Seq(BookRecords) /\ Len(all) = n + 1 /\ all[1] = new
      /\ \A i \in 2..(n + 1) : all[i] = list[i - 1]
  <2>1. <<new>> \in Seq(BookRecords) /\ Len(<<new>>) = 1 /\ <<new>>[1] = new
    OBVIOUS
  <2>2. /\ all \in Seq(BookRecords) /\ Len(all) = 1 + n
        /\ \A i \in 1..(1 + n) : all[i] = IF i <= 1 THEN <<new>>[i] ELSE list[i - 1]
    BY <1>1, <1>2, <2>1, ConcatProperties
  <2> QED
    BY <1>1, <2>1, <2>2
<1> HIDE DEF n, all
<1>4. \A i \in 1..(n + 1) : i = 1 \/ (i \in 2..(n + 1) /\ i - 1 \in 1..n)
  BY <1>1
<1>5. ToSet(all) = {new} \cup ToSet(list)
  <2>1. DOMAIN all = 1..(n + 1)
    BY <1>3, LenProperties
  <2>2. ASSUME NEW i \in 1..(n + 1) PROVE all[i] \in {new} \cup ToSet(list)
    BY <1>1, <1>3, <1>4
  <2>3. new \in ToSet(all)
    BY <1>1, <1>3, <2>1 DEF ToSet
  <2>4. ASSUME NEW i \in 1..n PROVE list[i] \in ToSet(all)
    <3>1. i + 1 \in 2..(n + 1) /\ i + 1 \in 1..(n + 1) /\ (i + 1) - 1 = i
      BY <1>1
    <3> QED
      BY <1>3, <2>1, <3>1 DEF ToSet
  <2>5. \A c \in ToSet(all) : \E i \in 1..(n + 1) : c = all[i]
    BY <2>1 DEF ToSet
  <2> QED
    BY <1>1, <2>2, <2>3, <2>4, <2>5
<1>6. DistinctIds(all, n + 1)
  <2> SUFFICES ASSUME NEW i \in 1..(n + 1), NEW j \in 1..(n + 1), all[i].id = all[j].id
               PROVE  i = j
    BY DEF DistinctIds
  <2>1. CASE i = 1 /\ j = 1
    BY <2>1
  <2>2. CASE i = 1 /\ j # 1
    BY <1>1, <1>3, <1>4, <2>2
  <2>3. CASE i # 1 /\ j = 1
    BY <1>1, <1>3, <1>4, <2>3
  <2>4. CASE i # 1 /\ j # 1
    <3>1. i - 1 \in 1..n /\ j - 1 \in 1..n /\ list[i - 1].id = list[j - 1].id
      BY <1>3, <1>4, <2>4
    <3>2. i - 1 = j - 1
      BY <1>2, <3>1 DEF DistinctIds
    <3> QED
      BY <1>1, <3>2
  <2> QED
    BY <2>1, <2>2, <2>3, <2>4
<1>7. Timed(all, upto)
  BY <1>2, <1>5 DEF Timed
<1>8. n + 1 <= CasesKept
  BY <1>1, CaseListsAssumption DEF n
<1> QED
  BY <1>3, <1>5, <1>6, <1>7, <1>8 DEF ListOfCases, all, n

-----------------------------------------------------------------------------
LEMMA SaveBeginsStep ==
  ASSUME ListsInv, SaveBegins
  PROVE  ListsInv'
<1> DEFINE k == changes + 1
<1>1. /\ changes' = k /\ hashing' = hashing \cup {k}
      /\ UNCHANGED <<book, written, panel, sinceDrawn, pushedOut, unwritten>>
  BY DEF SaveBegins
<1>2. /\ changes \in Nat /\ hashing \subseteq Nat /\ pushedOut \subseteq Nat
      /\ ListOfCases(book, changes) /\ ListOfCases(written, changes)
  BY DEF ListsInv, ListsTyped
<1>3. k \in Nat /\ k > changes /\ \A t \in Nat : t <= changes => t <= k /\ t # k
  BY <1>2
<1> HIDE DEF k
<1>4. /\ \A c \in ToSet(book) : c.id \in Nat /\ c.updated \in Nat
      /\ \A c \in ToSet(written) : c.id \in Nat /\ c.updated \in Nat
  BY <1>2, CasesAre
<1>5. ListOfCases(book, k) /\ ListOfCases(written, k)
  BY <1>2, <1>3, <1>4 DEF ListOfCases, Timed
<1>6. SavesAreToCome'
  <2>1. \A c \in ToSet(book) : c.id # k /\ c.updated # k
    BY <1>2, <1>3, <1>4 DEF ListOfCases, Timed
  <2>2. k \notin pushedOut /\ \A id \in pushedOut : id <= k
    BY <1>2, <1>3 DEF ListsInv, SavesAreToCome
  <2>3. \A t \in hashing : t <= k
    BY <1>2, <1>3 DEF ListsInv, SavesAreToCome
  <2> QED
    BY <1>1, <1>3, <2>1, <2>2, <2>3 DEF ListsInv, SavesAreToCome
<1> QED
  BY <1>1, <1>2, <1>3, <1>5, <1>6
     DEF ListsInv, ListsTyped, ListOfCases, Timed, SameCases, PanelShowsTheCases, InBook

\* The saved case comes first, or nothing does; what the cap has dropped is gone.
LEMMA CaseIsSavedStep ==
  ASSUME ListsInv, NEW id \in hashing, NEW hashed \in BOOLEAN, CaseIsSaved(id, hashed)
  PROVE  ListsInv'
<1> DEFINE new == [id |-> id, hashed |-> hashed, updated |-> id]
<1>1. /\ hashing' = hashing \ {id} /\ pushedOut' = pushedOut \cup OverCap
      /\ changes' = changes /\ panel' = panel
      /\ \/ book' = <<new>> \o Kept /\ sinceDrawn' = sinceDrawn \cup {id} /\ IsWritten
         \/ book' = Kept /\ sinceDrawn' = sinceDrawn /\ IsRefused(OverCap)
  BY DEF CaseIsSaved
<1>2. /\ changes \in Nat /\ hashing \subseteq Nat /\ pushedOut \subseteq Nat
      /\ ListOfCases(book, changes) /\ PanelShowsTheCases
  BY DEF ListsInv, ListsTyped
<1>3. /\ id \in Nat /\ id <= changes /\ id \notin pushedOut
      /\ \A c \in ToSet(book) : c.id # id /\ c.updated # id
  BY <1>2 DEF ListsInv, SavesAreToCome
<1>4. new \in BookRecords /\ new.id = id /\ new.updated = id
  BY <1>3 DEF BookRecords
<1> HIDE DEF new
<1>5. /\ ListOfCases(Kept, changes) /\ Len(Kept) < CasesKept
      /\ ToSet(Kept) \subseteq ToSet(book) /\ OverCap \subseteq InBook
      /\ SameCases(book, Kept, OverCap)
  BY KeptIs
<1>6. /\ ListOfCases(<<new>> \o Kept, changes)
      /\ ToSet(<<new>> \o Kept) = {new} \cup ToSet(Kept)
  <2>1. \A c \in ToSet(Kept) : c.id # new.id /\ c.updated # new.updated
    BY <1>3, <1>4, <1>5
  <2> QED
    BY <1>2, <1>3, <1>4, <1>5, <2>1, OneMoreCase
<1>7. InBook = {c.id : c \in ToSet(Kept)} \cup OverCap
  <2>1. InBook \subseteq {c.id : c \in ToSet(Kept)} \cup OverCap
    BY <1>5 DEF SameCases, InBook
  <2> QED
    BY <1>5, <2>1 DEF InBook
<1>8. id \notin InBook /\ InBook \subseteq Nat /\ \A i \in InBook : i <= changes
  <2>1. \A c \in ToSet(book) : c.id \in Nat /\ c.id <= changes /\ c.id # id
    BY <1>2, <1>3, CasesAre DEF ListOfCases, Timed
  <2> QED
    BY <2>1 DEF InBook
<1>9. ListOfCases(book', changes')
  BY <1>1, <1>5, <1>6
<1>10. ListOfCases(written', changes') /\ SameCases(book, written, unwritten)'
  <2>1. IsWritten \/ (IsRefused(OverCap) /\ SameCases(book, book', OverCap))
    BY <1>1, <1>5
  <2>2. changes' \in Nat /\ changes <= changes'
    BY <1>1, <1>2
  <2> QED
    BY <1>9, <2>1, <2>2, StorageStep
<1>11. PanelShowsTheCases'
  <2>1. CASE book' = <<new>> \o Kept /\ sinceDrawn' = sinceDrawn \cup {id}
    <3>1. InBook' = {id} \cup {c.id : c \in ToSet(Kept)}
      BY <1>4, <1>6, <2>1 DEF InBook
    <3>2. (InBook' \cup pushedOut') \ sinceDrawn' = (InBook \cup pushedOut) \ sinceDrawn
      BY <1>1, <1>3, <1>7, <1>8, <2>1, <3>1
    <3> QED
      BY <1>1, <1>2, <3>2 DEF PanelShowsTheCases
  <2>2. CASE book' = Kept /\ sinceDrawn' = sinceDrawn
    <3>1. InBook' = {c.id : c \in ToSet(Kept)}
      BY <2>2 DEF InBook
    <3>2. (InBook' \cup pushedOut') \ sinceDrawn' = (InBook \cup pushedOut) \ sinceDrawn
      BY <1>1, <1>7, <2>2, <3>1
    <3> QED
      BY <1>1, <1>2, <3>2 DEF PanelShowsTheCases
  <2> QED
    BY <1>1, <2>1, <2>2
<1>12. SavesAreToCome'
  <2>1. \A c \in ToSet(book') : c = new \/ c \in ToSet(book)
    BY <1>1, <1>5, <1>6
  <2>2. ASSUME NEW t \in hashing, t # id
        PROVE  /\ t <= changes /\ t \notin pushedOut'
               /\ \A c \in ToSet(book') : c.id # t /\ c.updated # t
    <3>1. /\ t <= changes /\ t \notin pushedOut
          /\ \A c \in ToSet(book) : c.id # t /\ c.updated # t
      BY DEF ListsInv, SavesAreToCome
    <3>2. t \notin OverCap
      BY <1>5, <3>1 DEF InBook
    <3> QED
      BY <1>1, <1>4, <2>1, <2>2, <3>1, <3>2
  <2>3. \A i \in pushedOut' : i <= changes
    BY <1>1, <1>5, <1>8 DEF ListsInv, SavesAreToCome
  <2> QED
    BY <1>1, <2>2, <2>3 DEF SavesAreToCome
<1>13. ListsTyped'
  BY <1>1, <1>2, <1>5, <1>8 DEF ListsInv, ListsTyped
<1> QED
  BY <1>9, <1>10, <1>11, <1>12, <1>13 DEF ListsInv

LEMMA NoteIsSavedStep ==
  ASSUME ListsInv, NEW i \in DOMAIN book, NoteIsSaved(i)
  PROVE  ListsInv'
<1> DEFINE k == changes + 1
           n == Len(book)
           new == [book[i] EXCEPT !.updated = k]
<1>1. /\ changes' = k /\ book' = [book EXCEPT ![i] = new]
      /\ IsWritten \/ IsRefused({book[i].id})
      /\ panel' = panel /\ hashing' = hashing /\ pushedOut' = pushedOut
      /\ sinceDrawn' = sinceDrawn
  BY DEF NoteIsSaved
<1>2. /\ changes \in Nat /\ k \in Nat /\ ListOfCases(book, changes) /\ PanelShowsTheCases
      /\ hashing \subseteq Nat /\ pushedOut \subseteq Nat
  BY DEF ListsInv, ListsTyped
<1>3. /\ n \in Nat /\ DOMAIN book = 1..n
      /\ \A j \in 1..n : book[j] \in BookRecords /\ book[j] \in ToSet(book)
      /\ book \in Seq(BookRecords) /\ DistinctIds(book, n) /\ Timed(book, changes)
      /\ n <= CasesKept
  BY <1>2, CasesAre DEF ListOfCases
<1>4. new \in BookRecords /\ new.id = book[i].id /\ new.updated = k
  BY <1>2, <1>3 DEF BookRecords
<1>5. k = changes + 1 /\ i \in 1..n /\ \A t \in Nat : t <= changes => t <= k /\ t # k
  BY <1>2, <1>3
<1> HIDE DEF k, new, n
<1>6. /\ book' \in Seq(BookRecords) /\ Len(book') = n
      /\ \A j \in 1..n : book'[j] = IF j = i THEN new ELSE book[j]
  BY <1>1, <1>3, <1>4, <1>5, ExceptSeq DEF n
<1>7. DOMAIN book' = 1..n /\ \A j \in 1..n : book'[j].id = book[j].id
  BY <1>4, <1>6, LenProperties
<1>8. \A j \in 1..n : /\ book[j].id <= changes /\ book[j].updated <= changes
                      /\ book[j].id \in Nat /\ book[j].updated \in Nat
  BY <1>3 DEF Timed, BookRecords
<1>9. Timed(book', k)
  <2>1. ASSUME NEW j \in 1..n PROVE book'[j].id <= k /\ book'[j].updated <= k
    <3>1. j # i => book'[j].updated = book[j].updated
      BY <1>6
    <3> QED
      BY <1>2, <1>4, <1>5, <1>6, <1>7, <1>8, <3>1
  <2>2. ASSUME NEW j \in 1..n, NEW l \in 1..n, book'[j].updated = book'[l].updated
        PROVE  book'[j] = book'[l]
    <3>1. \A x \in 1..n : book[x].updated # k
      BY <1>5, <1>8
    <3>2. CASE j = i \/ l = i
      BY <1>4, <1>6, <2>2, <3>1, <3>2
    <3>3. CASE j # i /\ l # i
      <4>1. book[j].updated = book[l].updated /\ book'[j] = book[j] /\ book'[l] = book[l]
        BY <1>6, <2>2, <3>3
      <4> QED
        BY <1>3, <4>1 DEF Timed
    <3> QED
      BY <3>2, <3>3
  <2> QED
    BY <1>7, <2>1, <2>2 DEF Timed, ToSet
<1>10. ListOfCases(book', k)
  BY <1>3, <1>6, <1>7, <1>9 DEF ListOfCases, DistinctIds
<1>11. \A c \in ToSet(book') : c.id = book[i].id \/ c \in ToSet(book)
  BY <1>4, <1>6, <1>7, <1>3 DEF ToSet
<1>12. \A c \in ToSet(book) : c.id = book[i].id \/ c \in ToSet(book')
  <2>1. \A c \in ToSet(book) : \E j \in 1..n : c = book[j]
    BY <1>3 DEF ToSet
  <2>2. \A j \in 1..n : j # i => book[j] \in ToSet(book')
    BY <1>6, <1>7 DEF ToSet
  <2> QED
    BY <2>1, <2>2
<1>13. ListOfCases(written', changes') /\ SameCases(book, written, unwritten)'
  <2>1. SameCases(book, book', {book[i].id})
    BY <1>11, <1>12 DEF SameCases
  <2>2. changes' \in Nat /\ changes <= changes' /\ ListOfCases(book', changes')
    BY <1>1, <1>2, <1>5, <1>10
  <2> QED
    BY <1>1, <2>1, <2>2, StorageStep
<1>14. InBook' = InBook
  <2>1. InBook' = {book'[j].id : j \in 1..n} /\ InBook = {book[j].id : j \in 1..n}
    BY <1>3, <1>7 DEF InBook, ToSet
  <2> QED
    BY <1>7, <2>1
<1>15. SavesAreToCome'
  <2>1. \A id \in pushedOut : id <= k
    BY <1>2, <1>5 DEF ListsInv, SavesAreToCome
  <2>2. ASSUME NEW t \in hashing
        PROVE  /\ t <= k /\ t \notin pushedOut
               /\ \A c \in ToSet(book') : c.id # t /\ c.updated # t
    <3>1. /\ t <= changes /\ t \notin pushedOut /\ t <= k /\ t # k
          /\ \A c \in ToSet(book) : c.id # t /\ c.updated # t
      BY <1>2, <1>5 DEF ListsInv, SavesAreToCome
    <3>2. \A c \in ToSet(book') : c = new \/ c \in ToSet(book)
      BY <1>3, <1>6, <1>7 DEF ToSet
    <3> QED
      BY <1>3, <1>4, <1>5, <3>1, <3>2
  <2> QED
    BY <1>1, <2>1, <2>2 DEF SavesAreToCome
<1>16. PanelShowsTheCases' /\ ListsTyped'
  BY <1>1, <1>2, <1>14 DEF ListsInv, ListsTyped, PanelShowsTheCases
<1> QED
  BY <1>1, <1>10, <1>13, <1>15, <1>16 DEF ListsInv

\* Some cases of the book are left, and the panel is drawn.
LEMMA BookShrinks ==
  ASSUME ListsInv, NEW ids, DrawsPanel(book'), UNCHANGED <<changes, hashing>>,
         IsWritten \/ (IsRefused(ids) /\ SameCases(book, book', ids)),
         ListOfCases(book', changes), ToSet(book') \subseteq ToSet(book)
  PROVE  ListsInv'
<1>1. /\ panel' = Drawn(book') /\ sinceDrawn' = {} /\ pushedOut' = {}
      /\ changes' = changes /\ hashing' = hashing
  BY DEF DrawsPanel
<1>2. changes \in Nat /\ hashing \subseteq Nat
  BY DEF ListsInv, ListsTyped
<1>3. /\ Drawn(book') \in [open : BOOLEAN, ids : Seq(Nat)]
      /\ ToSet(Drawn(book').ids) = {c.id : c \in ToSet(book')}
  BY DrawnIs DEF ListOfCases
<1>4. PanelShowsTheCases'
  BY <1>1, <1>3 DEF PanelShowsTheCases, InBook
<1>5. ListsTyped'
  BY <1>1, <1>2, <1>3 DEF ListsTyped
<1>6. SavesAreToCome'
  BY <1>1 DEF ListsInv, SavesAreToCome
<1>7. ListOfCases(written', changes') /\ SameCases(book, written, unwritten)'
  <2>1. changes' \in Nat /\ changes <= changes' /\ ListOfCases(book', changes')
    BY <1>1, <1>2
  <2> QED
    BY <2>1, StorageStep
<1> QED
  BY <1>1, <1>4, <1>5, <1>6, <1>7 DEF ListsInv

LEMMA EmptyBook ==
  ASSUME NEW upto
  PROVE  ListOfCases(<<>>, upto) /\ ToSet(<<>>) = {}
<1>1. <<>> \in Seq(BookRecords) /\ Len(<<>>) = 0 /\ ToSet(<<>>) = {}
  BY EmptySeq DEF ToSet
<1> QED
  BY <1>1, CaseListsAssumption DEF ListOfCases, DistinctIds, Timed

LEMMA ListsStep ==
  ASSUME ListsInv, [ListsNext]_listVars
  PROVE  ListsInv' /\ (rail' = rail \/ (rail'.drawn => ShowsTheLatest(rail'.ids, unwritten)))
<1>1. /\ ListOfCases(book, changes) /\ ListOfCases(written, changes) /\ changes \in Nat
      /\ panel \in [open : BOOLEAN, ids : Seq(Nat)]
  BY DEF ListsInv, ListsTyped
<1>2. ASSUME TogglePanel PROVE ListsInv' /\ rail' = rail
  <2>1. UNCHANGED <<book, written, changes, hashing, rail, unwritten>>
    BY <1>2 DEF TogglePanel
  <2>2. CASE panel' = [panel EXCEPT !.open = FALSE] /\ UNCHANGED <<sinceDrawn, pushedOut>>
    <3>1. panel'.open = FALSE /\ panel' \in [open : BOOLEAN, ids : Seq(Nat)]
      BY <1>1, <2>2
    <3> QED
      BY <2>1, <2>2, <3>1 DEF ListsInv, ListsTyped, PanelShowsTheCases, ListOfCases, Timed,
                              SavesAreToCome, SameCases
  <2>3. CASE DrawsPanel(book)
    <3>1. panel' = Drawn(book) /\ sinceDrawn' = {} /\ pushedOut' = {}
      BY <2>3 DEF DrawsPanel
    <3>2. /\ Drawn(book) \in [open : BOOLEAN, ids : Seq(Nat)]
          /\ ToSet(Drawn(book).ids) = {c.id : c \in ToSet(book)}
      BY <1>1, DrawnIs DEF ListOfCases
    <3>3. PanelShowsTheCases'
      BY <2>1, <3>1, <3>2 DEF PanelShowsTheCases, InBook
    <3>4. ListsTyped' /\ SavesAreToCome'
      BY <2>1, <3>1, <3>2 DEF ListsInv, ListsTyped, SavesAreToCome
    <3> QED
      BY <2>1, <3>3, <3>4 DEF ListsInv, ListOfCases, Timed, SameCases
  <2> QED
    BY <1>2, <2>2, <2>3 DEF TogglePanel
<1>3. ASSUME ClearBook PROVE ListsInv' /\ rail' = rail
  <2>1. book' = <<>> /\ DrawsPanel(book') /\ UNCHANGED <<changes, hashing, rail>> /\ IsWritten
    BY <1>3 DEF ClearBook
  <2> QED
    BY <2>1, EmptyBook, BookShrinks
<1>4. ASSUME NEW id \in ToSet(panel.ids), DeleteListed(id) PROVE ListsInv' /\ rail' = rail
  <2>1. /\ book' = Without(id) /\ DrawsPanel(book') /\ UNCHANGED <<changes, hashing, rail>>
        /\ IsWritten \/ IsRefused({id})
    BY <1>4 DEF DeleteListed
  <2>2. book' = Dropped(book, id)
    BY <2>1 DEF Without, Dropped
  <2>3. /\ book' \in Seq(BookRecords) /\ Len(book') <= Len(book)
        /\ ToSet(book') = {c \in ToSet(book) : c.id # id} /\ DistinctIds(book', Len(book'))
    BY <1>1, <2>2, DroppedIs DEF ListOfCases
  <2>4. Len(book') <= CasesKept
    BY <1>1, <2>3, LenProperties, CaseListsAssumption DEF ListOfCases
  <2>5. ListOfCases(book', changes)
    BY <1>1, <2>3, <2>4 DEF ListOfCases, Timed
  <2>6. SameCases(book, book', {id})
    BY <2>3 DEF SameCases
  <2>7. ToSet(book') \subseteq ToSet(book)
    BY <2>3
  <2> QED
    BY <2>1, <2>5, <2>6, <2>7, BookShrinks
<1>5. ASSUME DrawRail PROVE ListsInv' /\ ShowsTheLatest(rail'.ids, unwritten)
  <2>1. /\ rail' = [drawn |-> TRUE, ids |-> SafeSignalCases]
        /\ UNCHANGED <<book, written, changes, hashing, panel, sinceDrawn, pushedOut, unwritten>>
    BY <1>5 DEF DrawRail
  <2>2. ShowsTheLatest(rail'.ids, unwritten)
    BY <2>1, RailIsInStep
  <2> QED
    BY <2>1, <2>2 DEF ListsInv, ListsTyped, PanelShowsTheCases, InBook, ListOfCases, Timed,
                      SavesAreToCome, SameCases
<1>6. ASSUME PageIsLoaded PROVE ListsInv' /\ ~rail'.drawn
  <2>1. /\ book' = written /\ hashing' = {} /\ panel' = PanelClosed /\ rail' = NoRail
        /\ pushedOut' = {} /\ written' = written /\ changes' = changes
    BY <1>6 DEF PageIsLoaded
  <2>2. PanelClosed \in [open : BOOLEAN, ids : Seq(Nat)] /\ ~PanelClosed.open /\ ~NoRail.drawn
    BY EmptySeq DEF PanelClosed, NoRail
  <2>3. ListsTyped' /\ PanelShowsTheCases' /\ SavesAreToCome' /\ SameCases(book, written, unwritten)'
    BY <1>1, <2>1, <2>2 DEF ListsTyped, PanelShowsTheCases, SavesAreToCome, SameCases
  <2> QED
    BY <1>1, <2>1, <2>2, <2>3 DEF ListsInv
<1>7. CASE UNCHANGED listVars
  BY <1>7 DEF ListsInv, ListsTyped, PanelShowsTheCases, InBook, ListOfCases, Timed,
              SavesAreToCome, SameCases, listVars
<1>8. ASSUME NEW id \in hashing, NEW hashed \in BOOLEAN, CaseIsSaved(id, hashed)
      PROVE  ListsInv' /\ rail' = rail
  BY <1>8, CaseIsSavedStep DEF CaseIsSaved
<1>9. ASSUME NEW i \in DOMAIN book, NoteIsSaved(i) PROVE ListsInv' /\ rail' = rail
  BY <1>9, NoteIsSavedStep DEF NoteIsSaved
<1>10. ASSUME SaveBegins PROVE ListsInv' /\ rail' = rail
  BY <1>10, SaveBeginsStep DEF SaveBegins
<1> QED
  BY <1>2, <1>3, <1>4, <1>5, <1>6, <1>7, <1>8, <1>9, <1>10 DEF ListsNext, listVars

\* The open panel lists every case but those saved since it was drawn, and those the
\* cap has dropped since then; the rail has the cases with a hash that were touched
\* last, as many as fit, but for those whose last write the storage refused: whatever
\* is saved, noted, deleted, dropped by the cap and refused (renderCasesPanel,
\* getSafeSignalCases).
THEOREM ListsAreInOrder == ListsSpec => ListsFollowTheBook
<1>1. ListsInit => ListsInv
  <2> SUFFICES ASSUME ListsInit PROVE ListsInv
    OBVIOUS
  <2>1. /\ book = <<>> /\ written = <<>> /\ changes = 0 /\ hashing = {}
        /\ panel = PanelClosed /\ pushedOut = {}
    BY DEF ListsInit
  <2>2. PanelClosed \in [open : BOOLEAN, ids : Seq(Nat)] /\ ~PanelClosed.open
    BY EmptySeq DEF PanelClosed
  <2>3. ListsTyped /\ PanelShowsTheCases /\ SavesAreToCome /\ SameCases(book, written, unwritten)
    BY <2>1, <2>2, EmptyBook DEF ListsTyped, PanelShowsTheCases, SavesAreToCome, SameCases
  <2> QED
    BY <2>1, <2>3, EmptyBook DEF ListsInv
<1>2. ListsInv /\ [ListsNext]_listVars => ListsInv'
  BY ListsStep
<1>3. ListsInv /\ [ListsNext]_listVars =>
        [rail' # rail /\ rail'.drawn => ShowsTheLatest(rail'.ids, unwritten)]_listVars
  BY ListsStep
<1>4. ListsInv => PanelShowsTheCases
  BY DEF ListsInv
<1> QED
  BY <1>1, <1>2, <1>3, <1>4, PTL DEF ListsSpec, ListsFollowTheBook, RailShowsTheLatest

-----------------------------------------------------------------------------
(***************************************************************************)
(* The users on the admin page.  An account only goes from none to active  *)
(* to inactive, so that a list the server made after a change has it.      *)
(***************************************************************************)
States == {"none", "active", "inactive"}

\* The list is at least as late as what is known.
Knows(list, told) ==
  \A n \in Accounts : told[n] = "none" \/ list[n] = "inactive" \/ list[n] = told[n]

CallRecords ==
  [what : {Listing, Create, Deactivate}, on : Accounts \cup {"none"},
   answer : {"none", "ok", "403", "409"}, list : [Accounts -> States]]

\* What an answer says is so.
Served(c, users) ==
  /\ c \in CallRecords
  /\ c.what # Listing => c.on \in Accounts
  /\ c.what = Listing => c.answer \in {"none", "ok"}
  /\ c.what = Create /\ c.answer = "ok" => users[c.on] # "none"
  /\ c.what = Deactivate /\ c.answer = "ok" => users[c.on] = "inactive"

Listings(requests) == {c \in requests : c.what = Listing}

\* One list at most is on its way, and the page or the list has what the page was told.
OneListing(requests, screen, told) ==
  /\ \A c, d \in Listings(requests) : c = d
  /\ \A c \in Listings(requests) : c.answer = "ok" => Knows(c.list, told)
  /\ Listings(requests) = {} => Knows(screen, told)

UsersTyped ==
  /\ accounts \in [Accounts -> States] /\ listed \in [Accounts -> States]
  /\ mine \in [Accounts -> States] /\ jumbled \in BOOLEAN

UsersInv ==
  /\ UsersTyped
  /\ \A c \in calls : Served(c, accounts)
  /\ Knows(accounts, mine)
  /\ ~jumbled => OneListing(calls, listed, mine)

-----------------------------------------------------------------------------
\* What was so of an account is so of it later.
LEMMA ServedLater ==
  ASSUME NEW old \in [Accounts -> States], NEW new \in [Accounts -> States], Knows(new, old)
  PROVE  /\ \A c : Served(c, old) => Served(c, new)
         /\ \A told \in [Accounts -> States] : Knows(old, told) => Knows(new, told)
<1>1. ASSUME NEW c, Served(c, old) PROVE Served(c, new)
  <2>1. CASE c.what = Listing
    BY <1>1, <2>1 DEF Served, Listing, Create, Deactivate
  <2>2. CASE c.what # Listing
    <3>1. c.on \in Accounts
      BY <1>1, <2>2 DEF Served
    <3>2. old[c.on] = "none" \/ new[c.on] = "inactive" \/ new[c.on] = old[c.on]
      BY <3>1 DEF Knows
    <3>3. old[c.on] # "none" => new[c.on] # "none"
      BY <3>2
    <3>4. old[c.on] = "inactive" => new[c.on] = "inactive"
      BY <3>2
    <3> QED
      BY <1>1, <3>3, <3>4 DEF Served
  <2> QED
    BY <2>1, <2>2
<1>2. ASSUME NEW told \in [Accounts -> States], Knows(old, told), NEW n \in Accounts
      PROVE  told[n] = "none" \/ new[n] = "inactive" \/ new[n] = told[n]
  <2>1. told[n] = "none" \/ old[n] = "inactive" \/ old[n] = told[n]
    BY <1>2 DEF Knows
  <2>2. old[n] = "none" \/ new[n] = "inactive" \/ new[n] = old[n]
    BY DEF Knows
  <2> QED
    BY <2>1, <2>2
<1> QED
  BY <1>1, <1>2 DEF Knows

LEMMA AccountSet ==
  ASSUME NEW users \in [Accounts -> States], NEW n \in Accounts, NEW s,
         s = "inactive" \/ (s = "active" /\ users[n] = "none")
  PROVE  /\ [users EXCEPT ![n] = s] \in [Accounts -> States]
         /\ Knows([users EXCEPT ![n] = s], users)
         /\ [users EXCEPT ![n] = s][n] = s
  BY DEF Knows, States

\* The empty list of a request.
LEMMA NoneListed ==
  /\ [m \in Accounts |-> "none"] \in [Accounts -> States]
  /\ \A list : Knows(list, [m \in Accounts |-> "none"])
  BY DEF States, Knows

-----------------------------------------------------------------------------
LEMMA UsersInitially == PanelInit => UsersInv
<1> SUFFICES ASSUME PanelInit PROVE UsersInv
  OBVIOUS
<1>1. /\ accounts = [m \in Accounts |-> "none"] /\ listed = accounts /\ mine = accounts
      /\ calls = {} /\ jumbled = FALSE
  BY DEF PanelInit
<1>2. UsersTyped
  BY <1>1, NoneListed DEF UsersTyped
<1>3. Knows(accounts, mine) /\ Knows(listed, mine)
  BY <1>1, NoneListed
<1> QED
  BY <1>1, <1>2, <1>3 DEF UsersInv, OneListing, Listings

\* A request is sent: one more listing, unless one is on its way, or a change.
LEMMA CallIsServed ==
  ASSUME UsersInv, NEW what \in {Listing, Create, Deactivate}, NEW n \in Accounts \cup {"none"},
         what # Listing => n \in Accounts, Call(what, n),
         UNCHANGED <<accounts, listed, mine>>,
         jumbled' = (jumbled \/ (what = Listing /\ Pending(Listing) # {}))
  PROVE  UsersInv'
<1> DEFINE c == [what |-> what, on |-> n, answer |-> "none", list |-> [m \in Accounts |-> "none"]]
<1>1. calls' = calls \cup {c}
  BY DEF Call
<1>2. c.what = what /\ c.on = n /\ c.answer = "none" /\ c.list \in [Accounts -> States]
  BY NoneListed
<1>0. c \in CallRecords
  BY NoneListed DEF CallRecords
<1> HIDE DEF c
<1>3. Served(c, accounts)
  BY <1>0, <1>2 DEF Served, Listing, Create, Deactivate
<1>4. UsersTyped'
  BY DEF UsersInv, UsersTyped
<1>5. ASSUME ~jumbled' PROVE OneListing(calls', listed, mine)
  <2>1. OneListing(calls, listed, mine) /\ (what = Listing => Listings(calls) = {})
    BY <1>5 DEF UsersInv, UsersTyped, Pending, Listings
  <2>2. CASE what = Listing
    <3>1. Listings(calls') = {c}
      BY <1>1, <1>2, <2>1, <2>2 DEF Listings
    <3> QED
      BY <1>2, <3>1 DEF OneListing
  <2>3. CASE what # Listing
    <3>1. Listings(calls') = Listings(calls)
      BY <1>1, <1>2, <2>3 DEF Listings
    <3> QED
      BY <2>1, <3>1 DEF OneListing
  <2> QED
    BY <2>2, <2>3
<1> QED
  BY <1>1, <1>3, <1>4, <1>5 DEF UsersInv

\* The server answers.
LEMMA AnswerIsServed ==
  ASSUME UsersInv, NEW c \in calls, ServerAnswers(c)
  PROVE  UsersInv'
<1>1. /\ UsersTyped /\ (\A d \in calls : Served(d, accounts)) /\ Knows(accounts, mine)
      /\ (~jumbled => OneListing(calls, listed, mine))
  BY DEF UsersInv
<1>2. Served(c, accounts) /\ c.answer = "none" /\ UNCHANGED <<listed, mine, jumbled>>
  BY <1>1 DEF ServerAnswers
<1>3. PICK answer, list :
        /\ calls' = (calls \ {c}) \cup {[c EXCEPT !.answer = answer, !.list = list]}
        /\ list \in [Accounts -> States] /\ answer \in {"ok", "403", "409"}
        /\ accounts' \in [Accounts -> States] /\ Knows(accounts', accounts)
        /\ c.what = Listing => answer = "ok" /\ list = accounts
        /\ c.what = Create /\ answer = "ok" => accounts'[c.on] # "none"
        /\ c.what = Deactivate /\ answer = "ok" => accounts'[c.on] = "inactive"
  <2>0. /\ accounts \in [Accounts -> States] /\ Knows(accounts, accounts)
        /\ c.list \in [Accounts -> States] /\ (c.what # Listing => c.on \in Accounts)
    BY <1>1, <1>2 DEF UsersTyped, Served, Knows, CallRecords
  <2>1. CASE c.what = Listing /\ Answer(c, "ok", accounts) /\ UNCHANGED accounts
    BY <2>0, <2>1 DEF Answer, Listing, Create, Deactivate
  <2>2. CASE c.what = Create /\ Answer(c, "403", c.list) /\ UNCHANGED accounts
    BY <2>0, <2>2 DEF Answer, Listing, Create, Deactivate
  <2>3. CASE c.what = Create /\ Answer(c, "409", c.list) /\ UNCHANGED accounts
    BY <2>0, <2>3 DEF Answer, Listing, Create, Deactivate
  <2>4. CASE /\ c.what = Create /\ Free(c.on) /\ Answer(c, "ok", c.list)
             /\ accounts' = [accounts EXCEPT ![c.on] = "active"]
    <3>1. c.on \in Accounts /\ accounts[c.on] = "none"
      BY <2>0, <2>4 DEF Free, Listing, Create
    <3>2. /\ accounts' \in [Accounts -> States] /\ Knows(accounts', accounts)
          /\ accounts'[c.on] = "active"
      BY <2>0, <2>4, <3>1, AccountSet
    <3> QED
      BY <2>0, <2>4, <3>2 DEF Answer, Listing, Create, Deactivate
  <2>5. CASE /\ c.what = Deactivate /\ Answer(c, "ok", c.list)
             /\ accounts' = [accounts EXCEPT ![c.on] = "inactive"]
    <3>1. c.on \in Accounts
      BY <2>0, <2>5 DEF Listing, Deactivate
    <3>2. /\ accounts' \in [Accounts -> States] /\ Knows(accounts', accounts)
          /\ accounts'[c.on] = "inactive"
      BY <2>0, <2>5, <3>1, AccountSet
    <3> QED
      BY <2>0, <2>5, <3>2 DEF Answer, Listing, Create, Deactivate
  <2> QED
    BY <2>1, <2>2, <2>3, <2>4, <2>5 DEF ServerAnswers
<1> DEFINE d == [c EXCEPT !.answer = answer, !.list = list]
<1>4. /\ d.what = c.what /\ d.on = c.on /\ d.answer = answer /\ d.list = list
      /\ d \in CallRecords
  BY <1>2, <1>3 DEF Served, CallRecords
<1>5. calls' = (calls \ {c}) \cup {d}
  BY <1>3
<1> HIDE DEF d
<1>6. UsersTyped'
  BY <1>1, <1>2, <1>3 DEF UsersTyped
<1>7. Served(d, accounts')
  BY <1>2, <1>3, <1>4 DEF Served
<1>8. \A e \in calls' : Served(e, accounts')
  BY <1>1, <1>3, <1>5, <1>7, ServedLater DEF UsersTyped
<1>9. Knows(accounts', mine')
  BY <1>1, <1>2, <1>3, ServedLater DEF UsersTyped
<1>10. ASSUME ~jumbled' PROVE OneListing(calls', listed', mine')
  <2>1. OneListing(calls, listed, mine)
    BY <1>1, <1>2, <1>10
  <2>2. CASE c.what = Listing
    <3>1. Listings(calls) = {c} /\ Listings(calls') = {d}
      BY <1>4, <1>5, <2>1, <2>2 DEF OneListing, Listings
    <3>2. Knows(d.list, mine)
      BY <1>1, <1>3, <1>4, <2>2
    <3> QED
      BY <1>2, <3>1, <3>2 DEF OneListing
  <2>3. CASE c.what # Listing
    <3>1. Listings(calls') = Listings(calls)
      BY <1>4, <1>5, <2>3 DEF Listings
    <3> QED
      BY <1>2, <2>1, <3>1 DEF OneListing
  <2> QED
    BY <2>2, <2>3
<1> QED
  BY <1>6, <1>8, <1>9, <1>10 DEF UsersInv

\* The page takes an answer in.
LEMMA AnswerIsTaken ==
  ASSUME UsersInv, NEW c \in calls, UserAnswer(c)
  PROVE  UsersInv'
<1> USE DEF Listing, Create, Deactivate
<1>1. /\ UsersTyped /\ (\A d \in calls : Served(d, accounts)) /\ Knows(accounts, mine)
      /\ (~jumbled => OneListing(calls, listed, mine))
  BY DEF UsersInv
<1>2. Served(c, accounts) /\ c \in CallRecords /\ UNCHANGED accounts
  BY <1>1 DEF UserAnswer, Served
<1>3. CASE /\ c.what = Listing /\ c.answer # "none" /\ listed' = c.list
           /\ calls' = calls \ {c} /\ UNCHANGED <<called, mine, jumbled>>
  <2>1. UsersTyped'
    BY <1>1, <1>2, <1>3 DEF UsersTyped, CallRecords
  <2>2. ASSUME ~jumbled' PROVE OneListing(calls', listed', mine')
    <3>1. OneListing(calls, listed, mine) /\ c.answer = "ok"
      BY <1>1, <1>2, <1>3, <2>2 DEF Served
    <3>2. Listings(calls) = {c} /\ Listings(calls') = {} /\ Knows(c.list, mine)
      BY <1>3, <3>1 DEF OneListing, Listings
    <3> QED
      BY <1>3, <3>2 DEF OneListing
  <2> QED
    BY <1>1, <1>2, <1>3, <2>1, <2>2 DEF UsersInv
<1>4. CASE /\ c.what # Listing /\ c.answer = "ok" /\ UNCHANGED listed
           /\ mine' = [mine EXCEPT ![c.on] = IF c.what = Create THEN "active" ELSE "inactive"]
           /\ TakeAndReload(c)
  <2> DEFINE d == [what |-> Listing, on |-> "none", answer |-> "none",
                   list |-> [m \in Accounts |-> "none"]]
  <2>1. calls' = (calls \ {c}) \cup {d} /\ jumbled' = (jumbled \/ Listings(calls) # {})
    BY <1>4 DEF TakeAndReload, Pending, Listings
  <2>2. d.what = Listing /\ d.answer = "none" /\ d \in CallRecords
    BY NoneListed DEF CallRecords
  <2> HIDE DEF d
  <2>3. c.on \in Accounts
    BY <1>2, <1>4 DEF Served
  <2>4. /\ c.what = Create => accounts[c.on] # "none"
        /\ c.what # Create => accounts[c.on] = "inactive"
    BY <1>2, <1>4 DEF Served, CallRecords
  <2>5. UsersTyped'
    <3>1. mine' \in [Accounts -> States]
      BY <1>1, <1>4, <2>3 DEF UsersTyped, States
    <3>2. jumbled' \in BOOLEAN
      BY <1>1, <2>1 DEF UsersTyped
    <3> QED
      BY <1>1, <1>2, <1>4, <3>1, <3>2 DEF UsersTyped
  <2>6. Knows(accounts, mine')
    <3> SUFFICES ASSUME NEW n \in Accounts
                 PROVE  mine'[n] = "none" \/ accounts[n] = "inactive" \/ accounts[n] = mine'[n]
      BY DEF Knows
    <3>1. CASE n = c.on
      <4>1. mine'[n] = IF c.what = Create THEN "active" ELSE "inactive"
        BY <1>1, <1>4, <3>1 DEF UsersTyped
      <4>2. accounts[n] \in States
        BY <1>1 DEF UsersTyped
      <4> QED
        BY <2>4, <3>1, <4>1, <4>2 DEF States
    <3>2. CASE n # c.on
      <4>1. mine'[n] = mine[n]
        BY <1>1, <1>4, <3>2 DEF UsersTyped
      <4> QED
        BY <1>1, <4>1 DEF Knows
    <3> QED
      BY <3>1, <3>2
  <2>7. Served(d, accounts)
    BY <2>2 DEF Served
  <2>8. ASSUME ~jumbled' PROVE OneListing(calls', listed', mine')
    <3>1. Listings(calls') = {d}
      BY <1>1, <2>1, <2>2, <2>8 DEF UsersTyped, Listings
    <3> QED
      BY <2>2, <3>1 DEF OneListing
  <2> QED
    BY <1>1, <1>2, <2>1, <2>5, <2>6, <2>7, <2>8 DEF UsersInv
<1>5. CASE c.answer = "409" /\ calls' = calls \ {c} /\ UNCHANGED <<listed, called, mine, jumbled>>
  <2>1. UsersTyped'
    BY <1>1, <1>2, <1>5 DEF UsersTyped
  <2>2. Listings(calls') = Listings(calls)
    BY <1>2, <1>5 DEF Listings, Served
  <2>3. ~jumbled' => OneListing(calls', listed', mine')
    BY <1>1, <1>5, <2>2 DEF OneListing
  <2> QED
    BY <1>1, <1>2, <1>5, <2>1, <2>3 DEF UsersInv
<1>6. CASE /\ calls' = {} /\ listed' = [m \in Accounts |-> "none"]
           /\ mine' = [m \in Accounts |-> "none"] /\ jumbled' = FALSE
  <2>1. UsersTyped'
    BY <1>1, <1>2, <1>6, NoneListed DEF UsersTyped
  <2>2. Knows(accounts', mine') /\ Knows(listed', mine')
    BY <1>6, NoneListed
  <2> QED
    BY <1>6, <2>1, <2>2 DEF UsersInv, OneListing, Listings
<1> QED
  BY <1>3, <1>4, <1>5, <1>6 DEF UserAnswer

LEMMA UsersStep == UsersInv /\ [UsersNext]_accountVars => UsersInv'
<1> SUFFICES ASSUME UsersInv, [UsersNext]_accountVars PROVE UsersInv'
  OBVIOUS
<1>1. CASE LoadUsers
  BY <1>1, CallIsServed DEF LoadUsers
<1>2. ASSUME NEW n \in Accounts, CreateUserPressed(n) \/ DeactivatePressed(n) PROVE UsersInv'
  <2>1. Create # Listing /\ Deactivate # Listing
    BY DEF Listing, Create, Deactivate
  <2>2. PICK what \in {Create, Deactivate} : Call(what, n)
    BY <1>2 DEF CreateUserPressed, DeactivatePressed
  <2>3. UNCHANGED <<accounts, listed, mine, jumbled>>
    BY <1>2 DEF CreateUserPressed, DeactivatePressed
  <2>4. jumbled \in BOOLEAN
    BY DEF UsersInv, UsersTyped
  <2>5. jumbled' = (jumbled \/ (what = Listing /\ Pending(Listing) # {}))
    BY <2>1, <2>3, <2>4
  <2> QED
    BY <2>1, <2>2, <2>3, <2>5, CallIsServed
<1>3. CASE AnotherAdmin
  <2>1. PICK n \in Accounts, s \in {"active", "inactive"} :
          /\ accounts' = [accounts EXCEPT ![n] = s]
          /\ s = "inactive" \/ (s = "active" /\ accounts[n] = "none")
    BY <1>3 DEF AnotherAdmin, Free
  <2>2. UNCHANGED <<listed, calls, mine, jumbled>>
    BY <1>3 DEF AnotherAdmin
  <2>3. UsersTyped /\ (\A d \in calls : Served(d, accounts)) /\ Knows(accounts, mine)
        /\ (~jumbled => OneListing(calls, listed, mine))
    BY DEF UsersInv
  <2>4. accounts' \in [Accounts -> States] /\ Knows(accounts', accounts)
    BY <2>1, <2>3, AccountSet DEF UsersTyped
  <2>5. (\A d \in calls : Served(d, accounts')) /\ Knows(accounts', mine)
    BY <2>3, <2>4, ServedLater DEF UsersTyped
  <2> QED
    BY <2>2, <2>3, <2>4, <2>5 DEF UsersInv, UsersTyped
<1>4. ASSUME NEW c \in calls, CallLost(c) PROVE UsersInv'
  <2>1. calls' = calls \ {c} /\ jumbled' = TRUE /\ UNCHANGED <<accounts, listed, mine>>
    BY <1>4 DEF CallLost
  <2> QED
    BY <2>1 DEF UsersInv, UsersTyped
<1>5. CASE UNCHANGED accountVars
  BY <1>5 DEF accountVars, UsersInv, UsersTyped
<1> QED
  BY <1>1, <1>2, <1>3, <1>4, <1>5, AnswerIsServed, AnswerIsTaken DEF UsersNext

LEMMA OwnChangesFollow == UsersInv => OwnChangesAreListed
<1> SUFFICES ASSUME UsersInv, calls = {}, ~jumbled, NEW n \in Accounts
             PROVE  /\ mine[n] = "inactive" => listed[n] = "inactive"
                    /\ mine[n] = "active" => listed[n] # "none"
  BY DEF OwnChangesAreListed
<1>1. Knows(listed, mine)
  BY DEF UsersInv, OneListing, Listings
<1>2. mine[n] = "none" \/ listed[n] = "inactive" \/ listed[n] = mine[n]
  BY <1>1 DEF Knows
<1> QED
  BY <1>2

-----------------------------------------------------------------------------
(***************************************************************************)
(* The audit log and the dashboard.  What was due above a cursor of the    *)
(* walk has been on a page, and a page takes in what is due down to its    *)
(* last row.                                                               *)
(***************************************************************************)
Cursors == [ts : Int, id : Nat]
LogRecords == [ts : Int, by : Searchers]

LogsTyped ==
  /\ searches \in Seq(LogRecords) /\ \A id \in DOMAIN searches : searches[id].ts <= Today
  /\ cursorStack \in Seq(Cursors) /\ logsCurrent \in Cursors /\ logsNext \in Cursors
  /\ rows \in Seq(Nat) /\ ToSet(rows) \subseteq DOMAIN searches
  /\ mixed \in BOOLEAN

\* The cursors of the pages before this one, from page one on, each below all before it.
Leads(stack, here) ==
  /\ \A i \in 1..Len(stack) : Older(here, stack[i])
  /\ \A i, j \in 1..Len(stack) : i < j => Older(stack[j], stack[i])
  /\ IF stack = <<>> THEN here = NoCursor ELSE stack[1] = NoCursor

KeyIn(log, id) == [ts |-> log[id].ts, id |-> id]

Covered(log, wanted, seen, cursor) ==
  \A id \in wanted : ~Older(KeyIn(log, id), cursor) => id \in seen

WalkInv ==
  /\ asked \subseteq {[from |-> logsCurrent, who |-> who]}
  /\ Leads(cursorStack, logsCurrent)
  /\ Covered(searches, due, passed, logsCurrent)
  /\ \A i \in 1..Len(cursorStack) : Covered(searches, due, passed, cursorStack[i])
  /\ \A id \in due : id \in DOMAIN searches /\ Matches(id, who)
  /\ asked = {} =>
       /\ logsNext # NoCursor =>
            Older(logsNext, logsCurrent) /\ Covered(searches, due, passed, logsNext)
       /\ rows = <<>> => due \subseteq passed
       /\ rows # <<>> => Covered(searches, due, passed, KeyIn(searches, Last(rows)))

TodaysSearches(log) == {id \in DOMAIN log : log[id].ts = Today}

DashInv ==
  /\ dash \in [today : Nat, chart : Nat, drawn : BOOLEAN]
  /\ dash.today <= Cardinality(TodaysSearches(searches)) /\ ChartHasToday

LogsInv == LogsTyped /\ (~mixed => WalkInv) /\ DashInv

-----------------------------------------------------------------------------
LEMMA IdsOfLogs ==
  ASSUME LogsTyped
  PROVE  /\ DOMAIN searches = 1..Len(searches) /\ Len(searches) \in Nat
         /\ \A id \in DOMAIN searches :
              id \in Nat /\ searches[id] \in LogRecords /\ Key(id) \in Cursors
         /\ IsFiniteSet(DOMAIN searches) /\ Cardinality(DOMAIN searches) = Len(searches)
<1>1. DOMAIN searches = 1..Len(searches) /\ Len(searches) \in Nat
  BY LenProperties DEF LogsTyped
<1>2. \A id \in DOMAIN searches : id \in Nat /\ searches[id] \in LogRecords
  BY <1>1, ElementOfSeq DEF LogsTyped
<1>3. \A id \in DOMAIN searches : Key(id) \in Cursors
  BY <1>2 DEF Key, Cursors, LogRecords
<1> QED
  BY <1>1, <1>2, <1>3, FirstNaturals

LEMMA OlderIsAnOrder ==
  /\ \A a, b, c \in Cursors : Older(a, b) /\ Older(b, c) => Older(a, c)
  /\ \A a \in Cursors : ~Older(a, a)
  /\ \A a, b \in Cursors : Older(a, b) \/ Older(b, a) \/ (a.ts = b.ts /\ a.id = b.id)
  BY DEF Older, Cursors

\* The ids are put in the order of their keys, the newest first, each of them once.
LEMMA NewestFirstIs ==
  ASSUME LogsTyped, NEW ids, ids \subseteq DOMAIN searches
  PROVE  /\ NewestFirst(ids) \in Seq(ids) /\ Len(NewestFirst(ids)) = Cardinality(ids)
         /\ ToSet(NewestFirst(ids)) = ids
         /\ \A i, j \in 1..Len(NewestFirst(ids)) :
              i < j => Older(Key(NewestFirst(ids)[j]), Key(NewestFirst(ids)[i]))
<1> DEFINE above == [id \in ids |-> Newer(ids, id)]
           f == NewestFirst(ids)
<1>0. IsFiniteSet(ids)
  BY IdsOfLogs, FS_Subset
<1>1. \A id \in ids : above[id] = {k \in ids : Older(Key(id), Key(k))}
  BY DEF Newer
<1>2. \A id \in ids : Key(id) \in Cursors /\ Key(id).id = id
  BY IdsOfLogs DEF Key
<1> HIDE DEF above
<1>3. Orders(above, ids)
  <2>1. \A c \in ids : above[c] \subseteq ids /\ c \notin above[c]
    BY <1>1, <1>2, OlderIsAnOrder
  <2>2. \A a, b, c \in ids : a \in above[b] /\ b \in above[c] => a \in above[c]
    BY <1>1, <1>2, OlderIsAnOrder
  <2>3. \A a, b \in ids : a = b \/ a \in above[b] \/ b \in above[a]
    BY <1>1, <1>2, OlderIsAnOrder
  <2> QED
    BY <2>1, <2>2, <2>3 DEF Orders
<1>4. \A i \in 1..Cardinality(ids) : \E c \in ids : Cardinality(above[c]) = i - 1
  BY <1>0, <1>3, RanksExist
<1>5. \A c \in ids : above[c] = Newer(ids, c)
  BY <1>1 DEF Newer
<1>6. f = [i \in 1..Cardinality(ids) |-> f[i]]
  BY DEF NewestFirst
<1>7. ASSUME NEW i \in 1..Cardinality(ids)
      PROVE  f[i] \in ids /\ Cardinality(above[f[i]]) = i - 1
  <2>1. f[i] = CHOOSE c \in ids : Cardinality(Newer(ids, c)) = i - 1
    BY DEF NewestFirst
  <2>2. \E c \in ids : Cardinality(Newer(ids, c)) = i - 1
    BY <1>4, <1>5
  <2>3. f[i] \in ids /\ Cardinality(Newer(ids, f[i])) = i - 1
    BY <2>1, <2>2
  <2> QED
    BY <1>5, <2>3
<1> HIDE DEF f
<1>8. /\ f \in Seq(ids) /\ Len(f) = Cardinality(ids) /\ ToSet(f) = ids
      /\ \A i, j \in 1..Len(f) : i < j => f[i] \in above[f[j]]
  BY <1>0, <1>3, <1>6, <1>7, RankedIs
<1>9. \A i \in 1..Len(f) : f[i] \in ids
  BY <1>8, ElementOfSeq
<1>10. \A i, j \in 1..Len(f) : i < j => Older(Key(f[j]), Key(f[i]))
  BY <1>1, <1>8, <1>9
<1> QED
  BY <1>8, <1>10 DEF f

\* A page: the newest of the matching ids, down to its last row.
LEMMA PageIs ==
  ASSUME LogsTyped, NEW cursor, NEW filter, NEW limit \in Nat \ {0}
  PROVE  LET leaf == PageOf(cursor, filter, limit)
             ids == MatchingIds(cursor, filter)
         IN  /\ leaf \in Seq(Nat) /\ ToSet(leaf) \subseteq ids
             /\ leaf = <<>> => ids = {}
             /\ leaf # <<>> =>
                  /\ Last(leaf) \in ids
                  /\ \A id \in ids : ~Older(Key(id), Key(Last(leaf))) => id \in ToSet(leaf)
             /\ Cardinality(ids) <= limit => ToSet(leaf) = ids
<1> DEFINE ids == MatchingIds(cursor, filter)
           all == NewestFirst(ids)
           n == Len(all)
           m == Min({limit, n})
           leaf == SubSeq(all, 1, m)
<1>1. ids \subseteq DOMAIN searches
  BY DEF MatchingIds
<1>2. \A id \in ids : id \in Nat /\ Key(id) \in Cursors
  BY <1>1, IdsOfLogs
<1>3. PageOf(cursor, filter, limit) = leaf
  BY DEF PageOf
<1> HIDE DEF ids
<1>4. /\ all \in Seq(ids) /\ Len(all) = Cardinality(ids) /\ ToSet(all) = ids
      /\ \A i, j \in 1..Len(all) : i < j => Older(Key(all[j]), Key(all[i]))
  BY <1>1, NewestFirstIs
<1> HIDE DEF all
<1>5. /\ DOMAIN all = 1..n /\ n \in Nat
      /\ \A i \in 1..n : all[i] \in ids
      /\ \A id \in ids : \E i \in 1..n : all[i] = id
  BY <1>4, LenProperties, ElementOfSeq DEF ToSet
<1>15. n = Cardinality(ids) /\ n = Len(all)
  BY <1>4
<1> HIDE DEF n
<1>6. /\ m \in Nat /\ m <= limit /\ m <= n /\ (m = limit \/ m = n)
  <2>1. m = IF limit <= n THEN limit ELSE n
    BY <1>5, MinOfTwo
  <2> HIDE DEF m
  <2> QED
    BY <1>5, <2>1
<1> HIDE DEF m
<1>7. leaf \in Seq(ids) /\ Len(leaf) = m /\ \A i \in 1..m : leaf[i] = all[i]
  <2>1. CASE m = 0
    <3>1. leaf = <<>> /\ 1..m = {}
      BY <1>5, <2>1, SubSeqEmpty
    <3> QED
      BY <2>1, <3>1, EmptySeq
  <2>2. CASE m # 0
    BY <1>4, <1>5, <1>6, <1>15, <2>2, SubSeqProperties
  <2> QED
    BY <2>1, <2>2
<1> HIDE DEF leaf
<1>8. /\ DOMAIN leaf = 1..m /\ ToSet(leaf) = {all[i] : i \in 1..m}
  BY <1>7, LenProperties DEF ToSet
<1>9. \A i \in 1..m : i \in 1..n
  <2>1. n \in Nat /\ m \in Nat /\ m <= n
    BY <1>5, <1>6
  <2> QED
    BY <2>1
<1>10. ToSet(leaf) \subseteq ids
  BY <1>5, <1>8, <1>9
<1>11. leaf \in Seq(Nat)
  <2>1. leaf = [i \in 1..m |-> leaf[i]] /\ \A i \in 1..m : leaf[i] \in Nat
    BY <1>2, <1>5, <1>7, <1>8, <1>9, LenProperties
  <2>2. leaf \in [1..m -> Nat]
    BY <2>1
  <2> QED
    BY <1>6, <2>2, SeqDef
<1>12. ASSUME leaf = <<>> PROVE ids = {}
  <2>1. m = 0
    BY <1>7, <1>12, EmptySeq
  <2>2. n = 0
    BY <1>6, <2>1
  <2> QED
    BY <1>5, <2>2
<1>13. ASSUME leaf # <<>>
       PROVE  /\ Last(leaf) \in ids
              /\ \A id \in ids : ~Older(Key(id), Key(Last(leaf))) => id \in ToSet(leaf)
  <2>0. m # 0
    BY <1>7, <1>13, EmptySeq
  <2>1. m # 0 /\ m \in 1..m /\ m \in 1..n
    BY <1>5, <1>6, <2>0
  <2>2. Last(leaf) = all[m]
    BY <1>7, <2>1 DEF Last
  <2>3. ASSUME NEW id \in ids, ~Older(Key(id), Key(all[m])) PROVE id \in ToSet(leaf)
    <3>1. PICK i \in 1..n : all[i] = id
      BY <1>5
    <3>2. ~(m < i)
      BY <1>4, <1>15, <2>1, <2>3, <3>1
    <3>3. i \in 1..m
      BY <1>6, <3>2
    <3> QED
      BY <1>8, <3>1, <3>3
  <2> QED
    BY <1>5, <2>1, <2>2, <2>3
<1>14. ASSUME Cardinality(ids) <= limit PROVE ToSet(leaf) = ids
  <2>1. m = n
    <3>1. n <= limit
      BY <1>14, <1>15
    <3>2. n \in Nat /\ limit \in Nat /\ m \in Nat /\ m <= n /\ (m = limit \/ m = n)
      BY <1>5, <1>6
    <3> QED
      BY <3>1, <3>2
  <2> QED
    BY <1>4, <1>5, <1>8, <2>1 DEF ToSet
<1> QED
  BY <1>3, <1>10, <1>11, <1>12, <1>13, <1>14 DEF ids

-----------------------------------------------------------------------------
LEMMA NoCursorTyped == NoCursor \in Cursors
  BY AdminPanelAssumption DEF NoCursor, Cursors

LEMMA LogsInitially == PanelInit => LogsInv
<1> SUFFICES ASSUME PanelInit PROVE LogsInv
  OBVIOUS
<1>1. /\ searches \in OldLogs /\ cursorStack = <<>> /\ logsCurrent = NoCursor
      /\ logsNext = NoCursor /\ rows = <<>> /\ asked = {} /\ due = {} /\ mixed = FALSE
      /\ dash = NoDash
  BY DEF PanelInit
<1>2. searches \in Seq([ts : 0..Today, by : Searchers])
  BY <1>1, AdminPanelAssumption
<1>3. /\ DOMAIN searches = 1..Len(searches) /\ Len(searches) \in Nat
      /\ searches = [i \in 1..Len(searches) |-> searches[i]]
      /\ \A id \in 1..Len(searches) : searches[id] \in [ts : 0..Today, by : Searchers]
  BY <1>2, LenProperties, ElementOfSeq
<1>4. \A id \in 1..Len(searches) : searches[id] \in LogRecords /\ searches[id].ts <= Today
  BY <1>3, AdminPanelAssumption DEF LogRecords
<1>5. searches \in [1..Len(searches) -> LogRecords]
  BY <1>3, <1>4
<1>6. searches \in Seq(LogRecords)
  BY <1>3, <1>5, SeqDef
<1>7. LogsTyped
  <2>1. <<>> \in Seq(Nat) /\ <<>> \in Seq(Cursors) /\ ToSet(<<>>) = {}
    BY EmptySeq DEF ToSet
  <2>2. \A id \in DOMAIN searches : searches[id].ts <= Today
    BY <1>3, <1>4
  <2> QED
    BY <1>1, <1>6, <2>1, <2>2, NoCursorTyped DEF LogsTyped
<1>8. WalkInv
  BY <1>1, EmptySeq DEF WalkInv, Leads, Covered
<1>9. DashInv
  <2>1. /\ dash = [today |-> 0, chart |-> 0, drawn |-> FALSE]
    BY <1>1 DEF NoDash
  <2>2. IsFiniteSet(TodaysSearches(searches))
    BY <1>7, IdsOfLogs, FS_Subset DEF TodaysSearches
  <2>3. Cardinality(TodaysSearches(searches)) \in Nat
    BY <2>2, FS_CardinalityType
  <2> QED
    BY <2>1, <2>3 DEF DashInv, ChartHasToday
<1> QED
  BY <1>7, <1>8, <1>9 DEF LogsInv

-----------------------------------------------------------------------------
LEMMA LogGrows ==
  ASSUME LogsTyped, SearchLogged
  PROVE  /\ searches' \in Seq(LogRecords)
         /\ \A id \in DOMAIN searches' : searches'[id].ts <= Today
         /\ DOMAIN searches \subseteq DOMAIN searches'
         /\ \A id \in DOMAIN searches : searches'[id] = searches[id]
         /\ Len(searches') = Len(searches) + 1
<1>1. PICK ts \in {Today - 1, Today}, u \in Searchers :
        searches' = Append(searches, [ts |-> ts, by |-> u])
  BY DEF SearchLogged
<1> DEFINE l == [ts |-> ts, by |-> u]
<1>2. l \in LogRecords /\ l.ts <= Today
  BY AdminPanelAssumption DEF LogRecords
<1> HIDE DEF l
<1>3. searches' = Append(searches, l)
  BY <1>1 DEF l
<1>4. DOMAIN searches = 1..Len(searches) /\ Len(searches) \in Nat /\ searches \in Seq(LogRecords)
  BY IdsOfLogs DEF LogsTyped
<1>5. /\ searches' \in Seq(LogRecords) /\ Len(searches') = Len(searches) + 1
      /\ \A i \in 1..Len(searches) : searches'[i] = searches[i]
      /\ searches'[Len(searches) + 1] = l
  BY <1>2, <1>3, <1>4, AppendProperties
<1>6. DOMAIN searches' = 1..(Len(searches) + 1)
  BY <1>5, LenProperties
<1> DEFINE n == Len(searches)
<1>7. 1..n \subseteq 1..(n + 1) /\ \A i \in 1..(n + 1) : i \in 1..n \/ i = n + 1
  <2> HIDE DEF n
  <2>1. n \in Nat
    BY <1>4 DEF n
  <2> QED
    BY <2>1
<1>8. ASSUME NEW i \in 1..(n + 1) PROVE searches'[i].ts <= Today
  <2>1. CASE i \in 1..n
    BY <1>4, <1>5, <2>1 DEF LogsTyped
  <2>2. CASE i = n + 1
    BY <1>2, <1>5, <2>2
  <2> QED
    BY <1>7, <2>1, <2>2
<1> QED
  BY <1>4, <1>5, <1>6, <1>7, <1>8

LEMMA NextCursorIs ==
  ASSUME LogsTyped, NEW ids \in Seq(Nat), ToSet(ids) \subseteq DOMAIN searches
  PROVE  /\ NextCursor(ids) \in Cursors
         /\ ids # <<>> => Last(ids) \in ToSet(ids)
         /\ NextCursor(ids) # NoCursor => ids # <<>> /\ NextCursor(ids) = Key(Last(ids))
<1>1. ids # <<>> => Last(ids) \in ToSet(ids)
  BY LenProperties, EmptySeq DEF Last, ToSet
<1>2. LogsLimit # 0
  BY AdminPanelAssumption
<1>3. CASE Len(ids) = LogsLimit
  <2>1. ids # <<>>
    BY <1>2, <1>3, EmptySeq
  <2>2. NextCursor(ids) = Key(Last(ids))
    BY <1>3 DEF NextCursor
  <2>3. Last(ids) \in DOMAIN searches
    BY <1>1, <2>1
  <2> QED
    BY <1>1, <2>1, <2>2, <2>3, IdsOfLogs
<1>4. CASE Len(ids) # LogsLimit
  BY <1>1, <1>4, NoCursorTyped DEF NextCursor
<1> QED
  BY <1>3, <1>4

\* The page an answer brings.
LEMMA AnswerBrings ==
  ASSUME LogsTyped, NEW r, NEW failed \in BOOLEAN
  PROVE  LET ids == IF failed THEN <<>> ELSE PageOf(r.from, r.who, LogsLimit)
         IN  ids \in Seq(Nat) /\ ToSet(ids) \subseteq DOMAIN searches
<1>1. CASE failed
  BY <1>1 DEF ToSet
<1>2. CASE ~failed
  <2>1. LogsLimit \in Nat \ {0}
    BY AdminPanelAssumption
  <2>2. MatchingIds(r.from, r.who) \subseteq DOMAIN searches
    BY DEF MatchingIds
  <2> QED
    BY <1>2, <2>1, <2>2, PageIs
<1> QED
  BY <1>1, <1>2

\* A list without its last element.
LEMMA FrontIs ==
  ASSUME NEW S, NEW q \in Seq(S), q # <<>>
  PROVE  /\ Len(q) \in Nat \ {0} /\ Last(q) = q[Len(q)] /\ Last(q) \in S
         /\ Front(q) \in Seq(S) /\ Len(Front(q)) = Len(q) - 1
         /\ \A i \in 1..(Len(q) - 1) : Front(q)[i] = q[i]
<1> DEFINE n == Len(q)
           a == SubSeq(q, 1, n - 1)
<1>1. n \in Nat \ {0} /\ Front(q) = a /\ Last(q) = q[n]
  BY EmptySeq DEF Front, Last
<1>2. n \in 1..n
  <2> HIDE DEF n
  <2> QED
    BY <1>1
<1>3. Last(q) \in S
  BY <1>1, <1>2, ElementOfSeq
<1>4. a \in Seq(S) /\ Len(a) = n - 1 /\ \A i \in 1..(n - 1) : a[i] = q[i]
  <2>1. CASE n = 1
    <3>1. a = <<>> /\ n - 1 = 0 /\ 1..(n - 1) = {}
      BY <1>1, <2>1, SubSeqEmpty
    <3> QED
      BY <3>1, EmptySeq
  <2>2. CASE n # 1
    <3>1. 1 \in 1..n /\ n - 1 \in 1..n
      <4> HIDE DEF n, a
      <4> QED
        BY <1>1, <2>2
    <3>2. /\ a \in Seq(S) /\ Len(a) = (n - 1) - 1 + 1
          /\ \A i \in 1..((n - 1) - 1 + 1) : a[i] = q[1 + i - 1]
      BY <1>1, <3>1, SubSeqProperties
    <3> HIDE DEF a, n
    <3>3. (n - 1) - 1 + 1 = n - 1 /\ \A i \in 1..(n - 1) : 1 + i - 1 = i
      BY <1>1
    <3> QED
      BY <3>2, <3>3
  <2> QED
    BY <2>1, <2>2
<1> QED
  BY <1>1, <1>3, <1>4

LEMMA LogsPageMoves ==
  ASSUME LogsTyped, NEW dir \in {-1, 0, 1}, LogsPage(dir)
  PROVE  \/ /\ logsNext # NoCursor
            /\ cursorStack' = Append(cursorStack, logsCurrent) /\ logsCurrent' = logsNext
         \/ /\ cursorStack # <<>>
            /\ logsCurrent' = Last(cursorStack) /\ cursorStack' = Front(cursorStack)
         \/ UNCHANGED <<cursorStack, logsCurrent>>
<1>1. 1 # -1 /\ 0 # 1 /\ 0 # -1
  OBVIOUS
<1>2. CASE dir = 1
  BY <1>1, <1>2, Zenon DEF LogsPage
<1>3. CASE dir = -1
  BY <1>1, <1>3, Zenon DEF LogsPage
<1>4. CASE dir = 0
  BY <1>1, <1>4, Zenon DEF LogsPage
<1> QED
  BY <1>2, <1>3, <1>4

LEMMA LogsTypedStep == LogsTyped /\ [LogsNext \/ DashboardNext]_logVars => LogsTyped'
<1> SUFFICES ASSUME LogsTyped, [LogsNext \/ DashboardNext]_logVars PROVE LogsTyped'
  OBVIOUS
<1>1. CASE ResetAndLoad
  BY <1>1, NoCursorTyped DEF ResetAndLoad, ResetLogs, LogsTyped
<1>2. CASE SearchLogged
  BY <1>2, LogGrows DEF SearchLogged, LogsTyped
<1>3. ASSUME NEW dir \in {-1, 0, 1}, LogsPage(dir) PROVE LogsTyped'
  <2>1. UNCHANGED <<searches, logsNext, rows>> /\ mixed' = (mixed \/ asked # {})
    BY <1>3 DEF LogsPage, Mixes
  <2>2. cursorStack' \in Seq(Cursors) /\ logsCurrent' \in Cursors
    <3>1. cursorStack \in Seq(Cursors) /\ logsCurrent \in Cursors /\ logsNext \in Cursors
      BY DEF LogsTyped
    <3>2. CASE cursorStack' = Append(cursorStack, logsCurrent) /\ logsCurrent' = logsNext
      BY <3>1, <3>2, AppendProperties
    <3>3. CASE /\ cursorStack # <<>>
               /\ logsCurrent' = Last(cursorStack) /\ cursorStack' = Front(cursorStack)
      BY <3>1, <3>3, FrontIs
    <3> QED
      BY <1>3, <3>1, <3>2, <3>3, LogsPageMoves
  <2> QED
    BY <2>1, <2>2 DEF LogsTyped
<1>4. ASSUME NEW r \in asked, LogsLoaded(r) PROVE LogsTyped'
  <2>1. PICK failed \in BOOLEAN :
          LET ids == IF failed THEN <<>> ELSE PageOf(r.from, r.who, LogsLimit)
          IN  rows' = ids /\ logsNext' = NextCursor(ids)
    BY <1>4 DEF LogsLoaded
  <2>2. UNCHANGED <<searches, cursorStack, logsCurrent>>
    BY <1>4 DEF LogsLoaded
  <2>3. mixed' \in BOOLEAN
    BY <1>4 DEF LogsLoaded, Mixes, LogsTyped
  <2>4. rows' \in Seq(Nat) /\ ToSet(rows') \subseteq DOMAIN searches
    BY <2>1, AnswerBrings
  <2>5. logsNext' \in Cursors
    BY <2>1, <2>4, NextCursorIs
  <2> QED
    BY <2>2, <2>3, <2>4, <2>5 DEF LogsTyped
<1>5. ASSUME NEW r \in asked, LogsLost(r) PROVE LogsTyped'
  BY <1>5 DEF LogsLost, Mixes, LogsTyped
<1>6. ASSUME NEW r \in asked, Unauthorized(r) PROVE LogsTyped'
  BY <1>6, NoCursorTyped DEF Unauthorized, ResetLogs, LogsTyped, ToSet
<1>7. CASE StatsShown
  BY <1>7 DEF StatsShown, LogsTyped
<1>8. CASE ChartDrawn
  BY <1>8 DEF ChartDrawn, LogsTyped
<1>9. CASE UNCHANGED logVars
  BY <1>9 DEF logVars, LogsTyped
<1> QED
  BY <1>1, <1>2, <1>3, <1>4, <1>5, <1>6, <1>7, <1>8, <1>9 DEF LogsNext, DashboardNext

-----------------------------------------------------------------------------
(* The walk.                                                                   *)

LEMMA LeadsOn ==
  ASSUME NEW stack \in Seq(Cursors), NEW here \in Cursors, NEW next \in Cursors,
         Leads(stack, here), Older(next, here)
  PROVE  Leads(Append(stack, here), next)
<1> DEFINE n == Len(stack)
           s == Append(stack, here)
<1>1. n \in Nat /\ \A i \in 1..n : stack[i] \in Cursors
  BY LenProperties, ElementOfSeq
<1>2. Len(s) = n + 1 /\ (\A i \in 1..n : s[i] = stack[i]) /\ s[n + 1] = here /\ s # <<>>
  BY AppendProperties
<1>3. \A i \in 1..n : Older(here, stack[i])
  BY DEF Leads
<1>4. \A i, j \in 1..n : i < j => Older(stack[j], stack[i])
  BY DEF Leads
<1>5. IF stack = <<>> THEN here = NoCursor ELSE stack[1] = NoCursor
  BY DEF Leads
<1>6. stack = <<>> => n = 0
  BY EmptySeq
<1>7. stack # <<>> => n # 0
  BY EmptySeq
<1> HIDE DEF n, s
<1>8. ASSUME NEW i \in 1..(n + 1) PROVE i \in 1..n \/ i = n + 1
  BY <1>1
<1>9. ASSUME NEW i \in 1..(n + 1) PROVE Older(next, s[i])
  <2>1. CASE i \in 1..n
    BY <1>1, <1>2, <1>3, <2>1, OlderIsAnOrder
  <2>2. CASE i = n + 1
    BY <1>2, <2>2
  <2> QED
    BY <1>8, <2>1, <2>2
<1>10. ASSUME NEW i \in 1..(n + 1), NEW j \in 1..(n + 1), i < j PROVE Older(s[j], s[i])
  <2>1. i \in 1..n
    BY <1>1, <1>10
  <2>2. CASE j \in 1..n
    BY <1>2, <1>4, <1>10, <2>1, <2>2
  <2>3. CASE j = n + 1
    BY <1>2, <1>3, <2>1, <2>3
  <2> QED
    BY <1>8, <2>2, <2>3
<1>11. s[1] = NoCursor
  <2>1. CASE stack = <<>>
    BY <1>2, <1>5, <1>6, <2>1
  <2>2. CASE stack # <<>>
    <3>1. 1 \in 1..n
      BY <1>1, <1>7, <2>2
    <3> QED
      BY <1>2, <1>5, <2>2, <3>1
  <2> QED
    BY <2>1, <2>2
<1> QED
  BY <1>2, <1>9, <1>10, <1>11 DEF Leads, s

LEMMA LeadsBack ==
  ASSUME NEW stack \in Seq(Cursors), NEW here, Leads(stack, here), stack # <<>>
  PROVE  /\ Leads(Front(stack), Last(stack))
         /\ \A i \in 1..Len(Front(stack)) : i \in 1..Len(stack) /\ Front(stack)[i] = stack[i]
         /\ Len(stack) \in 1..Len(stack) /\ Last(stack) = stack[Len(stack)]
<1> DEFINE n == Len(stack)
           a == Front(stack)
<1>1. /\ n \in Nat \ {0} /\ Last(stack) = stack[n] /\ a \in Seq(Cursors) /\ Len(a) = n - 1
      /\ \A i \in 1..(n - 1) : a[i] = stack[i]
  BY FrontIs
<1>2. \A i, j \in 1..n : i < j => Older(stack[j], stack[i])
  BY DEF Leads
<1>3. stack[1] = NoCursor
  BY DEF Leads
<1>4. a = <<>> => n - 1 = 0
  BY <1>1, EmptySeq
<1>5. a # <<>> => n - 1 # 0
  BY <1>1, EmptySeq
<1> HIDE DEF n, a
<1>6. n \in 1..n /\ \A i \in 1..(n - 1) : i \in 1..n /\ i < n
  BY <1>1
<1>7. \A i \in 1..(n - 1) : Older(stack[n], a[i])
  BY <1>1, <1>2, <1>6
<1>8. \A i, j \in 1..(n - 1) : i < j => Older(a[j], a[i])
  BY <1>1, <1>2, <1>6
<1>9. IF a = <<>> THEN stack[n] = NoCursor ELSE a[1] = NoCursor
  <2>1. CASE a = <<>>
    <3>1. n = 1
      BY <1>1, <1>4, <2>1
    <3> QED
      BY <1>3, <2>1, <3>1
  <2>2. CASE a # <<>>
    <3>1. 1 \in 1..(n - 1)
      BY <1>1, <1>5, <2>2
    <3> QED
      BY <1>1, <1>3, <2>2, <3>1
  <2> QED
    BY <2>1, <2>2
<1>10. Leads(a, stack[n])
  BY <1>1, <1>7, <1>8, <1>9 DEF Leads
<1> QED
  BY <1>1, <1>6, <1>10 DEF n, a

LEMMA PreviousFollows ==
  ASSUME LogsTyped, Leads(cursorStack, logsCurrent)
  PROVE  LET walk == Append(cursorStack, logsCurrent)
         IN  \A i \in 1 .. Len(walk) - 1 : Older(walk[i + 1], walk[i]) /\ walk[1] = NoCursor
<1> DEFINE n == Len(cursorStack)
           s == Append(cursorStack, logsCurrent)
<1>1. cursorStack \in Seq(Cursors) /\ logsCurrent \in Cursors /\ n \in Nat
  BY LenProperties DEF LogsTyped
<1>2. Len(s) = n + 1 /\ (\A i \in 1..n : s[i] = cursorStack[i]) /\ s[n + 1] = logsCurrent
  BY <1>1, AppendProperties
<1>3. \A i \in 1..n : Older(logsCurrent, cursorStack[i])
  BY DEF Leads
<1>4. \A i, j \in 1..n : i < j => Older(cursorStack[j], cursorStack[i])
  BY DEF Leads
<1>5. n # 0 => cursorStack[1] = NoCursor
  BY <1>1, EmptySeq DEF Leads
<1> HIDE DEF n, s
<1>6. ASSUME NEW i \in 1..n PROVE Older(s[i + 1], s[i]) /\ s[1] = NoCursor
  <2>1. 1 \in 1..n /\ n # 0 /\ (i + 1 \in 1..n \/ i = n) /\ i < i + 1
    BY <1>1
  <2>2. s[1] = NoCursor
    BY <1>2, <1>5, <2>1
  <2>3. CASE i + 1 \in 1..n
    BY <1>2, <1>4, <2>1, <2>2, <2>3
  <2>4. CASE i = n
    BY <1>2, <1>3, <2>2, <2>4
  <2> QED
    BY <2>1, <2>3, <2>4
<1>7. (n + 1) - 1 = n
  BY <1>1
<1> QED
  BY <1>2, <1>6, <1>7 DEF s

\* Page one is asked for anew: nothing is due yet.
LEMMA WalkBegins ==
  ASSUME NEW filter, ResetLogs(filter), asked' = {} \/ asked' = {[from |-> NoCursor, who |-> filter]},
         asked' # {}
  PROVE  WalkInv'
<1>1. /\ cursorStack' = <<>> /\ logsCurrent' = NoCursor /\ who' = filter /\ due' = {}
      /\ asked' = {[from |-> NoCursor, who |-> filter]}
  BY DEF ResetLogs
<1>2. Leads(cursorStack', logsCurrent') /\ 1..Len(cursorStack') = {}
  BY <1>1, EmptySeq DEF Leads
<1> QED
  BY <1>1, <1>2 DEF WalkInv, Covered

LEMMA WalkMoves ==
  ASSUME LogsTyped, NEW dir \in {-1, 0, 1}, LogsPage(dir), ~mixed => WalkInv, ~mixed'
  PROVE  WalkInv'
<1>1. /\ ~mixed /\ asked = {} /\ UNCHANGED <<searches, due, passed, who>>
      /\ asked' = {[from |-> logsCurrent', who |-> who]}
  <2>1. mixed' = (mixed \/ asked # {}) /\ UNCHANGED <<searches, who>>
    BY DEF LogsPage, Mixes
  <2>2. ~mixed /\ asked = {}
    BY <2>1 DEF LogsTyped
  <2>3. UNCHANGED <<due, passed>>
    BY <2>2 DEF LogsPage, Mixes
  <2>4. asked' = asked \cup {[from |-> logsCurrent', who |-> who]}
    BY DEF LogsPage, Asks
  <2> QED
    BY <2>1, <2>2, <2>3, <2>4
<1>2. /\ Leads(cursorStack, logsCurrent)
      /\ Covered(searches, due, passed, logsCurrent)
      /\ \A i \in 1..Len(cursorStack) : Covered(searches, due, passed, cursorStack[i])
      /\ \A id \in due : id \in DOMAIN searches /\ Matches(id, who)
      /\ logsNext # NoCursor =>
            Older(logsNext, logsCurrent) /\ Covered(searches, due, passed, logsNext)
  BY <1>1 DEF WalkInv
<1>3. cursorStack \in Seq(Cursors) /\ logsCurrent \in Cursors /\ logsNext \in Cursors
  BY DEF LogsTyped
<1>4. /\ Leads(cursorStack', logsCurrent')
      /\ Covered(searches, due, passed, logsCurrent')
      /\ \A i \in 1..Len(cursorStack') : Covered(searches, due, passed, cursorStack'[i])
  <2>1. CASE /\ logsNext # NoCursor
             /\ cursorStack' = Append(cursorStack, logsCurrent) /\ logsCurrent' = logsNext
    <3>1. Leads(cursorStack', logsCurrent')
      BY <1>2, <1>3, <2>1, LeadsOn
    <3>2. /\ Len(cursorStack') = Len(cursorStack) + 1
          /\ \A i \in 1..Len(cursorStack) : cursorStack'[i] = cursorStack[i]
          /\ cursorStack'[Len(cursorStack) + 1] = logsCurrent /\ Len(cursorStack) \in Nat
      BY <1>3, <2>1, AppendProperties, LenProperties
    <3>3. ASSUME NEW i \in 1..Len(cursorStack') PROVE Covered(searches, due, passed, cursorStack'[i])
      <4>1. i \in 1..Len(cursorStack) \/ i = Len(cursorStack) + 1
        BY <3>2
      <4> QED
        BY <1>2, <3>2, <4>1
    <3> QED
      BY <1>2, <2>1, <3>1, <3>3
  <2>2. CASE /\ cursorStack # <<>>
             /\ logsCurrent' = Last(cursorStack) /\ cursorStack' = Front(cursorStack)
    <3>1. /\ Leads(cursorStack', logsCurrent')
          /\ \A i \in 1..Len(cursorStack') :
               i \in 1..Len(cursorStack) /\ cursorStack'[i] = cursorStack[i]
          /\ Len(cursorStack) \in 1..Len(cursorStack)
          /\ logsCurrent' = cursorStack[Len(cursorStack)]
      BY <1>2, <1>3, <2>2, LeadsBack
    <3> QED
      BY <1>2, <3>1
  <2> QED
    BY <1>2, <2>1, <2>2, LogsPageMoves
<1> QED
  BY <1>1, <1>2, <1>4 DEF WalkInv, Matches

LEMMA WalkLoads ==
  ASSUME LogsTyped, NEW r \in asked, LogsLoaded(r), ~mixed => WalkInv, ~mixed'
  PROVE  WalkInv'
<1>1. PICK failed \in BOOLEAN :
        LET ids == IF failed THEN <<>> ELSE PageOf(r.from, r.who, LogsLimit)
        IN  /\ rows' = ids /\ logsNext' = NextCursor(ids)
            /\ IF r.from = NoCursor /\ ~mixed /\ ~failed
               THEN /\ due' = MatchingIds(NoCursor, r.who)
                    /\ passed' = passed \cup ToSet(ids) /\ UNCHANGED mixed
               ELSE Mixes(failed, passed \cup ToSet(ids))
            /\ asked' = asked \ {r}
            /\ UNCHANGED <<searches, cursorStack, logsCurrent, who, asks, dash>>
  BY DEF LogsLoaded
<1>2. ~mixed /\ ~failed
  BY <1>1 DEF Mixes, LogsTyped
<1>3. /\ asked \subseteq {[from |-> logsCurrent, who |-> who]}
      /\ Leads(cursorStack, logsCurrent)
      /\ Covered(searches, due, passed, logsCurrent)
      /\ \A i \in 1..Len(cursorStack) : Covered(searches, due, passed, cursorStack[i])
      /\ \A id \in due : id \in DOMAIN searches /\ Matches(id, who)
  BY <1>2 DEF WalkInv
<1>4. r.from = logsCurrent /\ r.who = who /\ asked' = {}
  BY <1>1, <1>3
<1> DEFINE leaf == PageOf(logsCurrent, who, LogsLimit)
           ids == MatchingIds(logsCurrent, who)
<1>5. /\ rows' = leaf /\ logsNext' = NextCursor(leaf) /\ passed' = passed \cup ToSet(leaf)
      /\ IF logsCurrent = NoCursor THEN due' = ids ELSE due' = due
      /\ UNCHANGED <<searches, cursorStack, logsCurrent, who>>
  BY <1>1, <1>2, <1>4 DEF Mixes
<1>6. /\ leaf \in Seq(Nat) /\ ToSet(leaf) \subseteq ids
      /\ leaf = <<>> => ids = {}
      /\ leaf # <<>> =>
           /\ Last(leaf) \in ids
           /\ \A id \in ids : ~Older(Key(id), Key(Last(leaf))) => id \in ToSet(leaf)
  BY PageIs, AdminPanelAssumption
<1>7. \A id : id \in ids <=> /\ id \in DOMAIN searches /\ Matches(id, who)
                             /\ Older(KeyIn(searches, id), logsCurrent)
  BY DEF MatchingIds, Key, KeyIn
<1>8. \A id \in ids : Key(id) = KeyIn(searches, id)
  BY DEF Key, KeyIn
<1>9. NextCursor(leaf) # NoCursor => leaf # <<>> /\ NextCursor(leaf) = Key(Last(leaf))
  BY <1>6, <1>7, NextCursorIs
<1> HIDE DEF leaf, ids
<1>10. \A id \in due' : /\ id \in DOMAIN searches /\ Matches(id, who)
                        /\ Older(KeyIn(searches, id), logsCurrent) => id \in ids
  BY <1>3, <1>5, <1>7
<1>11. Covered(searches, due', passed', logsCurrent)
  BY <1>3, <1>5, <1>7 DEF Covered
<1>12. ASSUME NEW i \in 1..Len(cursorStack)
       PROVE  Covered(searches, due', passed', cursorStack[i])
  <2>1. CASE logsCurrent = NoCursor
    <3>1. logsCurrent \in Cursors /\ cursorStack[i] \in Cursors
      BY ElementOfSeq DEF LogsTyped
    <3>2. Older(logsCurrent, cursorStack[i])
      BY <1>3 DEF Leads
    <3>3. \A id \in due' : KeyIn(searches, id) \in Cursors
      BY <1>10, IdsOfLogs DEF Key, KeyIn
    <3>4. \A id \in due' : Older(KeyIn(searches, id), logsCurrent)
      BY <1>5, <1>7, <2>1
    <3>5. \A id \in due' : Older(KeyIn(searches, id), cursorStack[i])
      BY <3>1, <3>2, <3>3, <3>4, OlderIsAnOrder
    <3> QED
      BY <3>5 DEF Covered
  <2>2. CASE logsCurrent # NoCursor
    BY <1>3, <1>5, <2>2 DEF Covered
  <2> QED
    BY <2>1, <2>2
<1>13. leaf = <<>> => due' \subseteq passed'
  BY <1>6, <1>10, <1>11 DEF Covered
<1>14. ASSUME leaf # <<>>
       PROVE  /\ Covered(searches, due', passed', KeyIn(searches, Last(leaf)))
              /\ Older(KeyIn(searches, Last(leaf)), logsCurrent)
  <2>1. Last(leaf) \in ids
    BY <1>6, <1>14
  <2>2. ASSUME NEW id \in due', ~Older(KeyIn(searches, id), KeyIn(searches, Last(leaf)))
        PROVE  id \in passed'
    <3>1. CASE id \in ids
      BY <1>5, <1>6, <1>8, <1>14, <2>1, <2>2, <3>1
    <3>2. CASE id \notin ids
      BY <1>10, <1>11, <3>2 DEF Covered
    <3> QED
      BY <3>1, <3>2
  <2> QED
    BY <1>7, <2>1, <2>2 DEF Covered
<1>15. NextCursor(leaf) # NoCursor => /\ leaf # <<>>
                                      /\ NextCursor(leaf) = KeyIn(searches, Last(leaf))
  BY <1>6, <1>8, <1>9
<1>16. \A id \in due' : Matches(id, who)'
  BY <1>5, <1>10 DEF Matches
<1> QED
  BY <1>3, <1>4, <1>5, <1>10, <1>11, <1>12, <1>13, <1>14, <1>15, <1>16 DEF WalkInv

LEMMA WalkGoesOn ==
  ASSUME LogsTyped, SearchLogged, ~mixed => WalkInv, ~mixed'
  PROVE  WalkInv'
<1>1. UNCHANGED <<cursorStack, logsCurrent, logsNext, who, rows, asked, due, passed, mixed>>
  BY DEF SearchLogged
<1>2. WalkInv
  BY <1>1
<1>3. /\ DOMAIN searches \subseteq DOMAIN searches'
      /\ \A id \in DOMAIN searches : searches'[id] = searches[id]
  BY LogGrows
<1>4. \A id \in due : id \in DOMAIN searches /\ Matches(id, who)
  BY <1>2 DEF WalkInv
<1>5. \A id \in due : KeyIn(searches', id) = KeyIn(searches, id)
  BY <1>3, <1>4 DEF KeyIn
<1>6. \A cursor : Covered(searches, due, passed, cursor) => Covered(searches', due, passed, cursor)
  BY <1>5 DEF Covered
<1>7. \A id \in due : id \in DOMAIN searches' /\ Matches(id, who)'
  BY <1>1, <1>3, <1>4 DEF Matches
<1>8. rows # <<>> => KeyIn(searches', Last(rows)) = KeyIn(searches, Last(rows))
  <2>1. rows # <<>> => Last(rows) \in DOMAIN searches
    BY NextCursorIs DEF LogsTyped
  <2> QED
    BY <1>3, <2>1 DEF KeyIn
<1> QED
  BY <1>1, <1>2, <1>6, <1>7, <1>8 DEF WalkInv

LEMMA WalkStep ==
  ASSUME LogsTyped, ~mixed => WalkInv, [LogsNext \/ DashboardNext]_logVars, ~mixed'
  PROVE  WalkInv'
<1>1. CASE ResetAndLoad
  <2>1. PICK filter : ResetLogs(filter) /\ Asks(NoCursor, filter)
    BY <1>1 DEF ResetAndLoad
  <2>2. asked = {} /\ asked' = asked \cup {[from |-> NoCursor, who |-> filter]}
    BY <2>1 DEF ResetLogs, Asks
  <2> QED
    BY <2>1, <2>2, WalkBegins
<1>2. ASSUME NEW r \in asked, LogsLost(r) PROVE FALSE
  BY <1>2 DEF LogsLost, Mixes
<1>3. ASSUME NEW r \in asked, Unauthorized(r) PROVE FALSE
  BY <1>3 DEF Unauthorized, ResetLogs
<1>4. CASE StatsShown \/ ChartDrawn \/ UNCHANGED logVars
  <2>1. UNCHANGED <<searches, cursorStack, logsCurrent, logsNext, who, rows, asked, due, passed, mixed>>
    BY <1>4 DEF StatsShown, ChartDrawn, logVars
  <2> QED
    BY <2>1 DEF WalkInv, Matches
<1> QED
  BY <1>1, <1>2, <1>3, <1>4, WalkMoves, WalkLoads, WalkGoesOn DEF LogsNext, DashboardNext

-----------------------------------------------------------------------------
(* The dashboard.                                                              *)

LEMMA TodayCounted ==
  ASSUME NEW log \in Seq(LogRecords)
  PROVE  IsFiniteSet(TodaysSearches(log)) /\ Cardinality(TodaysSearches(log)) \in Nat
<1>1. DOMAIN log = 1..Len(log) /\ Len(log) \in Nat
  BY LenProperties
<1>2. IsFiniteSet(DOMAIN log) /\ TodaysSearches(log) \subseteq DOMAIN log
  BY <1>1, FirstNaturals DEF TodaysSearches
<1> QED
  BY <1>2, FS_Subset, FS_CardinalityType

\* All the logs are drawn when they fit, and today is one of the days of the chart.
LEMMA ChartDrawnIs ==
  ASSUME LogsTyped
  PROVE  LET drawn == InChart(ToSet(PageOf(NoCursor, NoFilter, ChartLimit)))
         IN  /\ drawn \in Nat
             /\ Len(searches) <= ChartLimit => drawn >= Cardinality(TodaysSearches(searches))
<1> DEFINE leaf == PageOf(NoCursor, NoFilter, ChartLimit)
           ids == MatchingIds(NoCursor, NoFilter)
           days == (Today - ChartDays + 1) .. Today
           shown == {id \in ToSet(leaf) : searches[id].ts \in days}
<1>1. /\ ToSet(leaf) \subseteq ids /\ (Cardinality(ids) <= ChartLimit => ToSet(leaf) = ids)
  BY PageIs, AdminPanelAssumption
<1>2. ids = DOMAIN searches
  <2>1. \A id \in DOMAIN searches : Older(Key(id), NoCursor)
    <3> SUFFICES ASSUME NEW id \in DOMAIN searches
                 PROVE  searches[id].ts < Today + 1 \/ (searches[id].ts = Today + 1 /\ id < 0)
      BY DEF Older, Key, NoCursor
    <3>1. searches[id].ts \in Int /\ searches[id].ts <= Today
      BY IdsOfLogs DEF LogsTyped, LogRecords
    <3> QED
      BY <3>1, AdminPanelAssumption
  <2> QED
    BY <2>1 DEF MatchingIds, Matches
<1>3. InChart(ToSet(leaf)) = Cardinality(shown)
  BY DEF InChart
<1>4. Today \in days
  BY AdminPanelAssumption
<1> HIDE DEF leaf, ids, days
<1>5. IsFiniteSet(shown) /\ Cardinality(shown) \in Nat
  BY <1>1, <1>2, IdsOfLogs, FS_Subset, FS_CardinalityType
<1>6. ASSUME Len(searches) <= ChartLimit
      PROVE  Cardinality(shown) >= Cardinality(TodaysSearches(searches))
  <2>1. ToSet(leaf) = DOMAIN searches
    BY <1>1, <1>2, <1>6, IdsOfLogs
  <2>2. TodaysSearches(searches) \subseteq shown
    BY <1>4, <2>1 DEF TodaysSearches
  <2>3. Cardinality(TodaysSearches(searches)) <= Cardinality(shown)
    BY <1>5, <2>2, FS_Subset
  <2> QED
    BY <1>5, <2>3, TodayCounted DEF LogsTyped
<1> QED
  BY <1>3, <1>5, <1>6 DEF leaf

LEMMA DashStep ==
  ASSUME LogsTyped, DashInv, [LogsNext \/ DashboardNext]_logVars
  PROVE  DashInv'
<1>1. /\ dash \in [today : Nat, chart : Nat, drawn : BOOLEAN]
      /\ dash.today <= Cardinality(TodaysSearches(searches))
      /\ dash.drawn /\ Len(searches) <= ChartLimit => dash.chart >= dash.today
  BY DEF DashInv, ChartHasToday
<1>2. Len(searches) \in Nat /\ Cardinality(TodaysSearches(searches)) \in Nat
  BY IdsOfLogs, TodayCounted DEF LogsTyped
<1>3. CASE SearchLogged
  <2>1. /\ DOMAIN searches \subseteq DOMAIN searches'
        /\ \A id \in DOMAIN searches : searches'[id] = searches[id]
        /\ Len(searches') = Len(searches) + 1 /\ dash' = dash
    BY <1>3, LogGrows DEF SearchLogged
  <2>2. LogsTyped'
    BY <1>3, LogsTypedStep DEF LogsNext
  <2>3. IsFiniteSet(TodaysSearches(searches')) /\ Cardinality(TodaysSearches(searches')) \in Nat
    BY <2>2, TodayCounted DEF LogsTyped
  <2>4. TodaysSearches(searches) \subseteq TodaysSearches(searches')
    BY <2>1 DEF TodaysSearches
  <2>5. Cardinality(TodaysSearches(searches)) <= Cardinality(TodaysSearches(searches'))
    BY <2>3, <2>4, FS_Subset
  <2>6. dash'.today <= Cardinality(TodaysSearches(searches'))
    BY <1>1, <1>2, <2>1, <2>3, <2>5
  <2>7. dash'.drawn /\ Len(searches') <= ChartLimit => dash'.chart >= dash'.today
    BY <1>1, <1>2, <2>1, AdminPanelAssumption
  <2> QED
    BY <1>1, <2>1, <2>6, <2>7 DEF DashInv, ChartHasToday
<1>4. CASE StatsShown
  <2>1. /\ dash' = [dash EXCEPT !.today = Cardinality(TodaysSearches(searches)), !.drawn = FALSE]
        /\ searches' = searches
    BY <1>4 DEF StatsShown, TodaysSearches
  <2>2. /\ dash' \in [today : Nat, chart : Nat, drawn : BOOLEAN] /\ dash'.drawn = FALSE
        /\ dash'.today = Cardinality(TodaysSearches(searches))
    BY <1>1, <1>2, <2>1
  <2> QED
    BY <1>2, <2>1, <2>2 DEF DashInv, ChartHasToday
<1>5. CASE ChartDrawn
  <2> DEFINE drawn == InChart(ToSet(PageOf(NoCursor, NoFilter, ChartLimit)))
  <2>1. dash' = [dash EXCEPT !.chart = drawn, !.drawn = TRUE] /\ searches' = searches
    BY <1>5 DEF ChartDrawn
  <2>2. /\ drawn \in Nat
        /\ Len(searches) <= ChartLimit => drawn >= Cardinality(TodaysSearches(searches))
    BY ChartDrawnIs
  <2> HIDE DEF drawn
  <2>3. /\ dash' \in [today : Nat, chart : Nat, drawn : BOOLEAN]
        /\ dash'.today = dash.today /\ dash'.chart = drawn
    BY <1>1, <2>1, <2>2
  <2>4. Len(searches) <= ChartLimit => drawn >= dash.today
    BY <1>1, <1>2, <2>2
  <2> QED
    BY <1>1, <2>1, <2>3, <2>4 DEF DashInv, ChartHasToday
<1>6. CASE dash' = NoDash /\ searches' = searches
  <2>1. dash' = [today |-> 0, chart |-> 0, drawn |-> FALSE]
    BY <1>6 DEF NoDash
  <2> QED
    BY <1>2, <1>6, <2>1 DEF DashInv, ChartHasToday
<1>7. CASE dash' = dash /\ searches' = searches
  BY <1>1, <1>7 DEF DashInv, ChartHasToday
<1>8. ASSUME LogsNext, ~SearchLogged
      PROVE  searches' = searches /\ (dash' = dash \/ dash' = NoDash)
  <2>1. CASE ResetAndLoad
    BY <2>1 DEF ResetAndLoad
  <2>2. ASSUME NEW dir \in {-1, 0, 1}, LogsPage(dir)
        PROVE  searches' = searches /\ dash' = dash
    BY <2>2 DEF LogsPage
  <2>3. ASSUME NEW r \in asked, LogsLoaded(r) PROVE searches' = searches /\ dash' = dash
    BY <2>3 DEF LogsLoaded
  <2>4. ASSUME NEW r \in asked, LogsLost(r) \/ Unauthorized(r)
        PROVE  searches' = searches /\ (dash' = dash \/ dash' = NoDash)
    BY <2>4 DEF LogsLost, Unauthorized
  <2> QED
    BY <1>8, <2>1, <2>2, <2>3, <2>4 DEF LogsNext
<1>9. CASE UNCHANGED logVars
  BY <1>7, <1>9 DEF logVars
<1> QED
  BY <1>3, <1>4, <1>5, <1>6, <1>7, <1>8, <1>9 DEF DashboardNext

-----------------------------------------------------------------------------
LEMMA PanelInvariance == PanelSpec => [](LogsInv /\ UsersInv)
<1>1. PanelInit => LogsInv /\ UsersInv
  BY LogsInitially, UsersInitially
<1>2. LogsInv /\ UsersInv /\ [PanelNext]_<<logVars, accountVars>> => (LogsInv /\ UsersInv)'
  <2> SUFFICES ASSUME LogsInv, UsersInv, [PanelNext]_<<logVars, accountVars>>
               PROVE  LogsInv' /\ UsersInv'
    OBVIOUS
  <2>1. [LogsNext \/ DashboardNext]_logVars /\ [UsersNext]_accountVars
    BY DEF PanelNext
  <2>2. LogsTyped' /\ (~mixed' => WalkInv') /\ DashInv'
    BY <2>1, LogsTypedStep, WalkStep, DashStep DEF LogsInv
  <2>3. UsersInv'
    BY <2>1, UsersStep
  <2> QED
    BY <2>2, <2>3 DEF LogsInv
<1> QED
  BY <1>1, <1>2, PTL DEF PanelSpec

LEMMA LogsAreNotSkipped == LogsInv => NoLogIsSkipped /\ PreviousLeadsBack /\ ChartHasToday
<1> SUFFICES ASSUME LogsInv PROVE NoLogIsSkipped /\ PreviousLeadsBack /\ ChartHasToday
  OBVIOUS
<1>1. LogsTyped /\ (~mixed => WalkInv) /\ ChartHasToday
  BY DEF LogsInv, DashInv
<1>2. NoLogIsSkipped
  <2> SUFFICES ASSUME asked = {}, ~mixed, NEW id \in due,
                      rows = <<>> \/ ~Older(Key(id), Key(Last(rows)))
               PROVE  id \in passed
    BY DEF NoLogIsSkipped
  <2>1. /\ rows = <<>> => due \subseteq passed
        /\ rows # <<>> => Covered(searches, due, passed, KeyIn(searches, Last(rows)))
    BY <1>1 DEF WalkInv
  <2> QED
    BY <2>1 DEF Covered, Key, KeyIn
<1>3. PreviousLeadsBack
  <2>1. ~mixed => Leads(cursorStack, logsCurrent)
    BY <1>1 DEF WalkInv
  <2> QED
    BY <1>1, <2>1, PreviousFollows DEF PreviousLeadsBack
<1> QED
  BY <1>1, <1>2, <1>3

\* The admin misses no log, no search of today and no change of a user, however many
\* logs there are and share a time, whatever is logged and changed meanwhile, and in
\* whatever order the answers come (loadLogs, loadDashboard and loadUsers of admin.js
\* before routes/admin.py).
THEOREM AdminIsUpToDate == PanelSpec => []AdminMissesNothing
<1>1. LogsInv /\ UsersInv => AdminMissesNothing
  BY LogsAreNotSkipped, OwnChangesFollow DEF AdminMissesNothing
<1> QED
  BY <1>1, PanelInvariance, PTL

-----------------------------------------------------------------------------
(***************************************************************************)
(* The composition.  In every scene each component starts where its own    *)
(* specification starts, and takes one of its own steps or rests, so that  *)
(* each theorem above, and those of the sessions, holds of all of them     *)
(* together.                                                               *)
(***************************************************************************)
consoleVars == <<scene, caseVars, drawerVars, sessionVars, logVars, accountVars,
                 formVars, scanVars, listVars, runnerVars, budgetVars>>

LEMMA ComponentsStart ==
  ConsoleInit => /\ CaseBookInit /\ ListsInit /\ DrawerInit /\ SessionsInit
                 /\ PanelInit /\ FormInit /\ RunnerInit /\ BudgetInit
BY DEF ConsoleInit

LEMMA SessionScenesAreSteps == SessionScenes => SessionsNext
<1> SUFFICES ASSUME SessionScenes PROVE SessionsNext
  OBVIOUS
<1>1. OneBrowser \in Browsers
  BY OneBrowserAssumption
<1>2. ASSUME NEW b \in Browsers, NEW user \in {"admin", "user"}, NEW names \in SUBSET Names,
             AdminRequests(b, {"deactivate", user}, names)
      PROVE  SessionsNext
  <2>1. AdminRequests(b, {"admin", "user", "deactivate"}, Names)
    BY <1>2 DEF AdminRequests
  <2> QED
    BY <2>1 DEF SessionsNext
<1>3. CASE \/ ServerNext \/ PageNext(OneBrowser) \/ SessionRequests(OneBrowser)
           \/ TimeNext \/ AnswersNext
  BY <1>1, <1>3 DEF SessionsNext
<1>4. CASE AdminRequests(OneBrowser, {"deactivate", "user"}, Others)
  BY <1>1, <1>2, <1>4 DEF Names
<1>5. CASE Start \/ \E b \in Browsers : SignOut(b) \/ SessionRequests(b)
  BY <1>5 DEF SessionsNext, ServerNext, PageNext
<1>6. CASE \E b \in Browsers : AdminRequests(b, {"deactivate", "admin"}, Names)
  BY <1>2, <1>6
<1> QED
  BY <1>3, <1>4, <1>5, <1>6 DEF SessionScenes

LEMMA ComponentsStep ==
  [ConsoleNext]_consoleVars =>
    /\ [CasesNext]_caseVars /\ [ListsNext]_listVars /\ [DrawerNext]_drawerVars
    /\ [SessionsNext]_sessionVars /\ [PanelNext]_<<logVars, accountVars>>
    /\ [FormNext \/ ScanNext]_<<formVars, scanVars>>
    /\ [RunnerNext]_runnerVars /\ [BudgetNext]_budgetVars
<1>1. ASSUME ConsoleNext
      PROVE  /\ [CasesNext]_caseVars /\ [ListsNext]_listVars /\ [DrawerNext]_drawerVars
             /\ [SessionsNext]_sessionVars /\ [PanelNext]_<<logVars, accountVars>>
             /\ [FormNext \/ ScanNext]_<<formVars, scanVars>>
             /\ [RunnerNext]_runnerVars /\ [BudgetNext]_budgetVars
  <2>1. [CasesNext]_caseVars /\ [ListsNext]_listVars /\ [DrawerNext]_drawerVars
    BY <1>1 DEF ConsoleNext
  <2>2. [SessionsNext]_sessionVars
    BY <1>1, SessionScenesAreSteps DEF ConsoleNext
  <2>3. [PanelNext]_<<logVars, accountVars>>
    BY <1>1 DEF ConsoleNext, PanelNext
  <2>4. [FormNext \/ ScanNext]_<<formVars, scanVars>>
    BY <1>1 DEF ConsoleNext
  <2>5. [RunnerNext]_runnerVars /\ [BudgetNext]_budgetVars
    BY <1>1 DEF ConsoleNext
  <2> QED
    BY <2>1, <2>2, <2>3, <2>4, <2>5
<1>2. CASE UNCHANGED consoleVars
  BY <1>2 DEF consoleVars
<1> QED
  BY <1>1, <1>2

\* What the run checks of the composition on a few tabs, browsers, users and calls
\* holds for any number of them: sessions and users (auth_service.py), the admin
\* page (admin.js), the cases and their lists (cases.js), the drawer
\* (evidence-drawer.js), the form and the scan box (panels.js, search.js), the
\* runner (runner.py) and the budget of the proxy (budget.py).
THEOREM ConsoleKeepsItsPromises ==
  ConsoleSpec =>
    /\ [](SessionsLastUntilEnded /\ UsersAreKept)
    /\ [](AdminMissesNothing /\ FormFollowsTheSearch)
    /\ [](ConcurrentCallsAreSound /\ BudgetIsTheDays)
    /\ CasesAreSafe /\ ListsFollowTheBook /\ DrawerReturns
<1>1. ConsoleSpec => /\ CasesSpec /\ ListsSpec /\ DrawerSpec /\ SessionsSpec
                     /\ PanelSpec /\ FormSpec /\ RunnerSpec /\ BudgetSpec
  BY ComponentsStart, ComponentsStep, PTL
     DEF ConsoleSpec, consoleVars, CasesSpec, ListsSpec, DrawerSpec, SessionsSpec,
         PanelSpec, FormSpec, RunnerSpec, BudgetSpec
<1> QED
  BY <1>1, SessionsEndOnce, UsersOutliveCrashes, AdminIsUpToDate, FormInvariance,
     CallsAreSound, BudgetInvariance, CasesOutliveTheTabs, ListsAreInOrder,
     DrawerIsSound, PTL

=============================================================================
