--------------------------- MODULE ConnectorRunner ---------------------------
(* run_connector of modules/connectors/runner.py with its rate limiter and    *)
(* its cache: several jobs ask the same source at once.  A request is one     *)
(* call of run_connector.  Its target is a type and a hash, since a username  *)
(* and a phone number may hash alike.                                         *)
(*                                                                            *)
(* Time is counted in ticks.  A task that is due acts before time passes: the *)
(* event loop is prompt compared with seconds.  Reading or writing the cache  *)
(* takes any time.  Sanitizing a result does not change its status.           *)
EXTENDS Integers, Sequences

CONSTANTS
  Requests,     \* calls of run_connector, numbered as they begin
  Sources,      \* names of connectors
  Targets,      \* <<type, hash>>
  MinInterval,  \* 1 / rate_limit_cps
  Timeout,      \* default_timeout_s of the connector
  CacheTTL,     \* cache_ttl_s
  MaxClock      \* bound on time

ASSUME RunnerAssumption ==
  Requests \subseteq Nat /\ {MinInterval, Timeout, CacheTTL, MaxClock} \subseteq Nat \ {0}

VARIABLES
  clock,
  request,      \* a call: where it is, what it asks and what it knows there
  turns,        \* per source, the callers of the limiter: the first has the semaphore
  lastCall,     \* _last_call of the limiter, per source
  connCache     \* what the cache holds, per key

runnerVars == <<clock, request, turns, lastCall, connCache>>

_CACHEABLE_STATUSES == {"found", "likely", "not_found", "uncertain"}

\* A status the connector gives or its exception stands for, one of each kind.
Outcomes == {"found", "error"}

Never == -MinInterval
NoEntry == [status |-> "none", until |-> 0]

\* The endpoint names the connector, the query the type and the hash.
CacheKey(ask) == <<ask.source, ask.target>>
KeyOf(r) == CacheKey(request[r].ask)
Source(r) == request[r].ask.source

RunnerInit ==
  /\ clock = 0
  /\ request = [r \in Requests |-> [at |-> "idle"]]
  /\ turns = [s \in Sources |-> <<>>]
  /\ lastCall = [s \in Sources |-> Never]
  /\ connCache = [k \in Sources \X Targets |-> NoEntry]

Becomes(r, state) == request' = [request EXCEPT ![r] = state]

Finish(r, called, status, hit) ==
  Becomes(r, [at |-> "done", ask |-> request[r].ask, called |-> called, status |-> status,
              hit |-> hit, ended |-> clock])

-----------------------------------------------------------------------------
\* A call begins with a look into the cache, ...
CallRunner(r, s, t) ==
  /\ request[r].at = "idle"
  /\ \A q \in Requests : q < r => request[q].at # "idle"
  /\ Becomes(r, [at |-> "lookup", ask |-> [source |-> s, target |-> t]])
  /\ UNCHANGED <<clock, turns, lastCall, connCache>>

TooOld(entry) == entry.until <= clock

CacheHit(r) ==
  /\ request[r].at = "lookup"
  /\ ~TooOld(connCache[KeyOf(r)])
  /\ Finish(r, Never, connCache[KeyOf(r)].status, TRUE)
  /\ UNCHANGED <<clock, turns, lastCall, connCache>>

\* ... which finds nothing when there is nothing, when the cache fails and when
\* the value is not accepted.
CacheMiss(r) ==
  /\ request[r].at = "lookup"
  /\ Becomes(r, [at |-> "limiter", ask |-> request[r].ask, queued |-> clock,
                 ahead |-> Len(turns[Source(r)])])
  /\ turns' = [turns EXCEPT ![Source(r)] = Append(@, r)]
  /\ UNCHANGED <<clock, lastCall, connCache>>

\* OutboundRateLimiter.acquire: with the semaphore a caller sleeps for what is
\* left of the interval since the last call, ...
NoSemaphore(r) == TRUE                                                  \* variant
HasSemaphore(r) == Head(turns[Source(r)]) = r

Acquire(r) ==
  /\ request[r].at = "limiter"
  /\ HasSemaphore(r)
  /\ Becomes(r, [at |-> "sleeping", ask |-> request[r].ask, queued |-> request[r].queued,
                 ahead |-> request[r].ahead, wake |-> lastCall[Source(r)] + MinInterval])
  /\ UNCHANGED <<clock, turns, lastCall, connCache>>

\* ... then notes its own and gives the semaphore back; the connector starts.
Depart(r) ==
  /\ request[r].at = "sleeping"
  /\ clock >= request[r].wake
  /\ Becomes(r, [at |-> "running", ask |-> request[r].ask, called |-> clock])
  /\ lastCall' = [lastCall EXCEPT ![Source(r)] = clock]
  /\ turns' = [turns EXCEPT ![Source(r)] = Tail(@)]
  /\ UNCHANGED <<clock, connCache>>

\* Only a verdict is worth caching.
ConnectorAnswers(r, outcome) ==
  /\ request[r].at = "running"
  /\ IF outcome \in _CACHEABLE_STATUSES
     THEN Becomes(r, [at |-> "storing", ask |-> request[r].ask, called |-> request[r].called,
                      status |-> outcome])
     ELSE Finish(r, request[r].called, outcome, FALSE)
  /\ UNCHANGED <<clock, turns, lastCall, connCache>>

TimeOut(r) ==
  /\ request[r].at = "running"
  /\ clock = request[r].called + Timeout
  /\ Finish(r, request[r].called, "error", FALSE)
  /\ UNCHANGED <<clock, turns, lastCall, connCache>>

\* The answer is given whether or not the cache took it.
StoreResult(r) ==
  /\ request[r].at = "storing"
  /\ Finish(r, request[r].called, request[r].status, FALSE)
  /\ \/ connCache' = [connCache EXCEPT ![KeyOf(r)] =
                        [status |-> request[r].status, until |-> clock + CacheTTL]]
     \/ UNCHANGED connCache
  /\ UNCHANGED <<clock, turns, lastCall>>

Due(r) ==
  \/ request[r].at = "limiter" /\ HasSemaphore(r)
  \/ request[r].at = "sleeping" /\ clock >= request[r].wake
  \/ request[r].at = "running" /\ clock = request[r].called + Timeout

ClockTick ==
  /\ clock < MaxClock
  /\ \A r \in Requests : ~Due(r)
  /\ clock' = clock + 1
  /\ UNCHANGED <<request, turns, lastCall, connCache>>

RunnerStep(r) ==
  \/ \E s \in Sources, t \in Targets : CallRunner(r, s, t)
  \/ CacheHit(r) \/ CacheMiss(r) \/ Acquire(r) \/ Depart(r)
  \/ \E outcome \in Outcomes : ConnectorAnswers(r, outcome)
  \/ TimeOut(r) \/ StoreResult(r)

RunnerNext == ClockTick \/ \E r \in Requests : RunnerStep(r)

RunnerSpec == RunnerInit /\ [][RunnerNext]_runnerVars

-----------------------------------------------------------------------------
HasCalled(r) ==
  request[r].at \in {"running", "storing", "done"} /\ request[r].called # Never

\* "1 semaphore + min-interval per domain" (OutboundRateLimiter): however the
\* jobs interleave, two calls of one source start at least the interval apart.
CallsKeepTheirDistance ==
  \A p, q \in Requests :
    (p # q /\ HasCalled(p) /\ HasCalled(q) /\ Source(p) = Source(q))
      => \/ request[p].called >= request[q].called + MinInterval
         \/ request[q].called >= request[p].called + MinInterval

\* An answer marked cache_hit is a verdict that another call got from the same
\* source for the same target, of the same type, less than the TTL ago: no
\* failure is repeated from the cache and two jobs that miss together leave
\* nothing behind that is neither's answer.
HitsAreFreshVerdicts ==
  \A r \in Requests :
    (request[r].at = "done" /\ request[r].hit) =>
      \E q \in Requests :
        /\ request[q].at = "done" /\ ~request[q].hit
        /\ request[q].ask = request[r].ask
        /\ request[q].status = request[r].status /\ request[q].status # "error"
        /\ request[r].ended < request[q].ended + CacheTTL

\* The limiter delays no caller by more than an interval for itself and one for
\* each caller before it: how long the connector then takes, or whether it times
\* out, delays nobody.
TurnsComeInTime ==
  \A r \in Requests :
    request[r].at \in {"limiter", "sleeping"}
      => clock - request[r].queued <= (request[r].ahead + 1) * MinInterval

\* However jobs interleave, the limiter spaces their calls without holding them up
\* and the cache hands over nothing but fresh verdicts.
ConcurrentCallsAreSound == CallsKeepTheirDistance /\ TurnsComeInTime /\ HitsAreFreshVerdicts

=============================================================================
