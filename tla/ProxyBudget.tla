----------------------------- MODULE ProxyBudget -----------------------------
(* The daily budget of the residential proxy: api/budget.py with the searches *)
(* that consult it before (search_service.py) and charge it after the network *)
(* work (username_check/runner.py).  The adapter of the v2 jobs charges it    *)
(* without asking.  The counters live in memory; a restart is not modelled.   *)
EXTENDS Integers, FiniteSets, FiniteSetsExt

CONSTANTS
  Checks,       \* username checks
  DailyBudget,  \* THORDATA_DAILY_BUDGET_BYTES
  MaxBytes,     \* bound on what one check reads
  MaxDay        \* bound on the days

ASSUME BudgetAssumption ==
  /\ IsFiniteSet(Checks)
  /\ {DailyBudget, MaxBytes, MaxDay} \subseteq Nat \ {0}

VARIABLES
  utcDay,        \* the date of the clock
  _current_day,
  _bytes_today,
  check          \* a username check: where it is, what it charged and on which day

budgetVars == <<utcDay, _current_day, _bytes_today, check>>

BudgetInit ==
  /\ utcDay = 0 /\ _current_day = 0 /\ _bytes_today = 0
  /\ check = [c \in Checks |-> [at |-> "idle"]]

NoReset == _bytes_today                                                 \* variant

\* Every operation on the counters first sees whether the day is over.
_maybe_reset == IF utcDay # _current_day THEN 0 ELSE _bytes_today

\* A legacy search asks first and is told budget_exceeded; one of a v2 job does not.
BeginCheck(c, asks) ==
  /\ check[c].at = "idle"
  /\ LET refused == asks /\ _maybe_reset >= DailyBudget IN
     check' = [check EXCEPT ![c] = IF refused THEN [at |-> "refused", day |-> utcDay]
                                             ELSE [at |-> "running"]]
  /\ IF asks THEN _bytes_today' = _maybe_reset /\ _current_day' = utcDay
             ELSE UNCHANGED <<_bytes_today, _current_day>>
  /\ UNCHANGED utcDay

\* record_usage, on the day the check ends.
EndCheck(c, bytes) ==
  /\ check[c].at = "running"
  /\ check' = [check EXCEPT ![c] = [at |-> "charged", day |-> utcDay, bytes |-> bytes]]
  /\ _bytes_today' = _maybe_reset + bytes
  /\ _current_day' = utcDay
  /\ UNCHANGED utcDay

\* A check that is given up (timeout, cancellation) charges nothing.
GiveUp(c) ==
  /\ check[c].at = "running"
  /\ check' = [check EXCEPT ![c] = [at |-> "given up"]]
  /\ UNCHANGED <<utcDay, _current_day, _bytes_today>>

Midnight ==
  /\ utcDay < MaxDay
  /\ utcDay' = utcDay + 1
  /\ UNCHANGED <<_current_day, _bytes_today, check>>

BudgetNext ==
  \/ Midnight
  \/ \E c \in Checks :
       \/ \E asks \in BOOLEAN : BeginCheck(c, asks)
       \/ \E bytes \in 0..MaxBytes : EndCheck(c, bytes)
       \/ GiveUp(c)

BudgetSpec == BudgetInit /\ [][BudgetNext]_budgetVars

-----------------------------------------------------------------------------
Charged(day) ==
  LET charges == {c \in Checks : check[c].at = "charged" /\ check[c].day = day}
  IN  MapThenSumSet(LAMBDA c : check[c].bytes, charges)

\* The lazy reset loses no charge and keeps none of the day before, also when the
\* first operation of a day is the end of a check that began the day before.
CounterIsTheDays == _bytes_today = Charged(_current_day)

\* "Resets at UTC midnight": a search is refused only on a day whose own charges
\* have used the budget up, whatever was spent before and however late the
\* first search of the day comes.
RefusedOnlyOnASpentDay ==
  \A c \in Checks : check[c].at = "refused" => Charged(check[c].day) >= DailyBudget

\* The budget is that of the day, over any number of midnights.
BudgetIsTheDays == CounterIsTheDays /\ RefusedOnlyOnASpentDay

=============================================================================
