------------------------ MODULE SearchAdmissionProofs ------------------------
(***************************************************************************)
(* Theorems about TaskOrchestrator and SearchAdmission, for any finite set *)
(* of modules or searches and any number of slots: the semaphores and the  *)
(* tasks of one orchestrator; its invariant survives the watchdog, and the *)
(* soft gate holds.                                                        *)
(***************************************************************************)
EXTENDS SearchAdmission, FiniteSetTheorems, SequenceTheorems, TLAPS

-----------------------------------------------------------------------------
(***************************************************************************)
(* Semaphores.                                                             *)
(***************************************************************************)

\* A task that arrives goes behind the others and moves nobody out of a slot.
LEMMA Arrival ==
  ASSUME NEW S, NEW s \in Seq(S), IsInjective(s), NEW m \in S, m \notin ToSet(s),
         NEW slots \in Nat
  PROVE  /\ Append(s, m) \in Seq(S)
         /\ IsInjective(Append(s, m))
         /\ ToSet(Append(s, m)) = ToSet(s) \union {m}
         /\ Holders(s, slots) \subseteq Holders(Append(s, m), slots)
         /\ Len(s) < slots => m \in Holders(Append(s, m), slots)
<1> DEFINE t == Append(s, m)
<1>1. /\ t \in Seq(S) /\ Len(t) = Len(s) + 1
      /\ \A i \in 1..Len(s) : t[i] = s[i]
      /\ t[Len(s) + 1] = m
      /\ DOMAIN s = 1..Len(s) /\ DOMAIN t = 1..Len(s) + 1
      /\ Len(s) \in Nat
  OBVIOUS
<1> HIDE DEF t
<1>2. IsInjective(t)
  BY <1>1 DEF IsInjective, ToSet
<1>3. ToSet(t) = ToSet(s) \union {m}
  BY <1>1 DEF ToSet
<1>4. Holders(s, slots) \subseteq Holders(t, slots)
  BY <1>1 DEF Holders
<1>5. Len(s) < slots => m \in Holders(t, slots)
  BY <1>1 DEF Holders
<1> QED
  BY <1>1, <1>2, <1>3, <1>4, <1>5 DEF t

\* The sequence without one of its positions.
LEMMA RemoveAtElements ==
  ASSUME NEW S, NEW s \in Seq(S), NEW k \in 1..Len(s)
  PROVE  /\ RemoveAt(s, k) \in Seq(S)
         /\ Len(RemoveAt(s, k)) = Len(s) - 1
         /\ \A i \in 1..Len(s) - 1 :
              RemoveAt(s, k)[i] = IF i < k THEN s[i] ELSE s[i + 1]
<1> DEFINE a == SubSeq(s, 1, k - 1)
           b == SubSeq(s, k + 1, Len(s))
<1>1. /\ a \in Seq(S) /\ Len(a) = k - 1
      /\ \A i \in 1..k - 1 : a[i] = s[i]
  BY SubSeqProperties
<1>2. /\ b \in Seq(S) /\ Len(b) = Len(s) - k
      /\ \A i \in 1..Len(s) - k : b[i] = s[k + i]
  BY SubSeqProperties
<1> HIDE DEF a, b
<1>3. /\ a \o b \in Seq(S) /\ Len(a \o b) = Len(a) + Len(b)
      /\ \A i \in 1..Len(a) + Len(b) :
           (a \o b)[i] = IF i <= Len(a) THEN a[i] ELSE b[i - Len(a)]
  BY <1>1, <1>2, ConcatProperties
<1>4. \A i \in 1..Len(s) - 1 : (a \o b)[i] = IF i < k THEN s[i] ELSE s[i + 1]
  BY <1>1, <1>2, <1>3
<1>5. RemoveAt(s, k) = a \o b
  BY DEF RemoveAt, a, b
<1>6. a \o b \in Seq(S) /\ Len(a \o b) = Len(s) - 1
  BY <1>1, <1>2, <1>3
<1> QED
  BY <1>4, <1>5, <1>6

\* A task that leaves takes nothing but itself, and nobody loses a slot by it.
LEMMA Departure ==
  ASSUME NEW S, NEW s \in Seq(S), IsInjective(s), NEW m, NEW slots \in Nat
  PROVE  /\ Released(s, m) \in Seq(S)
         /\ IsInjective(Released(s, m))
         /\ ToSet(Released(s, m)) = ToSet(s) \ {m}
         /\ Holders(s, slots) \ {m} \subseteq Holders(Released(s, m), slots)
<1>1. CASE m \notin ToSet(s)
  <2>1. Released(s, m) = s
    BY <1>1 DEF Released
  <2>2. ToSet(s) \ {m} = ToSet(s)
    BY <1>1
  <2> QED
    BY <2>1, <2>2
<1>2. CASE m \in ToSet(s)
  <2> DEFINE k == CHOOSE i \in DOMAIN s : s[i] = m
             t == RemoveAt(s, k)
  <2>1. k \in 1..Len(s) /\ s[k] = m
    BY <1>2 DEF ToSet
  <2>2. Released(s, m) = t
    BY <1>2 DEF Released
  <2> HIDE DEF k
  <2>3. /\ t \in Seq(S) /\ Len(t) = Len(s) - 1
        /\ \A i \in 1..Len(s) - 1 : t[i] = IF i < k THEN s[i] ELSE s[i + 1]
    BY <2>1, RemoveAtElements
  <2> HIDE DEF t
  <2>4. Len(s) \in Nat /\ DOMAIN s = 1..Len(s) /\ DOMAIN t = 1..Len(s) - 1
    BY <2>3
  <2>5. \A i, l \in 1..Len(s) : s[i] = s[l] => i = l
    BY <2>4 DEF IsInjective
  <2>6. \A i \in 1..Len(s) - 1 : t[i] \in ToSet(s) \ {m}
    BY <2>1, <2>3, <2>4, <2>5 DEF ToSet
  <2>7. \A i \in 1..Len(s) : i # k =>
          \E l \in 1..Len(s) - 1 : l <= i /\ t[l] = s[i]
    <3> TAKE i \in 1..Len(s)
    <3> HAVE i # k
    <3>1. CASE i < k
      BY <3>1, <2>1, <2>3, <2>4
    <3>2. CASE i > k
      <4>1. i - 1 \in 1..Len(s) - 1 /\ t[i - 1] = s[i]
        BY <3>2, <2>1, <2>3, <2>4
      <4> QED
        BY <4>1, <2>4
    <3> QED
      BY <3>1, <3>2, <2>1, <2>4
  <2>8. ToSet(t) = ToSet(s) \ {m}
    <3>1. ToSet(t) \subseteq ToSet(s) \ {m}
      BY <2>4, <2>6 DEF ToSet
    <3>2. ASSUME NEW i \in 1..Len(s), s[i] # m
          PROVE  s[i] \in ToSet(t)
      BY <3>2, <2>1, <2>4, <2>7 DEF ToSet
    <3>3. ToSet(s) \ {m} \subseteq ToSet(t)
      BY <3>2, <2>4 DEF ToSet
    <3> QED
      BY <3>1, <3>3
  <2>9. IsInjective(t)
    BY <2>1, <2>3, <2>4, <2>5 DEF IsInjective
  <2>10. Holders(s, slots) \ {m} \subseteq Holders(t, slots)
    <3> SUFFICES ASSUME NEW i \in DOMAIN s \cap 1..slots, s[i] # m
                 PROVE  s[i] \in Holders(t, slots)
      BY DEF Holders
    <3>1. PICK l \in 1..Len(s) - 1 : l <= i /\ t[l] = s[i]
      BY <2>1, <2>4, <2>7
    <3>2. l \in DOMAIN t \cap 1..slots
      BY <3>1, <2>4
    <3> QED
      BY <3>1, <3>2 DEF Holders
  <2> QED
    BY <2>2, <2>3, <2>8, <2>9, <2>10
<1> QED
  BY <1>1, <1>2

\* When the waiters leave, the holders stay.
LEMMA WaitersLeave ==
  ASSUME NEW S, NEW s \in Seq(S), IsInjective(s), NEW slots \in Nat
  PROVE  /\ WithoutWaiters(s, slots) \in Seq(S)
         /\ IsInjective(WithoutWaiters(s, slots))
         /\ ToSet(WithoutWaiters(s, slots)) \subseteq ToSet(s)
         /\ Holders(s, slots) \subseteq Holders(WithoutWaiters(s, slots), slots)
<1> DEFINE n == IF Len(s) < slots THEN Len(s) ELSE slots
           t == SubSeq(s, 1, n)
<1>1. Len(s) \in Nat /\ n \in 0..Len(s) /\ n <= slots /\ DOMAIN s = 1..Len(s)
  OBVIOUS
<1>2. \A i \in DOMAIN s \cap 1..slots : i \in 1..n
  BY <1>1
<1> HIDE DEF n
<1>3. t \in Seq(S) /\ Len(t) = n /\ \A i \in 1..n : t[i] = s[i]
  BY <1>1, SubSeqProperties
<1> HIDE DEF t
<1>4. DOMAIN t = 1..n
  BY <1>1, <1>3
<1>5. IsInjective(t) /\ ToSet(t) \subseteq ToSet(s)
  BY <1>1, <1>3, <1>4 DEF IsInjective, ToSet
<1>6. Holders(s, slots) \subseteq Holders(t, slots)
  BY <1>1, <1>2, <1>3, <1>4 DEF Holders
<1> QED
  BY <1>3, <1>5, <1>6 DEF WithoutWaiters, n, t

\* A semaphore has no more holders than slots.
LEMMA HoldersAreFew ==
  ASSUME NEW S, NEW s \in Seq(S), NEW slots \in Nat
  PROVE  IsFiniteSet(Holders(s, slots)) /\ Cardinality(Holders(s, slots)) <= slots
<1> DEFINE D == DOMAIN s \cap 1..slots
           H == Holders(s, slots)
           f == [i \in D |-> s[i]]
<1>1. IsFiniteSet(1..slots) /\ Cardinality(1..slots) = slots
  BY FS_Interval
<1>2. D \in SUBSET (1..slots)
  OBVIOUS
<1>3. IsFiniteSet(D) /\ Cardinality(D) <= slots /\ Cardinality(D) \in Nat
  <2> HIDE DEF D
  <2> QED
    BY <1>1, <1>2, FS_Subset, FS_CardinalityType
<1>4. f \in Surjection(D, H)
  BY DEF Surjection, Holders
<1>5. IsFiniteSet(H) /\ Cardinality(H) <= Cardinality(D)
  <2> HIDE DEF D, H, f
  <2> QED
    BY <1>3, <1>4, FS_Surjection
<1>6. Cardinality(H) \in Nat
  BY <1>5, FS_CardinalityType
<1> QED
  BY <1>3, <1>5, <1>6

-----------------------------------------------------------------------------
(***************************************************************************)
(* The invariant, one lemma per kind of step.                              *)
(***************************************************************************)
LEMMA Limits == MaxConcurrent \in Nat /\ MaxOathnet \in Nat
BY LimitsAssumption

\* A task of the semaphores is alive.
LEMMA SlotsOfTheStarted ==
  ASSUME SlotsBelongToTheLiving, NEW m, m \in ToSet(oathnet) \union ToSet(global)
  PROVE  m \in Modules /\ phase[m] = "started"
BY DEF SlotsBelongToTheLiving

LEMMA InitEstablishesIInv == Init => IInv
<1> SUFFICES ASSUME Init PROVE IInv
  OBVIOUS
<1>1. IsInjective(<<>>) /\ ToSet(<<>>) = {}
  BY DEF IsInjective, ToSet
<1>2. TypeOK
  BY <1>1, Limits DEF Init, TypeOK, Phases, DegradationModes
<1>3. SlotsBelongToTheLiving
  BY <1>1 DEF Init, SlotsBelongToTheLiving
<1>4. CancelReachesEveryTask
  BY DEF Init, CancelReachesEveryTask, Alive
<1> QED
  BY <1>2, <1>3, <1>4 DEF IInv

LEMMA SubmitKeepsIInv ==
  ASSUME IInv, NEW m \in Modules, Submit(m)
  PROVE  IInv'
<1> USE DEF IInv
<1>1. TypeOK'
  BY DEF TypeOK, Submit, Phases, gateVars, cancelVars
<1>2. SlotsBelongToTheLiving'
  BY DEF SlotsBelongToTheLiving, Submit, TypeOK, gateVars, cancelVars
<1>3. CancelReachesEveryTask'
  BY DEF CancelReachesEveryTask, Alive, Submit, TypeOK, cancelVars
<1> QED
  BY <1>1, <1>2, <1>3

LEMMA ReaderKeepsIInv ==
  ASSUME IInv, Results \/ NextResult
  PROVE  IInv'
<1> USE DEF IInv
<1>1. TypeOK'
  <2>1. CASE Results
    BY <2>1 DEF TypeOK, Results, taskVars, gateVars, cancelVars
  <2>2. CASE NextResult
    <3> DEFINE Q == [name : Modules, outcome : Outcomes]
    <3>1. Tail(queue) \in Seq(Q)
      <4> HIDE DEF Q
      <4>1. queue \in Seq(Q) /\ queue # <<>>
        BY <2>2 DEF TypeOK, NextResult, Q
      <4> QED
        BY <4>1, HeadTailProperties
    <3>2. /\ reader'.at \in {"none", "reading", "ended"}
          /\ reader'.left \in Nat
          /\ reader' \in [at : {"none", "reading", "ended"}, left : Nat]
          /\ reader'.at = "reading" => reader'.left > 0
      BY <2>2 DEF TypeOK, NextResult
    <3> QED
      BY <2>2, <3>1, <3>2 DEF TypeOK, NextResult, gateVars, cancelVars
  <2> QED
    BY <2>1, <2>2
<1>2. SlotsBelongToTheLiving'
  BY DEF SlotsBelongToTheLiving, Results, NextResult, taskVars
<1>3. CancelReachesEveryTask'
  BY DEF CancelReachesEveryTask, Alive, Results, NextResult, taskVars, cancelVars
<1> QED
  BY <1>1, <1>2, <1>3

\* The first step of a task and its way from one semaphore to the next.
LEMMA AcquiringKeepsIInv ==
  ASSUME IInv, NEW m \in Modules, Start(m) \/ AcquireGlobal(m)
  PROVE  IInv'
<1> USE DEF IInv
<1>1. /\ oathnet \in Seq(OathnetModules) /\ IsInjective(oathnet)
      /\ global \in Seq(Modules) /\ IsInjective(global)
      /\ phase \in [Modules -> Phases]
  BY DEF TypeOK
<1>2. m \notin ToSet(global)
  BY SlotsOfTheStarted DEF Start, AcquireGlobal
<1>3. Start(m) => m \notin ToSet(oathnet)
  BY SlotsOfTheStarted DEF Start
<1>4. /\ Append(global, m) \in Seq(Modules)
      /\ IsInjective(Append(global, m))
      /\ ToSet(Append(global, m)) = ToSet(global) \union {m}
  BY <1>1, <1>2, Arrival, Limits
<1>5. ASSUME Start(m), m \in OathnetModules
      PROVE  /\ Append(oathnet, m) \in Seq(OathnetModules)
             /\ IsInjective(Append(oathnet, m))
             /\ ToSet(Append(oathnet, m)) = ToSet(oathnet) \union {m}
             /\ Holders(oathnet, MaxOathnet) \subseteq Holders(Append(oathnet, m), MaxOathnet)
             /\ Len(oathnet) < MaxOathnet => m \in Holders(Append(oathnet, m), MaxOathnet)
  BY <1>1, <1>3, <1>5, Arrival, Limits
<1>6. /\ oathnet' \in Seq(OathnetModules) /\ IsInjective(oathnet')
      /\ ToSet(oathnet') \subseteq ToSet(oathnet) \union {m}
      /\ Holders(oathnet, MaxOathnet) \subseteq Holders(oathnet', MaxOathnet)
      /\ global' # global /\ m \in OathnetModules => m \in Holders(oathnet', MaxOathnet)
  BY <1>1, <1>5 DEF Start, AcquireGlobal
<1>7. /\ global' \in Seq(Modules) /\ IsInjective(global')
      /\ ToSet(global') \subseteq ToSet(global) \union {m}
      /\ global' = global \/ global' = Append(global, m)
  BY <1>1, <1>4 DEF Start, AcquireGlobal
<1>8. /\ phase' \in [Modules -> Phases] /\ phase'[m] = "started"
      /\ \A n \in Modules : n # m => phase'[n] = phase[n]
      /\ phase[m] \in {"created", "started"}
      /\ UNCHANGED <<registry, queue, expected, ceiling, mode, cancelAll, cancelling, reader>>
  BY <1>1 DEF Start, AcquireGlobal, Phases, gateVars, cancelVars
<1>9. TypeOK'
  BY <1>6, <1>7, <1>8 DEF TypeOK
<1>10. SlotsBelongToTheLiving'
  BY <1>6, <1>7, <1>8 DEF SlotsBelongToTheLiving
<1>11. CancelReachesEveryTask'
  <2>1. Alive' = Alive
    BY <1>8 DEF Alive
  <2> QED
    BY <1>8, <2>1 DEF CancelReachesEveryTask
<1> QED
  BY <1>9, <1>10, <1>11

\* A task that ends, whatever it held or waited for.
LEMMA EndingKeepsIInv ==
  ASSUME IInv, NEW m \in Modules, NEW outcome \in Outcomes,
         Answer(m, outcome) \/ Unwind(m)
  PROVE  IInv'
<1> USE DEF IInv
<1>1. /\ oathnet \in Seq(OathnetModules) /\ IsInjective(oathnet)
      /\ global \in Seq(Modules) /\ IsInjective(global)
      /\ phase \in [Modules -> Phases]
  BY DEF TypeOK
<1>2. oathnet' = Released(oathnet, m) /\ global' = Released(global, m)
  BY DEF Answer, Unwind
<1>3. /\ oathnet' \in Seq(OathnetModules) /\ IsInjective(oathnet')
      /\ ToSet(oathnet') = ToSet(oathnet) \ {m}
      /\ Holders(oathnet, MaxOathnet) \ {m} \subseteq Holders(oathnet', MaxOathnet)
  BY <1>1, <1>2, Departure, Limits
<1>4. /\ global' \in Seq(Modules) /\ IsInjective(global')
      /\ ToSet(global') = ToSet(global) \ {m}
  BY <1>1, <1>2, Departure, Limits
<1>5. /\ phase' \in [Modules -> Phases] /\ phase'[m] \in {"answered", "cancelled"}
      /\ \A n \in Modules : n # m => phase'[n] = phase[n]
      /\ registry \ {m} \subseteq registry' /\ registry' \subseteq registry
      /\ cancelling' = cancelling \ {m}
      /\ queue' = queue \/ queue' = Put(m, outcome)
      /\ UNCHANGED <<expected, ceiling, mode, cancelAll, reader>>
  BY <1>1 DEF Answer, Unwind, Phases, gateVars, cancelVars
<1>6. Put(m, outcome) \in Seq([name : Modules, outcome : Outcomes])
  BY DEF Put, TypeOK
<1>7. TypeOK'
  BY <1>3, <1>4, <1>5, <1>6 DEF TypeOK
<1>8. SlotsBelongToTheLiving'
  BY <1>3, <1>4, <1>5 DEF SlotsBelongToTheLiving
<1>9. CancelReachesEveryTask'
  <2>1. Alive' = Alive \ {m}
    BY <1>5 DEF Alive
  <2> QED
    BY <1>5, <2>1 DEF CancelReachesEveryTask
<1> QED
  BY <1>7, <1>8, <1>9

LEMMA CancelAllKeepsIInv ==
  ASSUME IInv, CancelAll
  PROVE  IInv'
<1> USE DEF IInv
<1>1. /\ oathnet \in Seq(OathnetModules) /\ IsInjective(oathnet)
      /\ global \in Seq(Modules) /\ IsInjective(global)
  BY DEF TypeOK
<1>2. /\ oathnet' \in Seq(OathnetModules) /\ IsInjective(oathnet')
      /\ ToSet(oathnet') \subseteq ToSet(oathnet)
      /\ Holders(oathnet, MaxOathnet) \subseteq Holders(oathnet', MaxOathnet)
  BY <1>1, WaitersLeave, Limits DEF CancelAll
<1>3. /\ global' \in Seq(Modules) /\ IsInjective(global')
      /\ ToSet(global') \subseteq ToSet(global)
  BY <1>1, WaitersLeave, Limits DEF CancelAll
<1>4. TypeOK'
  BY <1>2, <1>3 DEF TypeOK, CancelAll, TasksToCancel, Alive, gateVars
<1>5. SlotsBelongToTheLiving'
  BY <1>2, <1>3 DEF SlotsBelongToTheLiving, CancelAll
<1>6. CancelReachesEveryTask'
  BY DEF CancelReachesEveryTask, CancelAll, TasksToCancel, Alive
<1> QED
  BY <1>4, <1>5, <1>6

\* cancel_all returns when no task is left, in either semaphore or elsewhere.
LEMMA NoTaskLeft ==
  ASSUME IInv, CancelAllReturns
  PROVE  Alive = {} /\ global = <<>> /\ oathnet = <<>>
<1>1. Alive = {}
  BY DEF IInv, CancelReachesEveryTask, CancelAllReturns
<1>2. ToSet(oathnet) \union ToSet(global) \subseteq Alive
  BY DEF IInv, SlotsBelongToTheLiving, Alive
<1>3. \A S : \A s \in Seq(S) : ToSet(s) = {} => s = <<>>
  BY DEF ToSet
<1> QED
  BY <1>1, <1>2, <1>3 DEF IInv, TypeOK

LEMMA CancelAllReturnsKeepsIInv ==
  ASSUME IInv, CancelAllReturns
  PROVE  IInv'
<1> USE DEF IInv
<1>1. TypeOK'
  BY DEF TypeOK, CancelAllReturns, gateVars
<1>2. SlotsBelongToTheLiving'
  BY DEF SlotsBelongToTheLiving, CancelAllReturns
<1>3. CancelReachesEveryTask'
  BY NoTaskLeft DEF CancelReachesEveryTask, CancelAllReturns, Alive
<1> QED
  BY <1>1, <1>2, <1>3

\* The invariant is inductive.
LEMMA NextKeepsIInv == IInv /\ [Next]_vars => IInv'
<1> SUFFICES ASSUME IInv, [Next]_vars PROVE IInv'
  OBVIOUS
<1>1. ASSUME NEW m \in Modules, Submit(m) PROVE IInv'
  BY <1>1, SubmitKeepsIInv
<1>2. ASSUME NEW m \in Modules, TaskStep(m) PROVE IInv'
  <2>1. CASE Start(m) \/ AcquireGlobal(m)
    BY <2>1, AcquiringKeepsIInv
  <2>2. ASSUME NEW outcome \in Outcomes, Answer(m, outcome) PROVE IInv'
    BY <2>2, EndingKeepsIInv
  <2>3. CASE Unwind(m)
    BY <2>3, EndingKeepsIInv DEF Outcomes
  <2> QED
    BY <1>2, <2>1, <2>2, <2>3 DEF TaskStep
<1>3. CASE Results \/ NextResult
  BY <1>3, ReaderKeepsIInv
<1>4. CASE CancelAll
  BY <1>4, CancelAllKeepsIInv
<1>5. CASE CancelAllReturns
  BY <1>5, CancelAllReturnsKeepsIInv
<1>6. CASE UNCHANGED vars
  BY <1>6 DEF vars, taskVars, gateVars, cancelVars, IInv, TypeOK,
              SlotsBelongToTheLiving, CancelReachesEveryTask, Alive
<1> QED
  BY <1>1, <1>2, <1>3, <1>4, <1>5, <1>6 DEF Next, Work

-----------------------------------------------------------------------------
(***************************************************************************)
(* The theorems.                                                           *)
(***************************************************************************)

\* The inductive invariant holds in every reachable state.
THEOREM Invariance == Spec => []IInv
<1>1. Init => IInv
  BY InitEstablishesIInv
<1>2. IInv /\ [Next]_vars => IInv'
  BY NextKeepsIInv
<1> QED
  BY <1>1, <1>2, PTL DEF Spec

\* The variables keep their types; no task enters a semaphore twice.
THEOREM TypeCorrect == Spec => []TypeOK
<1>1. IInv => TypeOK
  BY DEF IInv
<1> QED
  BY <1>1, Invariance, PTL

\* No slot of either semaphore is lost or held by a task that is gone.
THEOREM SlotsAreNotLost == Spec => []SlotsBelongToTheLiving
<1>1. IInv => SlotsBelongToTheLiving
  BY DEF IInv
<1> QED
  BY <1>1, Invariance, PTL

\* The OathNet modules never hold or queue for more than MaxOathnet global slots.
THEOREM OathnetNeverMonopolizes == Spec => []OathnetLeavesRoom
<1>1. IInv => OathnetLeavesRoom
  <2> SUFFICES ASSUME IInv PROVE OathnetLeavesRoom
    OBVIOUS
  <2> DEFINE H == Holders(oathnet, MaxOathnet)
             G == ToSet(global) \intersect OathnetModules
  <2>1. IsFiniteSet(H) /\ Cardinality(H) <= MaxOathnet
    BY HoldersAreFew, Limits DEF IInv, TypeOK
  <2>2. G \in SUBSET H
    BY DEF IInv, SlotsBelongToTheLiving
  <2>3. /\ IsFiniteSet(G) /\ Cardinality(G) <= Cardinality(H)
        /\ Cardinality(G) \in Nat /\ Cardinality(H) \in Nat
    <3> HIDE DEF G, H
    <3> QED
      BY <2>1, <2>2, FS_Subset, FS_CardinalityType
  <2> QED
    BY <2>1, <2>3, Limits DEF OathnetLeavesRoom
<1> QED
  BY <1>1, Invariance, PTL

\* When cancel_all returns, no task is alive and both semaphores are free.
THEOREM CancelAllIsComplete == Spec => CancelAllLeavesNoTask
<1>1. IInv /\ [Next]_vars =>
        [CancelAllReturns => Alive = {} /\ global = <<>> /\ oathnet = <<>>]_vars
  BY NoTaskLeft
<1> QED
  BY <1>1, Invariance, PTL DEF Spec, CancelAllLeavesNoTask

-----------------------------------------------------------------------------
(***************************************************************************)
(* The results of a search, until cancel_all is called.                    *)
(***************************************************************************)

\* The live tasks are finitely many; one more or one less counts.
LEMMA AliveCounts ==
  /\ IsFiniteSet(Alive) /\ Cardinality(Alive) \in Nat
  /\ \A m : m \notin Alive => Cardinality(Alive \union {m}) = Cardinality(Alive) + 1
  /\ \A m : m \in Alive => Cardinality(Alive \ {m}) = Cardinality(Alive) - 1
<1>1. Alive \in SUBSET Modules
  BY DEF Alive
<1> HIDE DEF Alive
<1>2. IsFiniteSet(Alive)
  BY <1>1, FinitelyManyModules, FS_Subset
<1> QED
  BY <1>2, FS_CardinalityType, FS_AddElement, FS_RemoveElement

LEMMA WorkKeepsAccounts ==
  ASSUME IInv, EveryResultIsAccountedFor, Work, cancelAll = "none"
  PROVE  EveryResultIsAccountedFor'
<1> DEFINE owed == Cardinality(Alive) + Len(queue)
<1>1. /\ Cardinality(Alive) \in Nat /\ Len(queue) \in Nat /\ expected \in Nat
      /\ reader.left \in Nat
      /\ reader.at \in {"none", "reading", "ended"}
      /\ phase \in [Modules -> Phases]
      /\ queue \in Seq([name : Modules, outcome : Outcomes])
  BY AliveCounts DEF IInv, TypeOK
<1>2. cancelling = {}
  BY DEF IInv, CancelReachesEveryTask
<1>3. ASSUME NEW m \in Modules, Submit(m)
      PROVE  EveryResultIsAccountedFor'
  <2>1. Alive' = Alive \union {m} /\ m \notin Alive
    BY <1>1, <1>3 DEF Submit, Alive
  <2>2. Cardinality(Alive') = Cardinality(Alive) + 1
    BY <2>1, AliveCounts
  <2>3. /\ queue' = queue /\ reader' = reader /\ cancelAll' = cancelAll
        /\ expected' = expected + 1
    BY <1>3 DEF Submit, cancelVars
  <2> QED
    BY <1>1, <2>2, <2>3 DEF EveryResultIsAccountedFor
<1>4. ASSUME NEW m \in Modules, Start(m) \/ AcquireGlobal(m)
      PROVE  EveryResultIsAccountedFor'
  <2>1. Alive' = Alive
    BY <1>1, <1>4 DEF Start, AcquireGlobal, Alive
  <2>2. UNCHANGED <<queue, reader, cancelAll, expected>>
    BY <1>4 DEF Start, AcquireGlobal, cancelVars
  <2> QED
    BY <2>1, <2>2 DEF EveryResultIsAccountedFor
<1>5. ASSUME NEW m \in Modules, NEW outcome \in Outcomes, Answer(m, outcome)
      PROVE  EveryResultIsAccountedFor'
  <2>1. m \in ToSet(global)
    BY <1>5 DEF Answer, Holders, ToSet
  <2>2. phase[m] = "started"
    BY <2>1, SlotsOfTheStarted DEF IInv
  <2>3. Alive' = Alive \ {m} /\ m \in Alive
    BY <1>1, <1>5, <2>2 DEF Answer, Alive
  <2>4. Cardinality(Alive') = Cardinality(Alive) - 1
    BY <2>3, AliveCounts
  <2>5. Len(queue') = Len(queue) + 1
    BY <1>1, <1>5 DEF Answer, Put
  <2>6. UNCHANGED <<reader, cancelAll, expected>>
    BY <1>5 DEF Answer, cancelVars
  <2> QED
    BY <1>1, <2>4, <2>5, <2>6 DEF EveryResultIsAccountedFor
<1>6. ASSUME NEW m \in Modules, Unwind(m)
      PROVE  EveryResultIsAccountedFor'
  BY <1>2, <1>6 DEF Unwind
<1>7. CASE Results
  <2>1. Alive' = Alive /\ UNCHANGED <<queue, expected, cancelAll>>
    BY <1>7 DEF Results, Alive, taskVars, cancelVars
  <2>2. reader' = [at |-> "reading", left |-> expected] /\ expected > 0 /\ reader.at = "none"
    BY <1>7 DEF Results
  <2> QED
    BY <1>1, <2>1, <2>2 DEF EveryResultIsAccountedFor
<1>8. CASE NextResult
  <2>1. Alive' = Alive /\ UNCHANGED <<expected, cancelAll>>
    BY <1>8 DEF NextResult, Alive, cancelVars
  <2>2. Len(queue') = Len(queue) - 1
    <3> DEFINE Q == [name : Modules, outcome : Outcomes]
    <3> HIDE DEF Q
    <3>1. queue \in Seq(Q) /\ queue # <<>>
      BY <1>1, <1>8 DEF NextResult, Q
    <3> QED
      BY <3>1, <1>8, HeadTailProperties DEF NextResult
  <2>3. /\ reader.at = "reading"
        /\ reader'.at = IF reader.left = 1 THEN "ended" ELSE "reading"
        /\ reader'.left = reader.left - 1
    BY <1>8 DEF NextResult
  <2> QED
    BY <1>1, <2>1, <2>2, <2>3 DEF EveryResultIsAccountedFor
<1> QED
  BY <1>3, <1>4, <1>5, <1>6, <1>7, <1>8 DEF Work, TaskStep

LEMMA InitAccounts == Init => EveryResultIsAccountedFor
<1> SUFFICES ASSUME Init PROVE EveryResultIsAccountedFor
  OBVIOUS
<1>1. Alive = {}
  BY DEF Init, Alive
<1> QED
  BY <1>1, FS_EmptySet DEF Init, EveryResultIsAccountedFor

\* cancel_all is called once: it ends the accounting for good.
LEMMA NobodyCountsAfterCancelAll ==
  ASSUME Next, cancelAll # "none" \/ CancelAll \/ CancelAllReturns
  PROVE  EveryResultIsAccountedFor'
<1>1. cancelAll' # "none"
  <2>1. CASE CancelAll \/ CancelAllReturns
    BY <2>1 DEF CancelAll, CancelAllReturns
  <2>2. CASE Work /\ cancelAll # "none"
    BY <2>2 DEF Work, Submit, TaskStep, Start, AcquireGlobal, Answer, Unwind,
                Results, NextResult, cancelVars
  <2> QED
    BY <2>1, <2>2 DEF Next
<1> QED
  BY <1>1 DEF EveryResultIsAccountedFor

\* Whatever the modules raise and in whatever order they end, until cancel_all is
\* called results() never waits for a result that is not to come.
THEOREM ResultsAreAllToCome == Spec => []NeverWaitsInVain
<1> DEFINE J == IInv /\ EveryResultIsAccountedFor
<1>1. Init => J
  BY InitEstablishesIInv, InitAccounts
<1>2. J /\ [Next]_vars => J'
  <2>1. ASSUME J, Next PROVE J'
    <3>1. EveryResultIsAccountedFor'
      BY <2>1, WorkKeepsAccounts, NobodyCountsAfterCancelAll DEF Next
    <3> QED
      BY <2>1, <3>1, NextKeepsIInv
  <2>2. ASSUME J, UNCHANGED vars PROVE J'
    <3>1. EveryResultIsAccountedFor'
      BY <2>2 DEF vars, taskVars, gateVars, cancelVars, EveryResultIsAccountedFor, Alive
    <3> QED
      BY <2>2, <3>1, NextKeepsIInv
  <2> QED
    BY <2>1, <2>2
<1>3. J => NeverWaitsInVain
  BY AliveCounts DEF NeverWaitsInVain, EveryResultIsAccountedFor, IInv, TypeOK
<1> HIDE DEF J
<1> QED
  BY <1>1, <1>2, <1>3, PTL DEF Spec

-----------------------------------------------------------------------------
(***************************************************************************)
(* The program around the orchestrator.                                    *)
(***************************************************************************)
AdmissionIInv == IInv /\ memory \in MemorySamples

\* A step of the system is a step of the orchestrator, or one that leaves its
\* tasks alone.
LEMMA AdmissionStep ==
  ASSUME [AdmissionNext]_admissionVars
  PROVE  \/ [Next]_vars /\ memory' \in {memory} \union MemorySamples
         \/ Watchdog
<1>1. ASSUME NEW s \in Searches, SearchStep(s) \/ SentinelStep(s)
      PROVE  [Next]_vars /\ memory' = memory
  BY <1>1 DEF Searches, SearchStep, SentinelStep, Admit, BeginTracked, BeginUntracked,
              EndSearch, Abandon, SentinelReturns, Next, Work, TaskStep, Outcomes
<1>2. MemoryChanges \/ StopServing \/ Drain
        => [Next]_vars /\ memory' \in {memory} \union MemorySamples
  BY DEF MemoryChanges, StopServing, Drain, Next
<1>3. UNCHANGED admissionVars => UNCHANGED vars /\ memory' = memory
  BY DEF admissionVars
<1> QED
  BY <1>1, <1>2, <1>3 DEF AdmissionNext

LEMMA WatchdogKeepsIInv ==
  ASSUME AdmissionIInv, Watchdog
  PROVE  AdmissionIInv'
<1>1. mode' \in DegradationModes
  BY DEF AdmissionIInv, IInv, TypeOK, Watchdog, DecideMode, DegradationModes
<1>2. CeilingForMode(mode') \in 0..MaxConcurrent
  BY <1>1, LimitsAssumption, CeilingAssumption DEF CeilingForMode, DegradationModes
<1>3. ceiling' \in 0..MaxConcurrent
  BY <1>2 DEF AdmissionIInv, IInv, TypeOK, Watchdog
<1>4. TypeOK'
  BY <1>1, <1>3 DEF AdmissionIInv, IInv, TypeOK, Watchdog, taskVars, cancelVars
<1>5. SlotsBelongToTheLiving' /\ CancelReachesEveryTask'
  BY DEF AdmissionIInv, IInv, SlotsBelongToTheLiving, CancelReachesEveryTask, Alive,
         Watchdog, taskVars, cancelVars
<1> QED
  BY <1>4, <1>5 DEF AdmissionIInv, IInv, Watchdog

\* The invariant of the orchestrator holds in the program that shares it.
THEOREM AdmissionInvariance == AdmissionSpec => []AdmissionIInv
<1>1. AdmissionInit => AdmissionIInv
  BY InitEstablishesIInv DEF AdmissionInit, AdmissionIInv
<1>2. AdmissionIInv /\ [AdmissionNext]_admissionVars => AdmissionIInv'
  BY AdmissionStep, NextKeepsIInv, WatchdogKeepsIInv DEF AdmissionIInv
<1> QED
  BY <1>1, <1>2, PTL DEF AdmissionSpec

\* After the shutdown's cancel_all no sentinel is left.
THEOREM ShutdownLeavesNoTask == AdmissionSpec => CancelAllLeavesNoTask
<1>1. AdmissionIInv /\ [AdmissionNext]_admissionVars =>
        [CancelAllReturns => Alive = {} /\ global = <<>> /\ oathnet = <<>>]_vars
  BY NoTaskLeft DEF AdmissionIInv
<1> QED
  BY <1>1, AdmissionInvariance, PTL DEF AdmissionSpec, CancelAllLeavesNoTask

\* Only a submit adds to the registry.
LEMMA RegistryGrowsBySubmit ==
  ASSUME [AdmissionNext]_admissionVars
  PROVE  registry' \subseteq registry \/ \E m \in Modules : Submit(m)
<1>1. [Next]_vars => registry' \subseteq registry \/ \E m \in Modules : Submit(m)
  BY DEF Next, Work, TaskStep, Start, AcquireGlobal, Answer, Unwind, Results, NextResult,
         CancelAll, CancelAllReturns, vars, taskVars
<1>2. Watchdog => registry' = registry
  BY DEF Watchdog, taskVars
<1> QED
  BY <1>1, <1>2, AdmissionStep

LEMMA OneMore ==
  ASSUME NEW S, IsFiniteSet(S), NEW x
  PROVE  /\ Cardinality(S \union {x}) \in Nat
         /\ Cardinality(S \union {x}) <= Cardinality(S) + 1
<1>1. Cardinality(S) \in Nat
  BY FS_CardinalityType
<1>2. IsFiniteSet(S \union {x})
  BY FS_AddElement
<1>3. Cardinality(S \union {x}) = IF x \in S THEN Cardinality(S) ELSE Cardinality(S) + 1
  BY FS_AddElement
<1> QED
  BY <1>1, <1>2, <1>3

\* Under a lowered ceiling the registry never grows past it, whichever mode let
\* the search in.
THEOREM SoftGateHolds == AdmissionSpec => DegradedRegistryStaysBelowCeiling
<1> DEFINE Grows == Cardinality(registry') > Cardinality(registry)
<1>1. ASSUME AdmissionIInv, AdmissionIInv', [AdmissionNext]_admissionVars,
             Grows, ceiling < MaxConcurrent
      PROVE  Cardinality(registry') <= ceiling
  <2>1. registry \in SUBSET (Modules \union Foreign)
    BY <1>1 DEF AdmissionIInv, IInv, TypeOK
  <2>2. IsFiniteSet(Modules \union Foreign)
    BY FinitelyManyModules, ForeignAssumption, FS_Union
  <2>3. IsFiniteSet(registry) /\ Cardinality(registry) \in Nat
    BY <2>1, <2>2, FS_Subset, FS_CardinalityType
  <2>4. registry' \subseteq registry => Cardinality(registry') <= Cardinality(registry)
    BY <2>3, FS_Subset
  <2>5. registry' \subseteq registry =>
          IsFiniteSet(registry') /\ Cardinality(registry') \in Nat
    BY <2>3, FS_Subset, FS_CardinalityType
  <2>6. PICK m \in Modules : Submit(m)
    <3>1. ~ (registry' \subseteq registry)
      BY <1>1, <2>3, <2>4, <2>5
    <3> QED
      BY <1>1, <3>1, RegistryGrowsBySubmit
  <2>7. registry' = registry \union {m} /\ Cardinality(registry) < ceiling
    BY <1>1, <2>6 DEF Submit, GateIsOpen
  <2>8. Cardinality(registry \union {m}) <= Cardinality(registry) + 1
    BY <2>3, OneMore
  <2>9. ceiling \in Nat
    BY <1>1 DEF AdmissionIInv, IInv, TypeOK
  <2>10. Cardinality(registry') \in Nat
    BY <2>3, <2>7, OneMore
  <2> QED
    BY <2>3, <2>7, <2>8, <2>9, <2>10
<1>2. AdmissionIInv /\ AdmissionIInv' /\ [AdmissionNext]_admissionVars =>
        [Grows /\ ceiling < MaxConcurrent => Cardinality(registry') <= ceiling]_admissionVars
  BY <1>1
<1> QED
  BY <1>2, AdmissionInvariance, PTL DEF AdmissionSpec, DegradedRegistryStaysBelowCeiling

=============================================================================
