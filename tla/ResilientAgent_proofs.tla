------------------------ MODULE ResilientAgent_proofs ------------------------
(***************************************************************************)
(* Proofs about ResilientAgent, for any number of callers, any threshold,  *)
(* cooldown and attempt budget.                                            *)
(***************************************************************************)
EXTENDS ResilientAgent, FiniteSetTheorems, TLAPS

(***************************************************************************)
(* The methods of the breaker, each on its own.                            *)
(***************************************************************************)
Sound(b) == b \in Breaker /\ (b.state = "Closed" <=> b.failures < Threshold)

LEMMA RefreshIsSound == ASSUME NEW b, Sound(b) PROVE Sound(Refresh(b))
BY DEF Sound, Refresh, Breaker, BreakerStates

LEMMA OnSuccessIsSound == ASSUME NEW b, Sound(b) PROVE Sound(OnSuccess(b))
<1>1. 0 \in Nat /\ 0 < Threshold
  BY BreakerAssumption
<1>2. OnSuccess(b) \in Breaker
  BY <1>1 DEF Sound, OnSuccess, Breaker, BreakerStates
<1>3. OnSuccess(b).state = "Closed" /\ OnSuccess(b).failures = 0
  BY DEF Sound, OnSuccess, Breaker
<1> QED
  BY <1>1, <1>2, <1>3 DEF Sound

LEMMA OnFailureIsSound == ASSUME NEW b, Sound(b) PROVE Sound(OnFailure(b))
<1>1. /\ b.failures \in Nat /\ b.failures + 1 \in Nat /\ Threshold \in Nat
      /\ b.age \in 0..Cooldown /\ 0 \in 0..Cooldown
  BY BreakerAssumption DEF Sound, Breaker
<1>2. CASE b.state = "HalfOpen"
  BY <1>1, <1>2 DEF Sound, OnFailure, Opened, Breaker, BreakerStates
<1>3. CASE b.state # "HalfOpen" /\ b.failures + 1 >= Threshold
  BY <1>1, <1>3 DEF Sound, OnFailure, Opened, Breaker, BreakerStates
<1>4. CASE b.state # "HalfOpen" /\ ~(b.failures + 1 >= Threshold)
  BY <1>1, <1>4 DEF Sound, OnFailure, Opened, Breaker, BreakerStates
<1> QED
  BY <1>2, <1>3, <1>4

LEMMA OlderIsSound ==
  ASSUME NEW b, Sound(b), b.age < Cooldown
  PROVE  Sound(Older(b))
BY BreakerAssumption DEF Sound, Older, Breaker, BreakerStates

(***************************************************************************)
(* Type correctness and the count, together: an attempt is begun within    *)
(* the budget only if a call in backoff has one left.                      *)
(***************************************************************************)
Counted(g) ==
  /\ g.pc # "out" => g.attempt \in 1..MaxAttempts
  /\ g.pc = "backoff" => g.attempt < MaxAttempts

WithinBudget == \A c \in Callers : Counted(guard[c])

IInv == TypeOK /\ ClosedBelowThreshold /\ WithinBudget

LEMMA InitIInv == Init => IInv
<1> SUFFICES ASSUME Init PROVE IInv
  OBVIOUS
<1>1. Sound(breaker)
  BY BreakerAssumption DEF Init, NewBreaker, Sound, Breaker, BreakerStates
<1>2. Fresh \in GuardRecord /\ Fresh.pc = "out"
  BY AgentAssumption DEF Fresh, GuardRecord
<1> QED
  BY <1>1, <1>2 DEF Init, IInv, TypeOK, ClosedBelowThreshold, Sound, WithinBudget, Counted

\* A step that gives one caller a well-typed record within its budget.
LEMMA GuardStep ==
  ASSUME TypeOK, WithinBudget, NEW c \in Callers, NEW g \in GuardRecord, Counted(g),
         guard' = [guard EXCEPT ![c] = g]
  PROVE  guard' \in [Callers -> GuardRecord] /\ WithinBudget'
BY DEF TypeOK, WithinBudget, Counted

LEMMA NextIInv == IInv /\ [Next]_vars => IInv'
<1> SUFFICES ASSUME IInv, [Next]_vars PROVE IInv'
  OBVIOUS
<1>0. Sound(breaker) /\ TypeOK /\ WithinBudget
  BY DEF IInv, TypeOK, ClosedBelowThreshold, Sound
<1> SUFFICES Sound(breaker') /\ guard' \in [Callers -> GuardRecord] /\ WithinBudget' /\ up' \in BOOLEAN
  BY DEF IInv, TypeOK, ClosedBelowThreshold, Sound
<1>1. CASE Tick
  BY <1>0, <1>1, OlderIsSound DEF Tick, TypeOK, WithinBudget, Counted
<1>2. CASE Observe
  BY <1>0, <1>2, RefreshIsSound DEF Observe, TypeOK, WithinBudget, Counted
<1>3. CASE HostsChange
  BY <1>0, <1>3 DEF HostsChange, TypeOK, WithinBudget, Counted
<1>4. ASSUME NEW c \in Callers, Acquire(c)
      PROVE  Sound(breaker') /\ guard' \in [Callers -> GuardRecord] /\ WithinBudget' /\ up' \in BOOLEAN
  <2>1. Sound(breaker') /\ up' \in BOOLEAN
    BY <1>0, <1>4, RefreshIsSound DEF Acquire, TypeOK
  <2> DEFINE g == IF Admits(breaker)
                  THEN [pc |-> "trying", attempt |-> 1, result |-> "none"]
                  ELSE Ended("CircuitOpen")
  <2>2. g \in GuardRecord /\ Counted(g)
    <3>1. 1 \in 0..MaxAttempts /\ 0 \in 0..MaxAttempts /\ 1 \in 1..MaxAttempts
      BY AgentAssumption
    <3>2. CASE Admits(breaker)
      BY <3>1, <3>2 DEF GuardRecord, Counted
    <3>3. CASE ~Admits(breaker)
      BY <3>1, <3>3 DEF GuardRecord, Ended, Fresh, Counted
    <3> QED
      BY <3>2, <3>3
  <2>3. guard' = [guard EXCEPT ![c] = g]
    BY <1>4 DEF Acquire
  <2> HIDE DEF g
  <2> QED
    BY <1>0, <2>1, <2>2, <2>3, GuardStep
<1>5. ASSUME NEW c \in Callers, AttemptSucceeds(c)
      PROVE  Sound(breaker') /\ guard' \in [Callers -> GuardRecord] /\ WithinBudget' /\ up' \in BOOLEAN
  <2>1. Ended("Ok") \in GuardRecord /\ Counted(Ended("Ok"))
    <3>1. 0 \in 0..MaxAttempts
      BY AgentAssumption
    <3> QED
      BY <3>1 DEF Ended, Fresh, GuardRecord, Counted
  <2> QED
    BY <1>0, <1>5, <2>1, GuardStep, OnSuccessIsSound DEF AttemptSucceeds, TypeOK
<1>6. ASSUME NEW c \in Callers, NEW e \in PortErrors, AttemptFails(c, e)
      PROVE  Sound(breaker') /\ guard' \in [Callers -> GuardRecord] /\ WithinBudget' /\ up' \in BOOLEAN
  <2>1. Sound(breaker') /\ up' \in BOOLEAN
    BY <1>0, <1>6, OnFailureIsSound DEF AttemptFails, TypeOK
  <2> DEFINE g == IF MayRetry(c, e) THEN [guard[c] EXCEPT !.pc = "backoff"] ELSE Ended(e)
  <2>2. g \in GuardRecord /\ Counted(g)
    <3>1. /\ guard[c] \in GuardRecord /\ 0 \in 0..MaxAttempts
          /\ guard[c].pc = "trying" /\ guard[c].attempt \in 1..MaxAttempts
      BY <1>0, <1>6, AgentAssumption DEF TypeOK, AttemptFails, At, WithinBudget, Counted
    <3>2. CASE MayRetry(c, e)
      BY <3>1, <3>2 DEF GuardRecord, MayRetry, Counted
    <3>3. CASE ~MayRetry(c, e)
      BY <3>1, <3>3 DEF GuardRecord, Ended, Fresh, Counted
    <3> QED
      BY <3>2, <3>3
  <2>3. guard' = [guard EXCEPT ![c] = g]
    BY <1>6 DEF AttemptFails
  <2> HIDE DEF g
  <2> QED
    BY <1>0, <2>1, <2>2, <2>3, GuardStep
<1>7. ASSUME NEW c \in Callers, Retry(c)
      PROVE  Sound(breaker') /\ guard' \in [Callers -> GuardRecord] /\ WithinBudget' /\ up' \in BOOLEAN
  <2> DEFINE g == [guard[c] EXCEPT !.pc = "trying", !.attempt = @ + 1]
  <2>1. /\ guard[c] \in GuardRecord
        /\ guard[c].attempt + 1 \in 0..MaxAttempts /\ guard[c].attempt + 1 \in 1..MaxAttempts
    BY <1>0, <1>7, AgentAssumption DEF Retry, At, TypeOK, WithinBudget, Counted, GuardRecord
  <2>2. g \in GuardRecord /\ Counted(g)
    BY <2>1 DEF GuardRecord, Counted
  <2>3. guard' = [guard EXCEPT ![c] = g]
    BY <1>0, <1>7 DEF Retry, TypeOK
  <2> HIDE DEF g
  <2> QED
    BY <1>0, <1>7, <2>2, <2>3, GuardStep DEF Retry, TypeOK
<1>8. ASSUME NEW c \in Callers, Dropped(c)
      PROVE  Sound(breaker') /\ guard' \in [Callers -> GuardRecord] /\ WithinBudget' /\ up' \in BOOLEAN
  <2>1. Fresh \in GuardRecord /\ Counted(Fresh)
    BY AgentAssumption DEF Fresh, GuardRecord, Counted
  <2> QED
    BY <1>0, <1>8, <2>1, GuardStep DEF Dropped, TypeOK
<1>9. CASE UNCHANGED vars
  BY <1>0, <1>9 DEF vars, TypeOK, WithinBudget, Counted
<1> QED
  BY <1>1, <1>2, <1>3, <1>4, <1>5, <1>6, <1>7, <1>8, <1>9 DEF Next, Proceed

\* The inductive invariant of the breaker and its callers holds throughout.
THEOREM Invariance == Spec => []IInv
BY InitIInv, NextIInv, PTL DEF Spec

\* The breaker, the locals of every call and the attempt count stay in range.
THEOREM AgentTypeCorrect == Spec => []TypeOK
<1>1. IInv => TypeOK
  BY DEF IInv
<1> QED
  BY <1>1, Invariance, PTL

\* The breaker is closed exactly below its threshold (breaker.rs:113-129),
\* whichever callers, late answers and dropped probes there are.
THEOREM CountDecidesState == Spec => []ClosedBelowThreshold
<1>1. IInv => ClosedBelowThreshold
  BY DEF IInv
<1> QED
  BY <1>1, Invariance, PTL

(***************************************************************************)
(* The attempts that may still add to the count, as a set of pairs: a step *)
(* of one caller changes the pairs of that caller only.                    *)
(***************************************************************************)
AttemptsOf(g) ==
  CASE g.pc = "out"     -> 0
    [] g.pc = "trying"  -> MaxAttempts - g.attempt + 1
    [] g.pc = "backoff" -> MaxAttempts - g.attempt

Left(f) == UNION {{c} \X (1..AttemptsOf(f[c])) : c \in Callers}

Slots == Callers \X (1..MaxAttempts)

LEMMA LeftIsAttemptsLeft == AttemptsLeft = Left(guard) /\ AttemptsLeft' = Left(guard')
BY DEF AttemptsLeft, Left, Budget, AttemptsOf, At

LEMMA SlotsCount ==
  /\ IsFiniteSet(Slots)
  /\ Cardinality(Slots) = MaxAttempts * Cardinality(Callers)
  /\ Cardinality(Callers) \in Nat
  /\ Cardinality(Slots) \in Nat
<1>1. IsFiniteSet(1..MaxAttempts) /\ Cardinality(1..MaxAttempts) = MaxAttempts
  BY AgentAssumption, FS_Interval
<1>2. IsFiniteSet(Slots) /\ Cardinality(Slots) = Cardinality(Callers) * Cardinality(1..MaxAttempts)
  BY <1>1, AgentAssumption, FS_Product DEF Slots
<1>3. Cardinality(Callers) \in Nat
  BY AgentAssumption, FS_CardinalityType
<1> QED
  BY <1>1, <1>2, <1>3, AgentAssumption

LEMMA AttemptsInRange ==
  ASSUME NEW g \in GuardRecord, Counted(g)
  PROVE  /\ AttemptsOf(g) \in 0..MaxAttempts
         /\ g.pc = "trying" => AttemptsOf(g) = MaxAttempts - g.attempt + 1
         /\ g.pc = "backoff" => AttemptsOf(g) = MaxAttempts - g.attempt
         /\ g.pc = "out" => AttemptsOf(g) = 0
BY AgentAssumption DEF Counted, GuardRecord, AttemptsOf

LEMMA LeftMember ==
  ASSUME NEW f, NEW c \in Callers, NEW i
  PROVE  <<c, i>> \in Left(f) <=> i \in 1..AttemptsOf(f[c])
BY DEF Left

LEMMA LeftArePairs ==
  ASSUME NEW f, NEW x \in Left(f)
  PROVE  \E c \in Callers : \E i \in 1..AttemptsOf(f[c]) : x = <<c, i>>
BY DEF Left

LEMMA LeftInSlots ==
  ASSUME NEW f \in [Callers -> GuardRecord], \A c \in Callers : Counted(f[c])
  PROVE  Left(f) \subseteq Slots
<1> SUFFICES ASSUME NEW x \in Left(f) PROVE x \in Slots
  OBVIOUS
<1>1. PICK c \in Callers : \E i \in 1..AttemptsOf(f[c]) : x = <<c, i>>
  BY LeftArePairs
<1>2. AttemptsOf(f[c]) \in 0..MaxAttempts
  BY AttemptsInRange
<1>3. 1..AttemptsOf(f[c]) \subseteq 1..MaxAttempts
  BY <1>2, AgentAssumption
<1> QED
  BY <1>1, <1>3 DEF Slots

\* A step of one caller that leaves it no more attempts adds no pair.
LEMMA LeftShrinks ==
  ASSUME NEW f \in [Callers -> GuardRecord], NEW c \in Callers, NEW g \in GuardRecord,
         Counted(f[c]), Counted(g), AttemptsOf(g) <= AttemptsOf(f[c])
  PROVE  Left([f EXCEPT ![c] = g]) \subseteq Left(f)
<1> DEFINE h == [f EXCEPT ![c] = g]
<1> SUFFICES ASSUME NEW x \in Left(h) PROVE x \in Left(f)
  OBVIOUS
<1>1. PICK d \in Callers : \E i \in 1..AttemptsOf(h[d]) : x = <<d, i>>
  BY LeftArePairs
<1>2. AttemptsOf(g) \in 0..MaxAttempts /\ AttemptsOf(f[c]) \in 0..MaxAttempts
  BY AttemptsInRange
<1>3. 1..AttemptsOf(g) \subseteq 1..AttemptsOf(f[c])
  BY <1>2
<1>4. h[d] = IF d = c THEN g ELSE f[d]
  OBVIOUS
<1>5. 1..AttemptsOf(h[d]) \subseteq 1..AttemptsOf(f[d])
  BY <1>3, <1>4
<1> QED
  BY <1>1, <1>5, LeftMember

\* One that leaves it fewer takes the pair of its last attempt away.
LEMMA LeftLoses ==
  ASSUME NEW f \in [Callers -> GuardRecord], NEW c \in Callers, NEW g \in GuardRecord,
         Counted(f[c]), Counted(g), AttemptsOf(g) < AttemptsOf(f[c])
  PROVE  Left([f EXCEPT ![c] = g]) \subseteq Left(f) \ {<<c, AttemptsOf(f[c])>>}
<1> DEFINE h == [f EXCEPT ![c] = g]
           n == AttemptsOf(f[c])
<1>1. AttemptsOf(g) \in 0..MaxAttempts /\ n \in 0..MaxAttempts
  BY AttemptsInRange
<1>2. AttemptsOf(g) <= AttemptsOf(f[c])
  BY <1>1, AgentAssumption
<1>6. Left(h) \subseteq Left(f)
  BY <1>2, LeftShrinks
<1>3. h[c] = g
  OBVIOUS
<1>4. n \notin 1..AttemptsOf(h[c])
  BY <1>1, <1>3
<1>5. <<c, n>> \notin Left(h)
  BY <1>4, LeftMember
<1> QED
  BY <1>5, <1>6

(***************************************************************************)
(* The count, as a number of slots: failures and the attempts left.        *)
(***************************************************************************)
WithinCap(b, f) ==
  b.state = "Open" =>
    b.failures + Cardinality(Left(f)) <= Threshold - 1 + Cardinality(Slots)

LEMMA CapIsFailuresAreBounded ==
  /\ FailuresAreBounded <=> WithinCap(breaker, guard)
  /\ FailuresAreBounded' <=> WithinCap(breaker', guard')
BY LeftIsAttemptsLeft, SlotsCount DEF FailuresAreBounded, WithinCap

LEMMA LeftIsFinite ==
  ASSUME NEW f \in [Callers -> GuardRecord], \A c \in Callers : Counted(f[c])
  PROVE  IsFiniteSet(Left(f)) /\ Cardinality(Left(f)) \in Nat
BY LeftInSlots, SlotsCount, FS_Subset, FS_CardinalityType

\* While the breaker keeps its count, fewer attempts are left.
LEMMA FewerAttempts ==
  ASSUME NEW b, Sound(b), NEW b2, Sound(b2), NEW f \in [Callers -> GuardRecord],
         \A c \in Callers : Counted(f[c]), NEW f2, Left(f2) \subseteq Left(f),
         WithinCap(b, f), b2.state = "Open" => b.state = "Open" /\ b2.failures = b.failures
  PROVE  WithinCap(b2, f2)
<1>1. IsFiniteSet(Left(f)) /\ Cardinality(Left(f)) \in Nat
  BY LeftIsFinite
<1>2. Cardinality(Left(f2)) \in Nat /\ Cardinality(Left(f2)) <= Cardinality(Left(f))
  BY <1>1, FS_Subset, FS_CardinalityType
<1>3. b.failures \in Nat /\ b2.failures \in Nat /\ Threshold \in Nat
  BY BreakerAssumption DEF Sound, Breaker
<1> QED
  BY <1>1, <1>2, <1>3, SlotsCount DEF WithinCap

\* A failure is paid for with the attempt it ends: with the first slot of its
\* caller when it opens the breaker, with its last pair when the breaker is open.
LEMMA FailurePaid ==
  ASSUME NEW b, Sound(b), NEW f \in [Callers -> GuardRecord],
         \A c \in Callers : Counted(f[c]), WithinCap(b, f),
         NEW c \in Callers, NEW g \in GuardRecord, Counted(g), f[c].pc = "trying",
         AttemptsOf(g) < AttemptsOf(f[c])
  PROVE  WithinCap(OnFailure(b), [f EXCEPT ![c] = g])
<1> DEFINE h == [f EXCEPT ![c] = g]
           x == <<c, AttemptsOf(f[c])>>
           y == <<c, MaxAttempts>>
           n == OnFailure(b)
<1> SUFFICES ASSUME n.state = "Open"
             PROVE  n.failures + Cardinality(Left(h)) <= Threshold - 1 + Cardinality(Slots)
  BY DEF WithinCap
<1>1. /\ b.failures \in Nat /\ n.failures \in Nat /\ Threshold \in Nat
      /\ b.state \in BreakerStates
  BY BreakerAssumption, OnFailureIsSound DEF Sound, Breaker
<1>2. Left(h) \subseteq Left(f) \ {x}
  BY LeftLoses
<1>3. /\ IsFiniteSet(Left(f)) /\ Cardinality(Left(f)) \in Nat
      /\ Left(f) \subseteq Slots
  BY LeftIsFinite, LeftInSlots
<1>4. AttemptsOf(f[c]) \in 1..MaxAttempts /\ AttemptsOf(g) \in 0..MaxAttempts
  <2>1. AttemptsOf(f[c]) \in 0..MaxAttempts /\ AttemptsOf(g) \in 0..MaxAttempts
    BY AttemptsInRange
  <2> QED
    BY <2>1, AgentAssumption
<1>5. CASE b.state = "Open"
  <2>1. n.failures = b.failures + 1
    BY <1>1, <1>5 DEF Sound, OnFailure, Opened, Breaker
  <2>2. x \in Left(f)
    <3>1. AttemptsOf(f[c]) \in 1..AttemptsOf(f[c])
      BY <1>4
    <3> QED
      BY <3>1, LeftMember
  <2>3. /\ IsFiniteSet(Left(f) \ {x})
        /\ Cardinality(Left(f) \ {x}) = Cardinality(Left(f)) - 1
    BY <1>3, <2>2, FS_RemoveElement
  <2>4. Cardinality(Left(h)) \in Nat /\ Cardinality(Left(h)) <= Cardinality(Left(f)) - 1
    BY <1>2, <2>3, FS_Subset, FS_CardinalityType
  <2> QED
    BY <1>1, <1>3, <1>5, <2>1, <2>4, SlotsCount DEF WithinCap
<1>6. CASE b.state # "Open"
  <2>1. n.failures = Threshold
    BY <1>1, <1>6 DEF Sound, OnFailure, Opened, Breaker, BreakerStates
  <2>2. Left(h) \subseteq Slots \ {y}
    <3>1. AttemptsOf(h[c]) < MaxAttempts
      BY <1>4, AgentAssumption
    <3>2. h[c] = g
      OBVIOUS
    <3>3. MaxAttempts \notin 1..AttemptsOf(h[c])
      BY <1>4, <3>1, <3>2, AgentAssumption
    <3>4. y \notin Left(h)
      BY <3>3, LeftMember
    <3> QED
      BY <1>2, <1>3, <3>4
  <2>3. /\ IsFiniteSet(Slots \ {y})
        /\ Cardinality(Slots \ {y}) = Cardinality(Slots) - 1
    <3>1. y \in Slots
      BY AgentAssumption DEF Slots
    <3> QED
      BY <3>1, SlotsCount, FS_RemoveElement
  <2>4. Cardinality(Left(h)) \in Nat /\ Cardinality(Left(h)) <= Cardinality(Slots) - 1
    BY <2>2, <2>3, FS_Subset, FS_CardinalityType
  <2> QED
    BY <1>1, <2>1, <2>4, SlotsCount
<1> QED
  BY <1>5, <1>6

LEMMA InitBounded == Init => FailuresAreBounded
BY DEF Init, NewBreaker, FailuresAreBounded

LEMMA NextBounded == IInv /\ FailuresAreBounded /\ [Next]_vars => FailuresAreBounded'
<1> SUFFICES ASSUME IInv, FailuresAreBounded, [Next]_vars PROVE WithinCap(breaker', guard')
  BY CapIsFailuresAreBounded
<1>0. /\ Sound(breaker) /\ guard \in [Callers -> GuardRecord]
      /\ \A c \in Callers : Counted(guard[c])
      /\ WithinCap(breaker, guard)
  BY CapIsFailuresAreBounded DEF IInv, TypeOK, ClosedBelowThreshold, Sound, WithinBudget
<1>i. IInv'
  BY NextIInv
<1>j. /\ Sound(breaker') /\ guard' \in [Callers -> GuardRecord]
      /\ \A c \in Callers : Counted(guard'[c])
  BY <1>i DEF IInv, TypeOK, ClosedBelowThreshold, Sound, WithinBudget
<1>k. Left(guard) \subseteq Left(guard)
  OBVIOUS
\* The step of a caller that is left with fewer attempts, or with no more.
<1>s. ASSUME NEW c \in Callers, NEW g, guard' = [guard EXCEPT ![c] = g]
      PROVE  g \in GuardRecord /\ Counted(g) /\ Counted(guard[c]) /\ guard[c] \in GuardRecord
  <2>1. guard'[c] = g
    BY <1>0, <1>s
  <2> QED
    BY <1>0, <1>j, <2>1
<1>1. CASE Tick
  <2>1. breaker'.failures = breaker.failures /\ guard' = guard /\ breaker.state = "Open"
    BY <1>0, <1>1 DEF Tick, Older, Sound, Breaker
  <2> QED
    BY <1>0, <1>j, <1>k, <2>1, FewerAttempts
<1>r. /\ Refresh(breaker).state = "Open" => breaker.state = "Open"
      /\ Refresh(breaker).failures = breaker.failures
  BY <1>0 DEF Refresh, Sound, Breaker
<1>2. CASE Observe
  BY <1>0, <1>2, <1>j, <1>k, <1>r, FewerAttempts DEF Observe
<1>3. CASE HostsChange
  BY <1>0, <1>3 DEF HostsChange
<1>4. ASSUME NEW c \in Callers, Acquire(c) PROVE WithinCap(breaker', guard')
  <2>1. CASE Admits(breaker)
    BY <1>4, <2>1 DEF Acquire, Admits, WithinCap
  <2>2. CASE ~Admits(breaker)
    <3>1. guard' = [guard EXCEPT ![c] = Ended("CircuitOpen")] /\ breaker' = Refresh(breaker)
      BY <1>4, <2>2 DEF Acquire
    <3>2. guard[c].pc = "out" /\ Ended("CircuitOpen").pc = "out"
      BY <1>4 DEF Acquire, At, Ended, Fresh
    <3>3. /\ Ended("CircuitOpen") \in GuardRecord /\ Counted(Ended("CircuitOpen"))
          /\ guard[c] \in GuardRecord /\ Counted(guard[c])
      BY <1>s, <3>1
    <3>4. AttemptsOf(Ended("CircuitOpen")) = 0 /\ AttemptsOf(guard[c]) = 0
      BY <3>2, <3>3, AttemptsInRange
    <3>5. AttemptsOf(Ended("CircuitOpen")) <= AttemptsOf(guard[c])
      BY <3>4
    <3>6. Left(guard') \subseteq Left(guard)
      BY <1>0, <3>1, <3>3, <3>5, LeftShrinks
    <3> QED
      BY <1>0, <1>j, <1>r, <3>1, <3>6, FewerAttempts
  <2> QED
    BY <2>1, <2>2
<1>5. ASSUME NEW c \in Callers, AttemptSucceeds(c) PROVE WithinCap(breaker', guard')
  <2>1. breaker'.state = "Closed"
    BY <1>0, <1>5 DEF AttemptSucceeds, OnSuccess, Sound, Breaker
  <2> QED
    BY <2>1 DEF WithinCap
<1>6. ASSUME NEW c \in Callers, NEW e \in PortErrors, AttemptFails(c, e)
      PROVE  WithinCap(breaker', guard')
  <2> DEFINE g == IF MayRetry(c, e) THEN [guard[c] EXCEPT !.pc = "backoff"] ELSE Ended(e)
  <2>1. guard' = [guard EXCEPT ![c] = g] /\ breaker' = OnFailure(breaker)
    BY <1>6 DEF AttemptFails
  <2>2. guard[c].pc = "trying" /\ guard[c] \in GuardRecord /\ guard[c].attempt \in 1..MaxAttempts
    BY <1>0, <1>6 DEF AttemptFails, At, Counted
  <2>3. \/ g.pc = "backoff" /\ g.attempt = guard[c].attempt
        \/ g.pc = "out"
    BY <2>2 DEF GuardRecord, Ended, Fresh
  <2> HIDE DEF g
  <2>4. g \in GuardRecord /\ Counted(g) /\ Counted(guard[c])
    BY <1>s, <2>1
  <2>5. AttemptsOf(guard[c]) = MaxAttempts - guard[c].attempt + 1
    BY <2>2, <2>4, AttemptsInRange
  <2>6. AttemptsOf(g) = 0 \/ AttemptsOf(g) = MaxAttempts - guard[c].attempt
    BY <2>3, <2>4, AttemptsInRange
  <2>7. AttemptsOf(g) < AttemptsOf(guard[c])
    BY <2>2, <2>5, <2>6, AgentAssumption
  <2> QED
    BY <1>0, <2>1, <2>2, <2>4, <2>7, FailurePaid
<1>7. ASSUME NEW c \in Callers, Retry(c) PROVE WithinCap(breaker', guard')
  <2> DEFINE g == [guard[c] EXCEPT !.pc = "trying", !.attempt = @ + 1]
  <2>1. guard' = [guard EXCEPT ![c] = g] /\ breaker' = breaker /\ guard[c].pc = "backoff"
    BY <1>0, <1>7 DEF Retry, At
  <2>2. guard[c].attempt \in Int /\ g.pc = "trying" /\ g.attempt = guard[c].attempt + 1
    BY <1>0 DEF GuardRecord
  <2> HIDE DEF g
  <2>3. g \in GuardRecord /\ Counted(g) /\ Counted(guard[c]) /\ guard[c] \in GuardRecord
    BY <1>s, <2>1
  <2>4. AttemptsOf(g) = MaxAttempts - g.attempt + 1
    BY <2>2, <2>3, AttemptsInRange
  <2>5. AttemptsOf(guard[c]) = MaxAttempts - guard[c].attempt
    BY <2>1, <2>3, AttemptsInRange
  <2>6. AttemptsOf(g) <= AttemptsOf(guard[c])
    BY <2>2, <2>4, <2>5, AgentAssumption
  <2>7. Left(guard') \subseteq Left(guard)
    BY <1>0, <2>1, <2>3, <2>6, LeftShrinks
  <2> QED
    BY <1>0, <1>j, <2>1, <2>7, FewerAttempts
<1>8. ASSUME NEW c \in Callers, Dropped(c) PROVE WithinCap(breaker', guard')
  <2>1. guard' = [guard EXCEPT ![c] = Fresh] /\ breaker' = breaker
    BY <1>8 DEF Dropped
  <2>2. Fresh \in GuardRecord /\ Counted(Fresh) /\ Counted(guard[c]) /\ guard[c] \in GuardRecord
    BY <1>s, <2>1
  <2>3. AttemptsOf(Fresh) = 0 /\ AttemptsOf(guard[c]) \in 0..MaxAttempts
    BY <2>2, AttemptsInRange DEF Fresh
  <2>4. AttemptsOf(Fresh) <= AttemptsOf(guard[c])
    BY <2>3, AgentAssumption
  <2>5. Left(guard') \subseteq Left(guard)
    BY <1>0, <2>1, <2>2, <2>4, LeftShrinks
  <2> QED
    BY <1>0, <1>j, <2>1, <2>5, FewerAttempts
<1>9. CASE UNCHANGED vars
  BY <1>0, <1>9 DEF vars
<1> QED
  BY <1>1, <1>2, <1>3, <1>4, <1>5, <1>6, <1>7, <1>8, <1>9 DEF Next, Proceed

\* While the breaker is open its count is bounded (breaker.rs:124, a u32): a
\* failure is paid for with an attempt that a call let in before still had.
THEOREM FailuresStayBounded == Spec => []FailuresAreBounded
<1>1. Init => IInv /\ FailuresAreBounded
  BY InitIInv, InitBounded
<1>2. (IInv /\ FailuresAreBounded) /\ [Next]_vars => (IInv /\ FailuresAreBounded)'
  BY NextIInv, NextBounded
<1>3. IInv /\ FailuresAreBounded => FailuresAreBounded
  OBVIOUS
<1> QED
  BY <1>1, <1>2, <1>3, PTL DEF Spec
=============================================================================
