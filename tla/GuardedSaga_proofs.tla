------------------------- MODULE GuardedSaga_proofs -------------------------
(***************************************************************************)
(* Proofs about GuardedSaga: sagas whose agent calls go through the shared *)
(* breaker and are repeated, for any number of calls on any hosts, any     *)
(* threshold, cooldown and attempt budget, whatever the hosts do.          *)
(*                                                                         *)
(* The history in faults is tied to the state of the program: all is the   *)
(* count of the breaker, own is what the guarded call a saga is waiting    *)
(* for has spent of its budget.                                            *)
(***************************************************************************)
EXTENDS GuardedSaga, SagaExecutor_proofs, ResilientAgent_proofs

FaultTypeOK ==
  faults \in [all : 0..Threshold, own : [Calls -> 0..OwnBound], storm : BOOLEAN]

\* all is the breaker's own count, as far as it goes.
AllIsTheCount == faults.all = Capped(breaker.failures, Threshold)

\* The attempts of a guarded call that have failed.
Spent(g) == CASE g.pc = "out"     -> 0
              [] g.pc = "trying"  -> g.attempt - 1
              [] g.pc = "backoff" -> g.attempt

\* What the failing step and n compensations may have spent.
Allowed(n) == MaxAttempts * (1 + n)

\* Only a saga that awaits an agent call is in one.  A saga that goes forward
\* has had a success since its last fault, or waits for the call the fault was
\* in.  One that compensates may carry the faults of the step that failed, and of
\* each compensation that failed since.
Spending(c) ==
  /\ At(c, "out") \/ Awaiting(c)
  /\ InPhase(c, "idle") \/ InPhase(c, "forward") => faults.own[c] = Spent(guard[c])
  /\ InPhase(c, "forward") => Len(trail[c]) = saga[c].done
  /\ InPhase(c, "undo") => /\ FailedUndos(c) \in Nat
                           /\ faults.own[c] <= Allowed(FailedUndos(c)) + Spent(guard[c])

Spendings == \A c \in Calls : Spending(c)

\* A call that has seen nothing go wrong.
Unharmed(c) ==
  \/ InPhase(c, "idle") \/ InPhase(c, "forward")
  \/ InPhase(c, "returned") /\ saga[c].status = "Succeeded"

Calm == ~faults.storm =>
          breaker.state = "Closed" /\ \A c \in Calls : Unharmed(c)

GInv == SagaTypeOK /\ IInv /\ FaultTypeOK /\ AllIsTheCount /\ Spendings /\ Calm

-----------------------------------------------------------------------------
(***************************************************************************)
(* A step of the composition is one of the agent, and keeps the types of   *)
(* the saga.                                                               *)
(***************************************************************************)
LEMMA AgentStep == ASSUME GuardedNext PROVE [Next]_vars
<1>1. Callers = Calls
  BY GuardedAssumption
<1>2. CASE Surroundings
  BY <1>2 DEF Surroundings, Next
<1>3. ASSUME NEW c \in Calls, Enter(c) PROVE [Next]_vars
  BY <1>3 DEF Enter
<1>4. ASSUME NEW c \in Calls, GuardedStep(c) PROVE [Next]_vars
  <2>1. CASE TurnedAway(c)
    BY <1>1, <2>1 DEF TurnedAway, Next
  <2>2. CASE LetIn(c)
    BY <1>1, <2>2 DEF LetIn, Next
  <2>3. CASE Answered(c)
    BY <1>1, <2>3 DEF Answered, Next, Proceed
  <2>4. CASE Repeated(c)
    BY <1>1, <2>4 DEF Repeated, Next, Proceed
  <2>5. CASE NothingToUndo(c)
    BY <2>5 DEF NothingToUndo
  <2>6. ASSUME NEW e \in PortErrors, Faulted(c, e) PROVE [Next]_vars
    BY <1>1, <2>6 DEF Faulted, Next, Proceed
  <2> QED
    BY <1>4, <2>1, <2>2, <2>3, <2>4, <2>5, <2>6 DEF GuardedStep
<1> QED
  BY <1>2, <1>3, <1>4 DEF GuardedNext

LEMMA SagaStepType ==
  ASSUME SagaTypeOK, Spendings, GuardedNext
  PROVE  SagaTypeOK'
<1>0. fleet \in Fleets
  BY DEF SagaTypeOK, Fleets
<1>1. ASSUME UNCHANGED sagaVars PROVE SagaTypeOK'
  BY <1>0, <1>1, FleetOnlyType DEF sagaVars
<1>2. CASE Surroundings
  BY <1>1, <1>2 DEF Surroundings
<1>3. ASSUME NEW c \in Calls, Enter(c) PROVE SagaTypeOK'
  <2>1. PICK job \in Orders[c] : Begin(c, job)
    BY <1>3 DEF Enter
  <2>2. job \in Jobs
    BY GuardedAssumption
  <2> QED
    BY <2>1, <2>2, BeginType
<1>4. ASSUME NEW c \in Calls, GuardedStep(c) PROVE SagaTypeOK'
  <2>1. ASSUME CallFails(c) PROVE SagaTypeOK'
    BY <2>1, StepType DEF CallFails, RunStep
  <2>2. ASSUME StepSucceeds(c) \/ UndoSucceeds(c) PROVE SagaTypeOK'
    BY <2>2, StepType DEF RunStep
  <2>3. ASSUME NEW e \in PortErrors, Faulted(c, e) PROVE SagaTypeOK'
    <3>0. Awaiting(c)
      BY <2>3 DEF Faulted, AttemptFails, At, Spendings, Spending
    <3>1. CASE fleet' \in AfterFailure(c) /\ UNCHANGED <<saga, trail>>
      BY <3>0, <3>1, AttemptType
    <3>2. CASE CallFails(c)
      BY <2>1, <3>2
    <3> QED
      BY <2>3, <3>1, <3>2 DEF Faulted
  <2> QED
    BY <1>1, <1>4, <2>1, <2>2, <2>3
    DEF GuardedStep, TurnedAway, LetIn, Answered, Repeated, NothingToUndo
<1> QED
  BY <1>2, <1>3, <1>4 DEF GuardedNext

-----------------------------------------------------------------------------
(***************************************************************************)
(* The count of the breaker, and the history that goes with it.            *)
(***************************************************************************)
LEMMA CappedFacts ==
  ASSUME NEW n \in Nat, NEW bound \in Nat
  PROVE  /\ Capped(n, bound) \in 0..bound
         /\ Capped(Capped(n, bound) + 1, bound) = Capped(n + 1, bound)
         /\ n <= bound => Capped(n, bound) = n
         /\ n >= bound => Capped(n, bound) = bound
         /\ Capped(n, bound) <= n
BY DEF Capped

LEMMA OwnBoundFacts ==
  /\ OwnBound \in Nat /\ MaxAttempts \in Nat /\ Threshold \in Nat
  /\ MaxAttempts >= 1 /\ Threshold >= 1 /\ MaxAttempts <= OwnBound
BY BreakerAssumption, AgentAssumption DEF OwnBound

LEMMA AllowedFacts ==
  ASSUME NEW n \in Nat
  PROVE  /\ Allowed(n) \in Nat /\ Allowed(n + 1) = Allowed(n) + MaxAttempts
         /\ Allowed(0) = MaxAttempts
BY OwnBoundFacts DEF Allowed

\* An observation counts nothing, and a closed breaker is as it was.
LEMMA RefreshCounts ==
  ASSUME NEW b \in Breaker
  PROVE  /\ Refresh(b).failures = b.failures
         /\ b.state = "Closed" => Refresh(b) = b
         /\ ~Admits(b) => b.state = "Open" /\ b.state # "Closed"
BY DEF Refresh, Admits, Breaker

LEMMA SuccessCounts ==
  ASSUME NEW b \in Breaker
  PROVE  OnSuccess(b).failures = 0 /\ OnSuccess(b).state = "Closed"
BY DEF OnSuccess, Breaker

\* A failure counts one, as far as the history goes, and a closed breaker stays
\* closed below its threshold.
LEMMA FailureCounts ==
  ASSUME NEW b, Sound(b)
  PROVE  LET all == Capped(Capped(b.failures, Threshold) + 1, Threshold) IN
         /\ Capped(OnFailure(b).failures, Threshold) = all
         /\ all # Threshold /\ b.state = "Closed" => OnFailure(b).state = "Closed"
<1> DEFINE all == Capped(Capped(b.failures, Threshold) + 1, Threshold)
<1>0. b.failures \in Nat /\ Threshold \in Nat
  BY BreakerAssumption DEF Sound, Breaker
<1>1. all = Capped(b.failures + 1, Threshold)
  BY <1>0, CappedFacts
<1>2. CASE b.state = "HalfOpen"
  <2>1. OnFailure(b).failures = Threshold /\ b.failures >= Threshold
    BY <1>0, <1>2 DEF OnFailure, Opened, Sound
  <2> QED
    BY <1>0, <1>1, <1>2, <2>1 DEF Capped
<1>3. CASE b.state # "HalfOpen" /\ b.failures + 1 >= Threshold
  <2>1. OnFailure(b).failures = b.failures + 1
    BY <1>3 DEF OnFailure, Opened
  <2>2. all = Threshold
    BY <1>0, <1>1, <1>3 DEF Capped
  <2> QED
    BY <1>1, <2>1, <2>2
<1>4. CASE b.state # "HalfOpen" /\ ~(b.failures + 1 >= Threshold)
  <2>1. OnFailure(b).failures = b.failures + 1 /\ OnFailure(b).state = b.state
    BY <1>4 DEF OnFailure, Sound, Breaker
  <2> QED
    BY <1>1, <2>1
<1> QED
  BY <1>2, <1>3, <1>4

\* What a fault and a success write, call by call.
LEMMA FaultWrites ==
  ASSUME FaultTypeOK, NEW c \in Calls, NEW e, Fault(c, e)
  PROVE  /\ FaultTypeOK'
         /\ faults'.all = Capped(faults.all + 1, Threshold)
         /\ faults'.own[c] = Capped(faults.own[c] + 1, OwnBound)
         /\ \A d \in Calls \ {c} : faults'.own[d] = faults.own[d]
         /\ ~faults'.storm => /\ ~faults.storm /\ Retryable(e)
                              /\ faults'.all # Threshold
                              /\ faults'.own[c] < MaxAttempts
<1> DEFINE all == Capped(faults.all + 1, Threshold)
           own == Capped(faults.own[c] + 1, OwnBound)
           owns == [faults.own EXCEPT ![c] = own]
           storm == \/ faults.storm \/ ~Retryable(e)
                    \/ all = Threshold \/ own >= MaxAttempts
<1>1. /\ faults.all \in 0..Threshold /\ faults.own \in [Calls -> 0..OwnBound]
      /\ faults.own[c] \in 0..OwnBound /\ faults.storm \in BOOLEAN
      /\ faults.all + 1 \in Nat /\ faults.own[c] + 1 \in Nat
  BY OwnBoundFacts DEF FaultTypeOK
<1>2. all \in 0..Threshold /\ own \in 0..OwnBound
  BY <1>1, OwnBoundFacts, CappedFacts
<1>3. owns \in [Calls -> 0..OwnBound] /\ owns[c] = own
      /\ \A d \in Calls \ {c} : owns[d] = faults.own[d]
  BY <1>1, <1>2
<1>4. storm \in BOOLEAN
  OBVIOUS
<1>5. ~storm => ~faults.storm /\ Retryable(e) /\ all # Threshold /\ own < MaxAttempts
  BY <1>2, OwnBoundFacts
<1>6. faults' = [all |-> all, own |-> owns, storm |-> storm]
  BY DEF Fault
<1> HIDE DEF all, own, owns, storm
<1>7. faults'.all = all /\ faults'.own = owns /\ faults'.storm = storm
  BY <1>6
<1>8. FaultTypeOK'
  BY <1>2, <1>3, <1>4, <1>6 DEF FaultTypeOK
<1> QED
  BY <1>3, <1>5, <1>7, <1>8 DEF all, own

LEMMA NoFaultWrites ==
  ASSUME FaultTypeOK, NEW c \in Calls, NoFault(c)
  PROVE  /\ FaultTypeOK'
         /\ faults'.all = 0 /\ faults'.own[c] = 0
         /\ \A d \in Calls \ {c} : faults'.own[d] = faults.own[d]
         /\ faults'.storm = faults.storm
<1>1. 0 \in 0..Threshold /\ 0 \in 0..OwnBound
  BY OwnBoundFacts
<1> QED
  BY <1>1 DEF FaultTypeOK, NoFault

LEMMA CountStep ==
  ASSUME IInv, FaultTypeOK, AllIsTheCount, GuardedNext
  PROVE  FaultTypeOK' /\ AllIsTheCount'
<1>0. /\ Sound(breaker) /\ breaker \in Breaker /\ breaker.failures \in Nat
      /\ faults.all = Capped(breaker.failures, Threshold)
  BY DEF IInv, TypeOK, ClosedBelowThreshold, Sound, AllIsTheCount, Breaker
<1>1. ASSUME breaker'.failures = breaker.failures, UNCHANGED faults
      PROVE  FaultTypeOK' /\ AllIsTheCount'
  BY <1>1 DEF FaultTypeOK, AllIsTheCount
<1>2. CASE Surroundings
  <2>1. breaker'.failures = breaker.failures
    BY <1>0, <1>2, RefreshCounts DEF Surroundings, Tick, Older, Breaker, Observe, HostsChange
  <2> QED
    BY <1>1, <1>2, <2>1 DEF Surroundings
<1>3. ASSUME NEW c \in Calls, Enter(c) PROVE FaultTypeOK' /\ AllIsTheCount'
  BY <1>1, <1>3 DEF Enter, vars
<1>4. ASSUME NEW c \in Calls, GuardedStep(c) PROVE FaultTypeOK' /\ AllIsTheCount'
  <2>1. CASE TurnedAway(c) \/ LetIn(c)
    <3>1. breaker' = Refresh(breaker) /\ UNCHANGED faults
      BY <2>1 DEF TurnedAway, LetIn, Acquire
    <3> QED
      BY <1>0, <1>1, <3>1, RefreshCounts
  <2>2. CASE Answered(c)
    <3>1. breaker' = OnSuccess(breaker) /\ NoFault(c)
      BY <2>2 DEF Answered, AttemptSucceeds
    <3>2. Capped(0, Threshold) = 0
      BY OwnBoundFacts, CappedFacts
    <3> QED
      BY <1>0, <3>1, <3>2, SuccessCounts, NoFaultWrites DEF AllIsTheCount
  <2>3. CASE Repeated(c) \/ NothingToUndo(c)
    BY <1>1, <2>3 DEF Repeated, Retry, NothingToUndo, vars
  <2>4. ASSUME NEW e \in PortErrors, Faulted(c, e) PROVE FaultTypeOK' /\ AllIsTheCount'
    <3>1. breaker' = OnFailure(breaker) /\ Fault(c, e)
      BY <2>4 DEF Faulted, AttemptFails
    <3> QED
      BY <1>0, <3>1, FailureCounts, FaultWrites DEF AllIsTheCount
  <2> QED
    BY <1>4, <2>1, <2>2, <2>3, <2>4 DEF GuardedStep
<1> QED
  BY <1>2, <1>3, <1>4 DEF GuardedNext

-----------------------------------------------------------------------------
(***************************************************************************)
(* The accounts of the calls.                                              *)
(***************************************************************************)
\* The tally after one more compensation, with and without its event.
LEMMA OneTallied ==
  ASSUME NEW c \in Calls, saga[c].done \in Nat, saga[c].left \in Nat, Len(trail[c]) \in Nat,
         saga'[c].done = saga[c].done, saga'[c].left = saga[c].left - 1
  PROVE  /\ Len(trail'[c]) = Len(trail[c]) + 1 => FailedUndos(c)' = FailedUndos(c)
         /\ trail' = trail => FailedUndos(c)' = FailedUndos(c) + 1
<1> DEFINE d == saga[c].done
           l == saga[c].left
           n == Len(trail[c])
           m == Len(trail'[c])
<1>1. FailedUndos(c) = (d - l) - (n - d) /\ FailedUndos(c)' = (d - (l - 1)) - (m - d)
  BY DEF FailedUndos
<1>2. d \in Nat /\ l \in Nat /\ n \in Nat
  OBVIOUS
<1>3. trail' = trail => m = n
  OBVIOUS
<1> HIDE DEF d, l, n, m
<1>4. m = n + 1 => (d - (l - 1)) - (m - d) = (d - l) - (n - d)
  BY <1>2
<1>5. m = n => (d - (l - 1)) - (m - d) = (d - l) - (n - d) + 1
  BY <1>2
<1> QED
  BY <1>1, <1>3, <1>4, <1>5 DEF m, n

\* What an answer and an error do to the phase of a saga and to its tally of
\* failed compensations.
LEMMA SagaMoves ==
  ASSUME SagaTypeOK, NEW c \in Calls
  PROVE  /\ StepSucceeds(c) =>
              /\ \/ InPhase(c, "forward")'
                 \/ InPhase(c, "returned")' /\ saga'[c].status = "Succeeded"
              /\ Len(trail[c]) = saga[c].done => Len(trail'[c]) = saga'[c].done
         /\ UndoSucceeds(c) =>
              /\ InPhase(c, "undo")' \/ InPhase(c, "returned")'
              /\ FailedUndos(c)' = FailedUndos(c)
         /\ CallFails(c) => InPhase(c, "undo")' \/ InPhase(c, "returned")'
         /\ UndoFails(c) => FailedUndos(c)' = FailedUndos(c) + 1
         /\ StepFails(c) /\ Len(trail[c]) = saga[c].done /\ InPhase(c, "undo")' =>
              FailedUndos(c)' = 0
<1>0. saga \in [Calls -> {Idle} \cup SagaRecord] /\ trail \in [Calls -> Seq(Event)]
  BY DEF SagaTypeOK
<1> DEFINE s == saga[c]
<1>1. ASSUME InPhase(c, "forward") \/ InPhase(c, "undo")
      PROVE  /\ s \in SagaRecord /\ s.done \in Nat /\ s.left \in Nat
             /\ Len(trail[c]) \in Nat
  <2>1. s \in SagaRecord
    BY <1>1, BusyCall DEF InPhase
  <2>2. s.done \in Nat /\ s.left \in Nat
    BY <2>1 DEF SagaRecord
  <2> QED
    BY <1>0, <2>1, <2>2
<1>t. ASSUME NEW e, trail' = [trail EXCEPT ![c] = Append(@, e)]
      PROVE  Len(trail'[c]) = Len(trail[c]) + 1
  <2>1. trail[c] \in Seq(Event) /\ trail'[c] = Append(trail[c], e)
    BY <1>0, <1>t
  <2> QED
    BY <2>1
<1>2. ASSUME StepSucceeds(c)
      PROVE  /\ \/ InPhase(c, "forward")'
                \/ InPhase(c, "returned")' /\ saga'[c].status = "Succeeded"
             /\ Len(trail[c]) = saga[c].done => Len(trail'[c]) = saga'[c].done
  <2>1. saga'[c] = AfterStep(s, s.done + 1 = Len(Plan(c))) /\ s \in SagaRecord
    BY <1>0, <1>1, <1>2 DEF StepSucceeds
  <2>2. saga'[c].done = s.done + 1
    BY <2>1 DEF AfterStep, SagaRecord
  <2>3. Len(trail'[c]) = Len(trail[c]) + 1
    BY <1>2, <1>t DEF StepSucceeds
  <2> QED
    BY <2>1, <2>2, <2>3 DEF AfterStep, SagaRecord, InPhase
<1>3. ASSUME UndoSucceeds(c)
      PROVE  /\ InPhase(c, "undo")' \/ InPhase(c, "returned")'
             /\ FailedUndos(c)' = FailedUndos(c)
  <2>1. saga'[c] = AfterUndo(s, TRUE) /\ s \in SagaRecord
    BY <1>0, <1>1, <1>3 DEF UndoSucceeds
  <2>2. saga'[c].done = s.done /\ saga'[c].left = s.left - 1
    BY <2>1 DEF AfterUndo, SagaRecord
  <2>3. Len(trail'[c]) = Len(trail[c]) + 1
    BY <1>3, <1>t DEF UndoSucceeds
  <2>4. s.done \in Nat /\ s.left \in Nat /\ Len(trail[c]) \in Nat
    BY <1>1, <1>3 DEF UndoSucceeds
  <2>5. FailedUndos(c)' = FailedUndos(c)
    BY <2>2, <2>3, <2>4, OneTallied
  <2> QED
    BY <2>1, <2>5 DEF AfterUndo, SagaRecord, InPhase
<1>4. ASSUME UndoFails(c)
      PROVE  /\ InPhase(c, "undo")' \/ InPhase(c, "returned")'
             /\ FailedUndos(c)' = FailedUndos(c) + 1
  <2>1. saga'[c] = AfterUndo(s, FALSE) /\ s \in SagaRecord /\ trail' = trail
    BY <1>0, <1>1, <1>4 DEF UndoFails
  <2>2. saga'[c].done = s.done /\ saga'[c].left = s.left - 1
    BY <2>1 DEF AfterUndo, SagaRecord
  <2>3. s.done \in Nat /\ s.left \in Nat /\ Len(trail[c]) \in Nat
    BY <1>1, <1>4 DEF UndoFails
  <2>4. FailedUndos(c)' = FailedUndos(c) + 1
    BY <2>1, <2>2, <2>3, OneTallied
  <2> QED
    BY <2>1, <2>4 DEF AfterUndo, SagaRecord, InPhase
<1>5. ASSUME StepFails(c)
      PROVE  /\ InPhase(c, "undo")' \/ InPhase(c, "returned")'
             /\ Len(trail[c]) = saga[c].done /\ InPhase(c, "undo")' => FailedUndos(c)' = 0
  <2>1. saga'[c] = StartUndo(s) /\ s \in SagaRecord /\ trail' = trail
    BY <1>0, <1>1, <1>5 DEF StepFails
  <2>2. InPhase(c, "undo")' => saga'[c].done = s.done /\ saga'[c].left = s.done
    BY <2>1 DEF StartUndo, SagaRecord, InPhase
  <2>3. s.done \in Nat
    BY <1>1, <1>5 DEF StepFails
  <2> QED
    BY <2>1, <2>2, <2>3 DEF StartUndo, SagaRecord, InPhase, FailedUndos
<1> QED
  BY <1>2, <1>3, <1>4, <1>5 DEF CallFails

\* A step of one call leaves the saga, the trail, the guarded call and the history
\* of the others alone.
LEMMA Elsewhere ==
  ASSUME GInv, NEW c \in Calls, Enter(c) \/ GuardedStep(c), NEW d \in Calls, d # c
  PROVE  /\ saga'[d] = saga[d] /\ trail'[d] = trail[d]
         /\ guard'[d] = guard[d] /\ faults'.own[d] = faults.own[d]
<1>0. /\ saga \in [Calls -> {Idle} \cup SagaRecord] /\ guard \in [Calls -> GuardRecord]
      /\ trail \in [Calls -> Seq(Event)] /\ FaultTypeOK
  BY GuardedAssumption DEF GInv, SagaTypeOK, IInv, TypeOK
<1>1. CASE Enter(c)
  BY <1>0, <1>1 DEF Enter, Begin, vars
<1>2. ASSUME StepSucceeds(c) \/ UndoSucceeds(c) \/ CallFails(c)
      PROVE  saga'[d] = saga[d] /\ trail'[d] = trail[d]
  BY <1>0, <1>2 DEF StepSucceeds, UndoSucceeds, CallFails, StepFails, UndoFails
<1>3. CASE TurnedAway(c) \/ LetIn(c)
  BY <1>0, <1>2, <1>3 DEF TurnedAway, LetIn, Acquire, sagaVars
<1>4. CASE Answered(c)
  BY <1>0, <1>2, <1>4, NoFaultWrites DEF Answered, AttemptSucceeds
<1>5. CASE Repeated(c)
  BY <1>0, <1>5 DEF Repeated, Retry, sagaVars
<1>6. CASE NothingToUndo(c)
  BY <1>0, <1>2, <1>6 DEF NothingToUndo, vars
<1>7. ASSUME NEW e \in PortErrors, Faulted(c, e)
      PROVE  /\ saga'[d] = saga[d] /\ trail'[d] = trail[d]
             /\ guard'[d] = guard[d] /\ faults'.own[d] = faults.own[d]
  <2>1. guard'[d] = guard[d]
    BY <1>0, <1>7 DEF Faulted, AttemptFails
  <2>2. faults'.own[d] = faults.own[d]
    BY <1>0, <1>7, FaultWrites DEF Faulted
  <2> QED
    BY <1>2, <1>7, <2>1, <2>2 DEF Faulted
<1> QED
  BY <1>1, <1>3, <1>4, <1>5, <1>6, <1>7 DEF GuardedStep

LEMMA SameSpending ==
  ASSUME NEW c \in Calls, Spending(c), saga'[c] = saga[c], trail'[c] = trail[c],
         guard'[c] = guard[c], faults'.own[c] = faults.own[c]
  PROVE  Spending(c)'
BY DEF Spending, At, InPhase, Awaiting, Awaited, Plan, FailedUndos

\* A guarded call that has just ended, with what is left on its account.
LEMMA ClosedSpending ==
  ASSUME NEW c \in Calls, guard'[c].pc = "out",
         InPhase(c, "idle")' \/ InPhase(c, "forward")' => faults'.own[c] = 0,
         InPhase(c, "forward")' => Len(trail'[c]) = saga'[c].done,
         InPhase(c, "undo")' =>
           FailedUndos(c)' \in Nat /\ faults'.own[c] <= Allowed(FailedUndos(c)')
  PROVE  Spending(c)'
<1>1. InPhase(c, "undo")' => Allowed(FailedUndos(c)') \in Nat
  BY AllowedFacts
<1>2. Spent(guard[c])' = 0
  BY DEF Spent
<1>3. InPhase(c, "undo")' =>
        /\ FailedUndos(c)' \in Nat
        /\ faults'.own[c] <= Allowed(FailedUndos(c)') + Spent(guard[c])'
  BY <1>1, <1>2
<1>4. InPhase(c, "idle")' \/ InPhase(c, "forward")' => faults'.own[c] = Spent(guard[c])'
  BY <1>2
<1> QED
  BY <1>3, <1>4 DEF Spending, At, Allowed

\* One that goes on, and what it has spent more.
LEMMA OpenSpending ==
  ASSUME NEW c \in Calls, Spending(c), saga'[c] = saga[c], trail'[c] = trail[c],
         Awaiting(c), guard'[c].pc # "out",
         InPhase(c, "forward") => faults'.own[c] = Spent(guard'[c]),
         InPhase(c, "undo") => faults'.own[c] <= Allowed(FailedUndos(c)) + Spent(guard'[c])
  PROVE  Spending(c)'
<1>1. /\ InPhase(c, "idle")' <=> InPhase(c, "idle")
      /\ InPhase(c, "forward")' <=> InPhase(c, "forward")
      /\ InPhase(c, "undo")' <=> InPhase(c, "undo")
      /\ Awaiting(c)' /\ ~InPhase(c, "idle")
      /\ FailedUndos(c)' = FailedUndos(c)
  BY DEF InPhase, Awaiting, Awaited, Plan, FailedUndos
<1>2. Allowed(FailedUndos(c))' = Allowed(FailedUndos(c)) /\ Spent(guard[c])' = Spent(guard'[c])
  BY <1>1 DEF Allowed, Spent
<1> QED
  BY <1>1, <1>2 DEF Spending

\* The attempt under way is paid for out of the budget.
LEMMA FaultIsSpent ==
  ASSUME GInv, NEW c \in Calls, NEW e \in PortErrors, Faulted(c, e)
  PROVE  /\ Awaiting(c) /\ guard[c] \in GuardRecord
         /\ guard[c].pc = "trying" /\ guard[c].attempt \in 1..MaxAttempts
         /\ InPhase(c, "forward") => faults'.own[c] = guard[c].attempt
         /\ InPhase(c, "undo") => faults'.own[c] <= Allowed(FailedUndos(c)) + guard[c].attempt
<1>1. /\ guard[c] \in GuardRecord /\ Spending(c) /\ Counted(guard[c]) /\ FaultTypeOK
      /\ faults.own[c] \in 0..OwnBound
  BY GuardedAssumption DEF GInv, IInv, TypeOK, WithinBudget, Spendings, FaultTypeOK
<1>2. guard[c].pc = "trying" /\ Fault(c, e)
  BY DEF Faulted, AttemptFails, At
<1>3. guard[c].attempt \in 1..MaxAttempts /\ Awaiting(c)
  BY <1>1, <1>2 DEF Counted, Spending, At
<1>4. ASSUME InPhase(c, "forward") PROVE faults'.own[c] = guard[c].attempt
  <2>1. faults.own[c] = guard[c].attempt - 1
    BY <1>1, <1>2, <1>4 DEF Spending, Spent
  <2>2. faults'.own[c] = Capped(faults.own[c] + 1, OwnBound)
    BY <1>1, <1>2, FaultWrites
  <2>3. faults.own[c] + 1 = guard[c].attempt
    BY <1>3, <2>1, OwnBoundFacts
  <2>4. guard[c].attempt \in Nat /\ guard[c].attempt <= OwnBound
    BY <1>3, OwnBoundFacts
  <2>5. Capped(guard[c].attempt, OwnBound) = guard[c].attempt
    BY <2>4, OwnBoundFacts, CappedFacts
  <2> QED
    BY <2>2, <2>3, <2>5
<1>5. ASSUME InPhase(c, "undo")
      PROVE  faults'.own[c] <= Allowed(FailedUndos(c)) + guard[c].attempt
  <2>1. /\ FailedUndos(c) \in Nat
        /\ faults.own[c] <= Allowed(FailedUndos(c)) + (guard[c].attempt - 1)
    BY <1>1, <1>2, <1>5 DEF Spending, Spent
  <2>2. faults'.own[c] = Capped(faults.own[c] + 1, OwnBound)
    BY <1>1, <1>2, FaultWrites
  <2>3. faults.own[c] \in Nat /\ faults'.own[c] <= faults.own[c] + 1 /\ faults'.own[c] \in Nat
    <3>1. OwnBound \in Nat /\ faults.own[c] \in Nat /\ faults.own[c] + 1 \in Nat
      BY <1>1, OwnBoundFacts
    <3>2. Capped(faults.own[c] + 1, OwnBound) \in 0..OwnBound
      BY <3>1, CappedFacts
    <3>3. Capped(faults.own[c] + 1, OwnBound) <= faults.own[c] + 1
      BY <3>1, CappedFacts
    <3> QED
      BY <2>2, <3>1, <3>2, <3>3
  <2>4. Allowed(FailedUndos(c)) \in Nat /\ guard[c].attempt \in Nat
    BY <1>3, <2>1, AllowedFacts
  <2> QED
    BY <2>1, <2>3, <2>4
<1> QED
  BY <1>1, <1>2, <1>3, <1>4, <1>5

LEMMA OwnSpending ==
  ASSUME GInv, NEW c \in Calls, Enter(c) \/ GuardedStep(c)
  PROVE  Spending(c)'
<1>0. /\ SagaTypeOK /\ saga \in [Calls -> {Idle} \cup SagaRecord]
      /\ trail \in [Calls -> Seq(Event)]
      /\ guard \in [Calls -> GuardRecord] /\ guard[c] \in GuardRecord
      /\ Counted(guard[c]) /\ Spending(c) /\ FaultTypeOK /\ faults.own[c] \in 0..OwnBound
      /\ faults.own[c] \in Nat
  BY GuardedAssumption, OwnBoundFacts
  DEF GInv, SagaTypeOK, IInv, TypeOK, WithinBudget, Spendings, FaultTypeOK
<1>u. InPhase(c, "undo") =>
        /\ FailedUndos(c) \in Nat /\ Allowed(FailedUndos(c)) \in Nat
        /\ faults.own[c] <= Allowed(FailedUndos(c)) + Spent(guard[c])
        /\ FailedUndos(c) + 1 \in Nat
        /\ Allowed(FailedUndos(c) + 1) = Allowed(FailedUndos(c)) + MaxAttempts
  <2>1. InPhase(c, "undo") =>
          /\ FailedUndos(c) \in Nat
          /\ faults.own[c] <= Allowed(FailedUndos(c)) + Spent(guard[c])
    BY <1>0 DEF Spending
  <2>2. FailedUndos(c) \in Nat =>
          /\ Allowed(FailedUndos(c)) \in Nat /\ FailedUndos(c) + 1 \in Nat
          /\ Allowed(FailedUndos(c) + 1) = Allowed(FailedUndos(c)) + MaxAttempts
    BY AllowedFacts
  <2> QED
    BY <2>1, <2>2
<1>f. InPhase(c, "forward") =>
        faults.own[c] = Spent(guard[c]) /\ Len(trail[c]) = saga[c].done
  BY <1>0 DEF Spending
<1>a. 0 <= Allowed(0) /\ Allowed(0) = MaxAttempts /\ MaxAttempts \in Nat
  BY OwnBoundFacts, AllowedFacts
<1>p. /\ ~(InPhase(c, "undo")' /\ (InPhase(c, "forward")' \/ InPhase(c, "idle")'))
      /\ ~(InPhase(c, "returned")' /\ (InPhase(c, "forward")' \/ InPhase(c, "idle")'))
      /\ ~(InPhase(c, "forward")' /\ InPhase(c, "idle")')
      /\ ~(InPhase(c, "undo")' /\ InPhase(c, "returned")')
  BY DEF InPhase
<1>1. CASE Enter(c)
  <2>1. PICK job \in Orders[c] : Begin(c, job)
    BY <1>1 DEF Enter
  <2>2. /\ saga'[c] = Entered(job) /\ trail'[c] = << >> /\ InPhase(c, "idle")
    BY <1>0, <2>1 DEF Begin
  <2>3. guard[c].pc = "out" /\ faults.own[c] = 0
    BY <1>0, <2>2 DEF Spending, At, Awaiting, InPhase, Spent
  <2>4. guard'[c].pc = "out" /\ faults'.own[c] = 0
    BY <1>1, <2>3 DEF Enter, vars
  <2>5. InPhase(c, "forward")' /\ saga'[c].done = 0 /\ Len(trail'[c]) = 0
    BY <2>2 DEF Entered, InPhase
  <2> QED
    BY <1>p, <2>4, <2>5, ClosedSpending
<1>2. CASE TurnedAway(c)
  <2>1. guard'[c].pc = "out" /\ guard[c].pc = "out" /\ faults' = faults /\ CallFails(c)
    BY <1>0, <1>2 DEF TurnedAway, Acquire, At, Ended, Fresh
  <2>2. InPhase(c, "undo")' \/ InPhase(c, "returned")'
    BY <1>0, <2>1, SagaMoves
  <2>3. Spent(guard[c]) = 0
    BY <2>1 DEF Spent
  <2>4. CASE StepFails(c)
    <3>1. faults'.own[c] = 0 /\ Len(trail[c]) = saga[c].done
      BY <1>f, <2>1, <2>3, <2>4 DEF StepFails
    <3>2. InPhase(c, "undo")' => FailedUndos(c)' = 0
      BY <1>0, <2>4, <3>1, SagaMoves
    <3> QED
      BY <1>a, <1>p, <2>1, <2>2, <3>1, <3>2, ClosedSpending
  <2>5. CASE UndoFails(c)
    <3>1. FailedUndos(c)' = FailedUndos(c) + 1 /\ InPhase(c, "undo")
      BY <1>0, <2>5, SagaMoves DEF UndoFails
    <3>2. FailedUndos(c)' \in Nat /\ faults'.own[c] <= Allowed(FailedUndos(c)')
      BY <1>0, <1>a, <1>u, <2>1, <2>3, <3>1
    <3> QED
      BY <1>p, <2>1, <2>2, <3>2, ClosedSpending
  <2> QED
    BY <2>1, <2>4, <2>5 DEF CallFails
<1>3. CASE LetIn(c)
  <2>1. /\ saga' = saga /\ trail' = trail /\ faults' = faults
        /\ Awaiting(c) /\ guard[c].pc = "out"
        /\ guard'[c] = [pc |-> "trying", attempt |-> 1, result |-> "none"]
    BY <1>0, <1>3 DEF LetIn, Acquire, At, sagaVars
  <2>2. guard'[c].pc = "trying" /\ Spent(guard'[c]) = 0 /\ Spent(guard[c]) = 0
    BY <2>1 DEF Spent
  <2> QED
    BY <1>0, <1>u, <1>f, <2>1, <2>2, OpenSpending
<1>4. CASE Answered(c)
  <2>1. guard'[c].pc = "out" /\ faults'.own[c] = 0
    BY <1>0, <1>4, NoFaultWrites DEF Answered, AttemptSucceeds, Ended, Fresh
  <2>2. CASE StepSucceeds(c)
    <3>1. /\ InPhase(c, "forward")' \/ InPhase(c, "returned")'
          /\ Len(trail'[c]) = saga'[c].done
      BY <1>0, <1>f, <2>2, SagaMoves DEF StepSucceeds
    <3> QED
      BY <1>p, <2>1, <3>1, ClosedSpending
  <2>3. CASE UndoSucceeds(c)
    <3>1. /\ InPhase(c, "undo")' \/ InPhase(c, "returned")'
          /\ FailedUndos(c)' = FailedUndos(c) /\ InPhase(c, "undo")
      BY <1>0, <2>3, SagaMoves DEF UndoSucceeds
    <3>2. FailedUndos(c)' \in Nat /\ faults'.own[c] <= Allowed(FailedUndos(c)')
      BY <1>u, <2>1, <3>1
    <3> QED
      BY <1>p, <2>1, <3>1, <3>2, ClosedSpending
  <2> QED
    BY <1>4, <2>2, <2>3 DEF Answered
<1>5. CASE Repeated(c)
  <2>1. /\ saga' = saga /\ trail' = trail /\ faults' = faults /\ guard[c].pc = "backoff"
        /\ guard'[c] = [guard[c] EXCEPT !.pc = "trying", !.attempt = @ + 1]
    BY <1>0, <1>5 DEF Repeated, Retry, At, sagaVars
  <2>2. Awaiting(c) /\ Spent(guard[c]) = guard[c].attempt
    BY <1>0, <2>1 DEF Spending, At, Spent
  <2>3. guard[c].attempt \in 0..MaxAttempts
    BY <1>0 DEF GuardRecord
  <2>4. guard'[c].pc = "trying" /\ guard'[c].attempt = guard[c].attempt + 1
    BY <1>0, <2>1 DEF GuardRecord
  <2>5. Spent(guard'[c]) = guard[c].attempt
    BY <2>3, <2>4, OwnBoundFacts DEF Spent
  <2> QED
    BY <1>0, <1>u, <1>f, <2>1, <2>2, <2>4, <2>5, OpenSpending
<1>6. CASE NothingToUndo(c)
  <2>1. /\ guard' = guard /\ faults' = faults /\ ~Awaiting(c) /\ InPhase(c, "undo")
        /\ UndoSucceeds(c)
    BY <1>6 DEF NothingToUndo, vars
  <2>2. guard[c].pc = "out" /\ Spent(guard[c]) = 0
    BY <1>0, <2>1 DEF Spending, At, Spent
  <2>3. /\ InPhase(c, "undo")' \/ InPhase(c, "returned")'
        /\ FailedUndos(c)' = FailedUndos(c)
    BY <1>0, <2>1, SagaMoves
  <2>4. FailedUndos(c)' \in Nat /\ faults'.own[c] <= Allowed(FailedUndos(c)')
    BY <1>u, <2>1, <2>2, <2>3
  <2> QED
    BY <1>p, <2>1, <2>2, <2>3, <2>4, ClosedSpending
<1>7. ASSUME NEW e \in PortErrors, Faulted(c, e) PROVE Spending(c)'
  <2>0. /\ guard[c].attempt \in 1..MaxAttempts
        /\ InPhase(c, "forward") => faults'.own[c] = guard[c].attempt
        /\ InPhase(c, "undo") => faults'.own[c] <= Allowed(FailedUndos(c)) + guard[c].attempt
        /\ Awaiting(c)
    BY <1>7, FaultIsSpent
  <2>1. CASE MayRetry(c, e) /\ UNCHANGED <<saga, trail>>
    <3>1. guard'[c] = [guard[c] EXCEPT !.pc = "backoff"]
      BY <1>0, <1>7, <2>1 DEF Faulted, AttemptFails
    <3>2. guard'[c].pc = "backoff" /\ guard'[c].attempt = guard[c].attempt
      BY <1>0, <3>1 DEF GuardRecord
    <3>3. Spent(guard'[c]) = guard[c].attempt
      BY <3>2 DEF Spent
    <3> QED
      BY <1>0, <2>0, <2>1, <3>2, <3>3, OpenSpending
  <2>2. CASE ~MayRetry(c, e) /\ CallFails(c)
    <3>1. guard'[c].pc = "out"
      BY <1>0, <1>7, <2>2 DEF Faulted, AttemptFails, Ended, Fresh
    <3>2. InPhase(c, "undo")' \/ InPhase(c, "returned")'
      BY <1>0, <2>2, SagaMoves
    <3>3. faults'.own[c] \in Nat
      BY <1>0, <1>7, FaultWrites, OwnBoundFacts DEF Faulted, FaultTypeOK
    <3>4. CASE StepFails(c)
      <4>1. faults'.own[c] <= MaxAttempts /\ Len(trail[c]) = saga[c].done
        BY <1>f, <2>0, <3>4, OwnBoundFacts DEF StepFails
      <4>2. InPhase(c, "undo")' => FailedUndos(c)' = 0
        BY <1>0, <3>4, <4>1, SagaMoves
      <4> QED
        BY <1>a, <1>p, <3>1, <3>2, <4>1, <4>2, ClosedSpending
    <3>5. CASE UndoFails(c)
      <4>1. FailedUndos(c)' = FailedUndos(c) + 1 /\ InPhase(c, "undo")
        BY <1>0, <3>5, SagaMoves DEF UndoFails
      <4>2. FailedUndos(c)' \in Nat /\ faults'.own[c] <= Allowed(FailedUndos(c)')
        BY <1>a, <1>u, <2>0, <3>3, <4>1
      <4> QED
        BY <1>p, <3>1, <3>2, <4>2, ClosedSpending
    <3> QED
      BY <2>2, <3>4, <3>5 DEF CallFails
  <2> QED
    BY <1>7, <2>1, <2>2 DEF Faulted
<1> QED
  BY <1>1, <1>2, <1>3, <1>4, <1>5, <1>6, <1>7 DEF GuardedStep

LEMMA SpendingsStep ==
  ASSUME GInv, GuardedNext
  PROVE  Spendings'
<1> SUFFICES ASSUME NEW d \in Calls PROVE Spending(d)'
  BY DEF Spendings
<1>1. Spending(d)
  BY DEF GInv, Spendings
<1>2. CASE Surroundings
  BY <1>1, <1>2, SameSpending DEF Surroundings, Tick, Observe, HostsChange, sagaVars
<1>3. ASSUME NEW c \in Calls, Enter(c) \/ GuardedStep(c) PROVE Spending(d)'
  BY <1>1, <1>3, OwnSpending, Elsewhere, SameSpending
<1> QED
  BY <1>2, <1>3 DEF GuardedNext

-----------------------------------------------------------------------------
(***************************************************************************)
(* While there is no storm the breaker is closed, so no call is turned     *)
(* away, and each fault is repeated within its budget, so none is seen.    *)
(***************************************************************************)
LEMMA StaysUnharmed ==
  ASSUME NEW c \in Calls, Unharmed(c), saga'[c] = saga[c]
  PROVE  Unharmed(c)'
BY DEF Unharmed, InPhase

LEMMA CalmStep ==
  ASSUME GInv, GuardedNext
  PROVE  Calm'
<1> SUFFICES ASSUME ~faults'.storm
             PROVE  breaker'.state = "Closed" /\ \A c \in Calls : Unharmed(c)'
  BY DEF Calm
<1>0. /\ SagaTypeOK /\ Sound(breaker) /\ breaker \in Breaker /\ FaultTypeOK
      /\ saga \in [Calls -> {Idle} \cup SagaRecord]
      /\ faults.all = Capped(breaker.failures, Threshold)
  BY DEF GInv, SagaTypeOK, IInv, TypeOK, ClosedBelowThreshold, Sound, AllIsTheCount
<1>1. ~faults.storm => /\ breaker.state = "Closed" /\ Refresh(breaker) = breaker
                       /\ Admits(breaker)
                       /\ \A c \in Calls : Unharmed(c)
  BY <1>0, RefreshCounts DEF GInv, Calm
<1>2. CASE Surroundings
  <2>1. faults' = faults /\ saga' = saga
    BY <1>2 DEF Surroundings, sagaVars
  <2>2. breaker' = breaker
    BY <1>1, <1>2, <2>1 DEF Surroundings, Tick, Observe, HostsChange
  <2> QED
    BY <1>1, <2>1, <2>2, StaysUnharmed
<1>3. ASSUME NEW c \in Calls, Enter(c) \/ GuardedStep(c),
             ~faults.storm, breaker'.state = "Closed", Unharmed(c)'
      PROVE  breaker'.state = "Closed" /\ \A d \in Calls : Unharmed(d)'
  <2>1. ASSUME NEW d \in Calls, d # c PROVE Unharmed(d)'
    BY <1>1, <1>3, <2>1, Elsewhere, StaysUnharmed
  <2> QED
    BY <1>3, <2>1
<1>4. ASSUME NEW c \in Calls, Enter(c)
      PROVE  breaker'.state = "Closed" /\ \A d \in Calls : Unharmed(d)'
  <2>1. faults' = faults /\ breaker' = breaker
    BY <1>4 DEF Enter, vars
  <2>2. PICK job \in Orders[c] : Begin(c, job)
    BY <1>4 DEF Enter
  <2>3. Unharmed(c)'
    BY <1>0, <2>2 DEF Begin, Entered, Unharmed, InPhase
  <2> QED
    BY <1>1, <1>3, <1>4, <2>1, <2>3
<1>5. ASSUME NEW c \in Calls, GuardedStep(c)
      PROVE  breaker'.state = "Closed" /\ \A d \in Calls : Unharmed(d)'
  <2>1. CASE TurnedAway(c)
    BY <1>1, <2>1 DEF TurnedAway
  <2>2. CASE LetIn(c)
    <3>1. faults' = faults /\ saga' = saga /\ breaker' = Refresh(breaker)
      BY <2>2 DEF LetIn, Acquire, sagaVars
    <3> QED
      BY <1>1, <3>1, StaysUnharmed
  <2>3. CASE Answered(c)
    <3>1. faults'.storm = faults.storm /\ breaker' = OnSuccess(breaker)
      BY <1>0, <2>3, NoFaultWrites DEF Answered, AttemptSucceeds
    <3>2. ~UndoSucceeds(c)
      BY <1>1, <3>1 DEF Unharmed, InPhase, UndoSucceeds
    <3>3. Unharmed(c)'
      BY <1>0, <2>3, <3>2, SagaMoves DEF Answered, Unharmed
    <3> QED
      BY <1>0, <1>3, <1>5, <3>1, <3>3, SuccessCounts
  <2>4. CASE Repeated(c)
    <3>1. faults' = faults /\ saga' = saga /\ breaker' = breaker
      BY <2>4 DEF Repeated, Retry, sagaVars
    <3> QED
      BY <1>1, <3>1, StaysUnharmed
  <2>5. CASE NothingToUndo(c)
    BY <1>1, <2>5 DEF NothingToUndo, Unharmed, InPhase
  <2>6. ASSUME NEW e \in PortErrors, Faulted(c, e)
        PROVE  breaker'.state = "Closed" /\ \A d \in Calls : Unharmed(d)'
    <3>1. /\ ~faults.storm /\ Retryable(e) /\ faults'.all # Threshold
          /\ faults'.own[c] < MaxAttempts
          /\ faults'.all = Capped(faults.all + 1, Threshold)
          /\ breaker' = OnFailure(breaker)
      BY <1>0, <2>6, FaultWrites DEF Faulted, AttemptFails
    <3>2. breaker'.state = "Closed"
      BY <1>0, <1>1, <3>1, FailureCounts
    <3>3. InPhase(c, "forward")
      BY <1>1, <2>6, <3>1, FaultIsSpent DEF Unharmed, Awaiting, InPhase
    <3>4. guard[c].attempt < MaxAttempts
      BY <2>6, <3>1, <3>3, FaultIsSpent
    <3>5. saga' = saga
      BY <2>6, <3>1, <3>4 DEF Faulted, MayRetry
    <3> QED
      BY <1>1, <3>1, <3>2, <3>5, StaysUnharmed
  <2> QED
    BY <1>5, <2>1, <2>2, <2>3, <2>4, <2>5, <2>6 DEF GuardedStep
<1> QED
  BY <1>2, <1>4, <1>5 DEF GuardedNext

LEMMA InitGInv == GuardedInit => GInv
<1> SUFFICES ASSUME GuardedInit PROVE GInv
  OBVIOUS
<1>1. SagaTypeOK /\ IInv
  BY InitType, InitIInv DEF GuardedInit
<1>2. 0 \in 0..Threshold /\ 0 \in 0..OwnBound /\ Capped(0, Threshold) = 0
  BY OwnBoundFacts, CappedFacts
<1>3. FaultTypeOK
  BY <1>2 DEF GuardedInit, FaultTypeOK
<1>4. AllIsTheCount /\ breaker.state = "Closed"
  BY <1>2 DEF GuardedInit, Init, NewBreaker, AllIsTheCount
<1>5. \A c \in Calls : InPhase(c, "idle") /\ guard[c].pc = "out" /\ faults.own[c] = 0
  BY GuardedAssumption DEF GuardedInit, SagaInit, Init, Idle, Fresh, InPhase
<1>6. Spendings
  BY <1>5 DEF Spendings, Spending, At, Spent, InPhase
<1> QED
  BY <1>1, <1>3, <1>4, <1>5, <1>6 DEF GInv, Calm, Unharmed

LEMMA NextGInv == GInv /\ [GuardedNext]_guardedVars => GInv'
<1> SUFFICES ASSUME GInv, [GuardedNext]_guardedVars PROVE GInv'
  OBVIOUS
<1>1. CASE GuardedNext
  <2>1. IInv'
    BY <1>1, AgentStep, NextIInv DEF GInv
  <2>2. SagaTypeOK'
    BY <1>1, SagaStepType DEF GInv
  <2>3. FaultTypeOK' /\ AllIsTheCount'
    BY <1>1, CountStep DEF GInv
  <2> QED
    BY <1>1, <2>1, <2>2, <2>3, SpendingsStep, CalmStep DEF GInv
<1>2. CASE UNCHANGED guardedVars
  <2>1. IInv'
    BY <1>2, NextIInv DEF GInv, guardedVars, vars
  <2>2. SagaTypeOK'
    BY <1>2 DEF GInv, guardedVars, SagaTypeOK, InPhase, WithinPlan
  <2>3. FaultTypeOK' /\ AllIsTheCount'
    BY <1>2 DEF GInv, guardedVars, FaultTypeOK, AllIsTheCount
  <2>4. Spendings'
    BY <1>2, SameSpending DEF GInv, guardedVars, Spendings
  <2>5. Calm'
    BY <1>2 DEF GInv, guardedVars, Calm, Unharmed, InPhase
  <2> QED
    BY <2>1, <2>2, <2>3, <2>4, <2>5 DEF GInv
<1> QED
  BY <1>1, <1>2

THEOREM GuardedInvariance == GuardedSpec => []GInv
BY InitGInv, NextGInv, PTL DEF GuardedSpec

\* agent.rs:1-4: faults that pass before a call is out of attempts, and that
\* never come Threshold in a row, are not seen by any saga, however many sagas
\* share the breaker (TransientFaultsAreAbsorbed).
THEOREM FaultsAreAbsorbed == GuardedSpec => []TransientFaultsAreAbsorbed
<1>1. ASSUME GInv PROVE TransientFaultsAreAbsorbed
  <2> SUFFICES ASSUME ~faults.storm, NEW c \in Calls
               PROVE  /\ ~InPhase(c, "undo")
                      /\ InPhase(c, "returned") => saga[c].status = "Succeeded"
    BY DEF TransientFaultsAreAbsorbed
  <2>1. Unharmed(c)
    BY <1>1 DEF GInv, Calm
  <2> QED
    BY <2>1 DEF Unharmed, InPhase
<1> QED
  BY <1>1, GuardedInvariance, PTL

\* agent.rs:54: a compensation is turned away only after Threshold attempts in a
\* row have failed; and a run whose failing step and failed compensations could
\* not make up that many has not brought it about alone (LockOutTakesThreshold),
\* for any threshold and any number of attempts.
THEOREM LockOutHasACause == GuardedSpec => LockOutTakesThreshold
<1>1. ASSUME GInv, NEW c \in Calls, TurnedAway(c), InPhase(c, "undo")
      PROVE  /\ faults.all = Threshold
             /\ faults.own[c] < Threshold \/ MaxAttempts * (1 + FailedUndos(c)) >= Threshold
  <2>1. /\ breaker \in Breaker /\ Spending(c) /\ FaultTypeOK /\ faults.own[c] \in 0..OwnBound
        /\ breaker.state = "Closed" <=> breaker.failures < Threshold
        /\ faults.all = Capped(breaker.failures, Threshold)
    BY <1>1 DEF GInv, IInv, TypeOK, ClosedBelowThreshold, Spendings, AllIsTheCount, FaultTypeOK
  <2>2. ~Admits(breaker) /\ guard[c].pc = "out"
    BY <1>1 DEF TurnedAway, At
  <2>3. breaker.failures \in Nat /\ breaker.failures >= Threshold
    BY <2>1, <2>2, RefreshCounts, OwnBoundFacts DEF Breaker
  <2>4. Capped(breaker.failures, Threshold) = Threshold
    BY <2>3, OwnBoundFacts, CappedFacts
  <2>5. /\ FailedUndos(c) \in Nat /\ Spent(guard[c]) = 0
        /\ faults.own[c] <= Allowed(FailedUndos(c)) + Spent(guard[c])
    BY <1>1, <2>1, <2>2 DEF Spending, Spent
  <2>6. faults.own[c] \in Nat /\ Allowed(FailedUndos(c)) \in Nat /\ Threshold \in Nat
    BY <2>1, <2>5, OwnBoundFacts, AllowedFacts
  <2>7. faults.own[c] < Threshold \/ Allowed(FailedUndos(c)) >= Threshold
    BY <2>5, <2>6
  <2> QED
    BY <2>1, <2>4, <2>7 DEF Allowed
<1>2. GInv /\ [GuardedNext]_guardedVars =>
        [\A c \in Calls : TurnedAway(c) /\ InPhase(c, "undo") =>
           /\ faults.all = Threshold
           /\ \/ faults.own[c] < Threshold
              \/ MaxAttempts * (1 + FailedUndos(c)) >= Threshold]_guardedVars
  BY <1>1
<1> QED
  BY <1>2, GuardedInvariance, PTL DEF GuardedSpec, LockOutTakesThreshold

-----------------------------------------------------------------------------
(***************************************************************************)
(* The fleet: an attempt that failed may have left the effect of the step  *)
(* behind, or half of it, and another starts from there.                   *)
(***************************************************************************)
RepeatedAttempt(c) ==
  Awaiting(c) /\ fleet' \in AfterFailure(c) /\ UNCHANGED <<saga, trail>>

AnsweredOrRepeated ==
  \E c \in Calls : (\E job \in Jobs : Begin(c, job)) \/ RunStep(c) \/ RepeatedAttempt(c)

LEMMA GuardedIsASaga ==
  ASSUME GInv, [GuardedNext]_guardedVars
  PROVE  [AnsweredOrRepeated]_sagaVars
<1>1. CASE Surroundings \/ UNCHANGED guardedVars
  BY <1>1 DEF Surroundings, guardedVars, sagaVars
<1>2. ASSUME NEW c \in Calls, Enter(c) PROVE \E job \in Jobs : Begin(c, job)
  BY <1>2, GuardedAssumption DEF Enter
<1>3. ASSUME NEW c \in Calls, GuardedStep(c)
      PROVE  RunStep(c) \/ RepeatedAttempt(c) \/ UNCHANGED sagaVars
  <2>1. CASE TurnedAway(c) \/ LetIn(c) \/ Answered(c) \/ Repeated(c) \/ NothingToUndo(c)
    BY <2>1 DEF TurnedAway, LetIn, Answered, Repeated, NothingToUndo, CallFails, RunStep
  <2>2. ASSUME NEW e \in PortErrors, Faulted(c, e) PROVE RunStep(c) \/ RepeatedAttempt(c)
    BY <2>2, FaultIsSpent DEF Faulted, CallFails, RunStep, RepeatedAttempt
  <2> QED
    BY <1>3, <2>1, <2>2 DEF GuardedStep
<1> QED
  BY <1>1, <1>2, <1>3 DEF GuardedNext, AnsweredOrRepeated

\* agent.rs:49-86 under engine.rs:46: whatever the breaker refuses, the hosts do
\* and the retries repeat, the executor sees its own steps and, in between,
\* attempts that are to be repeated.  OpsEngine takes just these, so what is
\* proved of it holds over the breaker and the retries.
THEOREM GuardIsWhatTheEngineAssumes ==
  GuardedSpec => SagaInit /\ [][AnsweredOrRepeated]_sagaVars
<1>1. GuardedInit => SagaInit
  BY DEF GuardedInit
<1> QED
  BY <1>1, GuardedIsASaga, GuardedInvariance, PTL DEF GuardedSpec

LEMMA GuardedFleet ==
  ASSUME GInv, FleetInv, [GuardedNext]_guardedVars
  PROVE  FleetInv'
<1>1. SagaTypeOK
  BY DEF GInv
<1>2. CASE UNCHANGED sagaVars
  BY <1>2, SameFleet DEF sagaVars
<1>3. CASE AnsweredOrRepeated
  BY <1>1, <1>3, BeginFleet, RunStepFleet, RepeatedFleet DEF AnsweredOrRepeated, RepeatedAttempt
<1> QED
  BY <1>2, <1>3, GuardedIsASaga

LEMMA GuardedFleetKept == GuardedSpec => [](SagaTypeOK /\ FleetInv)
<1>1. GuardedInit => GInv /\ FleetInv
  BY InitGInv, InitFleet DEF GuardedInit
<1>2. GInv /\ FleetInv /\ [GuardedNext]_guardedVars => (GInv /\ FleetInv)'
  BY NextGInv, GuardedFleet
<1>3. GInv => SagaTypeOK
  BY DEF GInv
<1> QED
  BY <1>1, <1>2, <1>3, PTL DEF GuardedSpec

\* agent.rs:59: a repeated attempt may find its effect there, or half of it,
\* and still no two hosts vote with one staked key while no other saga works on
\* the primary of a failover (PrimariesApartNeverDoubleVote).
THEOREM RepeatsKeepKeysApart == GuardedSpec => []PrimariesApartNeverDoubleVote
BY GuardedFleetKept, FleetKeepsKeysApart, PTL

\* agent.rs:59 and saga.rs:94-121: nor does repeating keep a saga that returns
\* Succeeded from having delivered what its kind promises (SuccessDelivers).
THEOREM RepeatsDeliver == GuardedSpec => []SuccessDelivers
BY GuardedFleetKept, FleetDelivers, PTL

-----------------------------------------------------------------------------
(***************************************************************************)
(* The trails, which a repeated attempt leaves alone.                      *)
(***************************************************************************)
LEMMA GuardedBooks ==
  ASSUME GInv, Books, [GuardedNext]_guardedVars
  PROVE  Books'
<1>1. SagaTypeOK
  BY DEF GInv
<1>2. CASE UNCHANGED <<saga, trail>>
  BY <1>2 DEF Books
<1>3. CASE \E c \in Calls : (\E job \in Jobs : Begin(c, job)) \/ RunStep(c)
  BY <1>1, <1>3, BeginBooks, RunStepBooks
<1> QED
  BY <1>2, <1>3, GuardedIsASaga DEF AnsweredOrRepeated, RepeatedAttempt, sagaVars

LEMMA GuardedBooksKept == GuardedSpec => [](GInv /\ SagaTypeOK /\ FleetInv /\ Books)
<1>1. GuardedInit => Books
  BY InitBooks DEF GuardedInit
<1> QED
  BY <1>1, GuardedBooks, GuardedFleetKept, GuardedInvariance, PTL DEF GuardedSpec

\* The breaker and the retries do not disturb what a saga publishes, what its
\* status says of it, or what a rolled back provisioning removes
\* (UndoneInReverse, StatusMatchesTrail, RollbackRemovesInfra; saga.rs:203-224
\* over agent.rs:49-86).
THEOREM GuardedKeepsTrails ==
  GuardedSpec => [](UndoneInReverse /\ StatusMatchesTrail /\ RollbackRemovesInfra)
<1>1. SagaTypeOK /\ FleetInv /\ Books =>
        UndoneInReverse /\ StatusMatchesTrail /\ RollbackRemovesInfra
  BY BooksGiveOrder, BooksGiveVerdict, RolledBackIsGone
<1> QED
  BY <1>1, GuardedBooksKept, PTL

\* saga.rs:177-182: from outside, a saga behind the breaker keeps the contract of
\* the executor.
THEOREM GuardedMeetsContract == GuardedSpec => Contract!Spec
<1>1. GuardedInit => Contract!Init
  BY ContractInit DEF GuardedInit
<1>2. GInv /\ SagaTypeOK /\ Books /\ [GuardedNext]_guardedVars => [Contract!Next]_Seen
  <2> SUFFICES ASSUME GInv, SagaTypeOK, Books, [GuardedNext]_guardedVars PROVE [Contract!Next]_Seen
    OBVIOUS
  <2>1. CASE UNCHANGED <<saga, trail>>
    BY <2>1 DEF Seen, ContractView, Undone, Has, Plan, InPhase
  <2>2. ASSUME NEW c \in Calls, NEW job \in Jobs, Begin(c, job)
        PROVE  Contract!Next
    BY <2>2, ContractBegin DEF Contract!Next
  <2>3. ASSUME NEW c \in Calls, RunStep(c)
        PROVE  Contract!Next \/ UNCHANGED Seen
    BY <2>3, ContractRunStep DEF Contract!Next
  <2> QED
    BY <2>1, <2>2, <2>3, GuardedIsASaga DEF AnsweredOrRepeated, RepeatedAttempt, sagaVars
<1> QED
  BY <1>1, <1>2, GuardedBooksKept, PTL DEF GuardedSpec, Contract!Spec, Seen

=============================================================================
