------------------------------ MODULE GuardedSaga ------------------------------
(***************************************************************************)
(* Sagas over the resilient agent: each agent call of SagaExecutor is the  *)
(* guarded call of ResilientAgent.  SagaExecutor takes an agent call as    *)
(* one step; here it is the question to the shared breaker and then up to  *)
(* MaxAttempts attempts, each of which may do its work, or half of it, and *)
(* still fail, to be repeated on a host that others look at meanwhile.     *)
(* Callers is to be Calls.                                                 *)
(***************************************************************************)
EXTENDS SagaExecutor, ResilientAgent

CONSTANT Orders   \* [Calls -> SUBSET Jobs], what the executor may be given

ASSUME GuardedAssumption == Orders \in [Calls -> SUBSET Jobs] /\ Callers = Calls

(***************************************************************************)
(* History of the attempts that failed: all counts those since anybody's   *)
(* last success, no further than Threshold; own those of a call since its  *)
(* own last success, no further than the larger of Threshold and           *)
(* MaxAttempts; storm says that a call was refused for good by a host, or  *)
(* used up its attempts, or that all reached Threshold.                    *)
(***************************************************************************)
VARIABLE faults

guardedVars == <<fleet, saga, trail, breaker, guard, up, faults>>

Capped(n, bound) == IF n > bound THEN bound ELSE n

OwnBound == IF MaxAttempts > Threshold THEN MaxAttempts ELSE Threshold

Fault(c, e) ==
  LET all == Capped(faults.all + 1, Threshold)
      own == Capped(faults.own[c] + 1, OwnBound)
  IN  faults' = [all   |-> all,
                 own   |-> [faults.own EXCEPT ![c] = own],
                 storm |-> \/ faults.storm \/ ~Retryable(e)
                           \/ all = Threshold \/ own >= MaxAttempts]

NoFault(c) == faults' = [faults EXCEPT !.all = 0, !.own[c] = 0]

-----------------------------------------------------------------------------
Enter(c) ==
  /\ \E job \in Orders[c] : Begin(c, job)
  /\ UNCHANGED <<vars, faults>>

CallFails(c) == StepFails(c) \/ UndoFails(c)

\* A call the open breaker turns away has reached no host.
TurnedAway(c) ==
  /\ Awaiting(c) /\ At(c, "out") /\ ~Admits(breaker)
  /\ Acquire(c)
  /\ CallFails(c)
  /\ UNCHANGED <<fleet, faults>>

LetIn(c) ==
  /\ Awaiting(c) /\ At(c, "out") /\ Admits(breaker)
  /\ Acquire(c)
  /\ UNCHANGED <<sagaVars, faults>>

Answered(c) ==
  /\ AttemptSucceeds(c)
  /\ StepSucceeds(c) \/ UndoSucceeds(c)
  /\ NoFault(c)

\* The fleet may have changed, and the attempt is repeated if it may be.
Faulted(c, e) ==
  /\ AttemptFails(c, e)
  /\ \/ MayRetry(c, e) /\ fleet' \in AfterFailure(c) /\ UNCHANGED <<saga, trail>>
     \/ ~MayRetry(c, e) /\ CallFails(c)
  /\ Fault(c, e)

Repeated(c) == Retry(c) /\ UNCHANGED <<sagaVars, faults>>

\* A step that keeps the default compensation asks nobody.
NothingToUndo(c) ==
  /\ InPhase(c, "undo") /\ ~Awaiting(c)
  /\ UndoSucceeds(c)
  /\ UNCHANGED <<vars, faults>>

GuardedStep(c) ==
  \/ TurnedAway(c) \/ LetIn(c) \/ Answered(c) \/ Repeated(c) \/ NothingToUndo(c)
  \/ \E e \in PortErrors : Faulted(c, e)

Surroundings == (Tick \/ Observe \/ HostsChange) /\ UNCHANGED <<sagaVars, faults>>

GuardedInit ==
  /\ SagaInit /\ Init
  /\ faults = [all |-> 0, own |-> [c \in Calls |-> 0], storm |-> FALSE]

GuardedNext == Surroundings \/ \E c \in Calls : Enter(c) \/ GuardedStep(c)

GuardedSpec == GuardedInit /\ [][GuardedNext]_guardedVars

\* Every attempt ends, by its timeout at the latest, and every task is polled.
\* The hosts may stay down, and time need not pass.
GuardedFairness == \A c \in Calls : WF_guardedVars(GuardedStep(c))

GuardedFairSpec == GuardedSpec /\ GuardedFairness

-----------------------------------------------------------------------------
\* agent.rs:1-4, "resilience on every boundary": faults that pass before a call
\* is out of attempts, and that never come Threshold in a row, are not seen by
\* the sagas: every run that returns has Succeeded and none compensates, also
\* when the repeated attempt had taken effect already.
TransientFaultsAreAbsorbed ==
  ~faults.storm => \A c \in Calls :
    /\ ~InPhase(c, "undo")
    /\ InPhase(c, "returned") => saga[c].status = "Succeeded"

\* The compensations of c that have failed so far: those the loop has passed
\* without publishing a StepCompensated.
FailedUndos(c) == (saga[c].done - saga[c].left) - (Len(trail[c]) - saga[c].done)

\* How a rollback comes to be turned away (agent.rs:54): Threshold attempts in a
\* row had failed, and all of them the run's own only if its failing step and
\* the compensations that failed since have attempts enough for that.  By default
\* (3 attempts, Threshold 5) the step alone has not, so the first compensation is
\* only locked out with the help of others; but the step and one failed
\* compensation have, and then a run locks itself out of the rest of its rollback.
LockOutTakesThreshold ==
  [][\A c \in Calls : TurnedAway(c) /\ InPhase(c, "undo") =>
       /\ faults.all = Threshold
       /\ \/ faults.own[c] < Threshold
          \/ MaxAttempts * (1 + FailedUndos(c)) >= Threshold]_guardedVars

\* A run that was entered returns, with the hosts down for good and the breaker
\* open: nothing waits for either.
EveryRunReturns == \A c \in Calls : InPhase(c, "forward") ~> InPhase(c, "returned")
=============================================================================
