---------------------------- MODULE SagaExecutor ----------------------------
(***************************************************************************)
(* SagaExecutor::run (validatorforge-core/src/saga.rs): the steps of a     *)
(* deployment kind are executed in order; when one fails, the completed    *)
(* ones are compensated in reverse, past compensations that fail.          *)
(*                                                                         *)
(* A call of run is a member of Calls.  It suspends only where it awaits   *)
(* the agent, so an action is one agent call with everything up to the     *)
(* next one: the record_step, the published event, the loop control and,   *)
(* after the last call, the returned status.  Calls interleave freely, on  *)
(* one host too: nothing in the code keeps two sagas apart.                *)
(***************************************************************************)
EXTENDS Fleet

CONSTANTS Calls,          \* concurrent calls of run
          LossyFailures   \* may an agent call that fails have taken effect?

ASSUME LossyAssumption == LossyFailures \in BOOLEAN

VARIABLES fleet,   \* [Hosts -> HostRecord]
          saga,    \* [Calls -> SagaRecord], the local state of each call
          trail    \* [Calls -> Seq(Event)], the step events of each call

sagaVars == <<fleet, saga, trail>>

(***************************************************************************)
(* job is what the engine hands to run: the kind (hence the plan) and the  *)
(* SagaContext; spare means nothing but in a failover.  done is the length *)
(* of `completed`; left counts the completed steps the compensation loop   *)
(* has not come to yet; clean is all_compensated; status is what run       *)
(* returns ("Running" until then).                                         *)
(***************************************************************************)
Jobs == {j \in [kind : Kinds, host : Hosts, spare : Hosts, version : Versions] :
           j.kind # "Failover" => j.spare = j.host}

SagaRecord == [phase  : {"forward", "undo", "returned"},
               job    : Jobs,
               done   : Nat,
               left   : Nat,
               clean  : BOOLEAN,
               status : RunStatuses]

Idle == [phase |-> "idle"]

Entered(job) == [phase |-> "forward", job |-> job, done |-> 0, left |-> 0,
                 clean |-> TRUE, status |-> "Running"]

Event == [type : {"StepCompleted", "StepCompensated"}, action : Steps]
Completed(a)   == [type |-> "StepCompleted",   action |-> a]
Compensated(a) == [type |-> "StepCompensated", action |-> a]

Plan(c) == BuildPlan(saga[c].job.kind)

InPhase(c, p) == saga[c].phase = p

-----------------------------------------------------------------------------
(***************************************************************************)
(* The agent call a saga is waiting for, its effect when it is Ok, and the *)
(* fleets it may leave behind when it is Err or its answer never comes.    *)
(***************************************************************************)
\* Mutated form of Awaited: completed.iter() without rev().
AwaitedInOrder(c) ==
  Plan(c)[saga[c].done + 1 - IF InPhase(c, "forward") THEN 0 ELSE saga[c].left]

Awaited(c) ==
  Plan(c)[IF InPhase(c, "forward") THEN saga[c].done + 1 ELSE saga[c].left]

Effect(c) ==
  LET j == saga[c].job IN
  IF InPhase(c, "forward") THEN Forward(Awaited(c), fleet, j.host, j.spare, j.version)
                           ELSE Backward(Awaited(c), fleet, j.host, j.spare)

HalfEffect(c) ==
  LET j == saga[c].job IN
  IF InPhase(c, "forward") THEN HalfSwap(Awaited(c), fleet, j.host, j.spare)
                           ELSE HalfSwap(Awaited(c), fleet, j.spare, j.host)

\* Whether the saga is suspended in an agent call.  The compensation of a step
\* that keeps the default is Ok without one.
Awaiting(c) ==
  \/ InPhase(c, "forward")
  \/ InPhase(c, "undo") /\ Awaited(c) \in Reversible

AfterFailure(c) ==
  {fleet} \cup IF LossyFailures THEN {Effect(c), HalfEffect(c)} ELSE {}

Begin(c, job) ==
  /\ InPhase(c, "idle")
  /\ saga' = [saga EXCEPT ![c] = Entered(job)]
  /\ trail' = [trail EXCEPT ![c] = << >>]
  /\ UNCHANGED fleet

\* step.execute is Ok: record it, publish StepCompleted, go on or return.
AfterStep(s, last) ==
  [s EXCEPT !.done   = s.done + 1,
            !.phase  = IF last THEN "returned" ELSE "forward",
            !.status = IF last THEN "Succeeded" ELSE "Running"]

StepSucceeds(c) ==
  /\ InPhase(c, "forward")
  /\ fleet' = Effect(c)
  /\ trail' = [trail EXCEPT ![c] = Append(@, Completed(Awaited(c)))]
  /\ saga' = [saga EXCEPT ![c] = AfterStep(@, saga[c].done + 1 = Len(Plan(c)))]

\* step.execute is Err: the step itself is not compensated, the completed
\* ones are; with none completed run returns RolledBack at once.
StartUndo(s) ==
  IF s.done = 0 THEN [s EXCEPT !.phase = "returned", !.status = "RolledBack"]
                ELSE [s EXCEPT !.phase = "undo", !.left = s.done]

StepFails(c) ==
  /\ InPhase(c, "forward")
  /\ fleet' \in AfterFailure(c)
  /\ saga' = [saga EXCEPT ![c] = StartUndo(@)]
  /\ UNCHANGED trail

\* The compensation loop moves on, or run returns after the last one.
\* Mutated forms of AfterUndo: the loop runs once too often; all_compensated is
\* overwritten by the last compensation; the loop stops at the first failing
\* compensation.
AfterUndoOffByOne(s, ok) ==
  [s EXCEPT !.left   = s.left - 1,
            !.clean  = s.clean /\ ok,
            !.phase  = IF s.left = 0 THEN "returned" ELSE "undo",
            !.status = IF s.left > 0 THEN "Running"
                       ELSE IF s.clean /\ ok THEN "RolledBack" ELSE "Failed"]

AfterUndoLastWins(s, ok) ==
  [s EXCEPT !.left   = s.left - 1,
            !.clean  = ok,
            !.phase  = IF s.left = 1 THEN "returned" ELSE "undo",
            !.status = IF s.left > 1 THEN "Running"
                       ELSE IF ok THEN "RolledBack" ELSE "Failed"]

AfterUndoStops(s, ok) ==
  [s EXCEPT !.left   = s.left - 1,
            !.clean  = ok,
            !.phase  = IF s.left = 1 \/ ~ok THEN "returned" ELSE "undo",
            !.status = IF ~ok THEN "Failed"
                       ELSE IF s.left > 1 THEN "Running" ELSE "RolledBack"]

AfterUndo(s, ok) ==
  [s EXCEPT !.left   = s.left - 1,
            !.clean  = s.clean /\ ok,
            !.phase  = IF s.left = 1 THEN "returned" ELSE "undo",
            !.status = IF s.left > 1 THEN "Running"
                       ELSE IF s.clean /\ ok THEN "RolledBack" ELSE "Failed"]

\* done.compensate is Ok, at once when the step keeps the default.
UndoSucceeds(c) ==
  /\ InPhase(c, "undo")
  /\ fleet' = Effect(c)
  /\ trail' = [trail EXCEPT ![c] = Append(@, Compensated(Awaited(c)))]
  /\ saga' = [saga EXCEPT ![c] = AfterUndo(@, TRUE)]

\* done.compensate is Err: no event, and the loop still goes on.
UndoFails(c) ==
  /\ InPhase(c, "undo") /\ Awaiting(c)
  /\ fleet' \in AfterFailure(c)
  /\ saga' = [saga EXCEPT ![c] = AfterUndo(@, FALSE)]
  /\ UNCHANGED trail

RunStep(c) == StepSucceeds(c) \/ StepFails(c) \/ UndoSucceeds(c) \/ UndoFails(c)

-----------------------------------------------------------------------------
\* Any fleet an operator may have before the calls: hosts that run, the
\* voters with their own key, and addresses with nothing behind them.
FleetInit ==
  /\ fleet \in [Hosts -> HostRecord]
  /\ \A h \in Hosts : fleet[h] \in {Absent} \cup {Serving(h, v) : v \in Versions}

SagaInit ==
  /\ FleetInit
  /\ saga = [c \in Calls |-> Idle]
  /\ trail = [c \in Calls |-> << >>]

SagaNext == \E c \in Calls : (\E job \in Jobs : Begin(c, job)) \/ RunStep(c)

SagaSpec == SagaInit /\ [][SagaNext]_sagaVars

\* Every agent call returns: its attempts are bounded and each is under a
\* timeout, so a call in progress is never stuck.
FairSagaSpec == SagaSpec /\ \A c \in Calls : WF_sagaVars(RunStep(c))

-----------------------------------------------------------------------------
\* The loop variables stay within the plan, and a status is there exactly when
\* run has returned.
WithinPlan(s) ==
  LET n == Len(BuildPlan(s.job.kind)) IN
  /\ s.done \in 0..n
  /\ s.phase = "forward" => s.done < n /\ s.left = 0
  /\ s.phase = "undo" => s.done < n /\ s.left \in 1..s.done
  /\ s.status = "Running" <=> s.phase # "returned"

SagaTypeOK ==
  /\ fleet \in [Hosts -> HostRecord]
  /\ saga \in [Calls -> {Idle} \cup SagaRecord]
  /\ trail \in [Calls -> Seq(Event)]
  /\ \A c \in Calls : ~InPhase(c, "idle") => WithinPlan(saga[c])

(***************************************************************************)
(* The trail of a call and the status it returns.                          *)
(***************************************************************************)
Has(c, e) == \E i \in DOMAIN trail[c] : trail[c][i] = e

\* The position of an action in the plan of c (its steps are distinct).
Place(c, a) == CHOOSE i \in DOMAIN Plan(c) : Plan(c)[i] = a

\* README.md:57, "on failure the executor runs the completed steps'
\* compensations in reverse": in the trail of a call the completed steps come
\* first, in the order of the plan, then the compensated ones in strictly
\* descending order, each of a step that had completed.
UndoneInReverse ==
  \A c \in Calls : \A i, j \in DOMAIN trail[c] :
    LET e == trail[c][i]
        f == trail[c][j]
    IN  i < j =>
        /\ e.type = "StepCompleted" /\ f.type = "StepCompleted"
             => Place(c, e.action) < Place(c, f.action)
        /\ e.type = "StepCompensated"
             => /\ f.type = "StepCompensated"
                /\ Place(c, e.action) > Place(c, f.action)
        /\ f.type = "StepCompensated" => Has(c, Completed(f.action))

\* saga.rs:179-182, what run says of its result, against what it published:
\* Succeeded after every step of the plan and no compensation, RolledBack when
\* every completed step was compensated, Failed when one was not.
StatusMatchesTrail ==
  \A c \in Calls : InPhase(c, "returned") =>
    LET steps  == {Plan(c)[i] : i \in DOMAIN Plan(c)}
        done   == {a \in steps : Has(c, Completed(a))}
        undone == {a \in steps : Has(c, Compensated(a))}
    IN  /\ saga[c].status = "Succeeded"  <=> done = steps /\ undone = {}
        /\ saga[c].status = "RolledBack" <=> done # steps /\ undone = done
        /\ saga[c].status = "Failed"     <=> done # steps /\ undone # done

(***************************************************************************)
(* What the fleet looks like.  The code has no lock per host, so it is the *)
(* operator who keeps calls apart; each property says how far it needs it. *)
(***************************************************************************)
Touches(c) ==
  IF InPhase(c, "idle") THEN {}
  ELSE {saga[c].job.host} \cup
       IF saga[c].job.kind = "Failover" THEN {saga[c].job.spare} ELSE {}

Alone(c) == \A d \in Calls \ {c} : Touches(c) \cap Touches(d) = {}

Returned(c, kind, status) ==
  InPhase(c, "returned") /\ saga[c].job.kind = kind /\ saga[c].status = status

FailingOver(c) == ~InPhase(c, "idle") /\ saga[c].job.kind = "Failover"

PrimariesApart ==
  \A c \in Calls : FailingOver(c) =>
    \A d \in Calls \ {c} : saga[c].job.host \notin Touches(d)

\* No two hosts ever vote with the same staked key as long as the primary of a
\* failover is worked on by no other call: the plan drains the primary before it
\* moves the key (saga.rs:157-159).  Everything else may be shared.  The spare,
\* which select_failover_target picks by its role alone (engine.rs:106), may be
\* absent, be deployed on meanwhile or be the spare of other failovers too, and
\* a swap may fail half way.
PrimariesApartNeverDoubleVote == PrimariesApart => NoDoubleVote(fleet)

\* A run that returns Succeeded has left its host as its kind promises: up and
\* voting on the requested version, drained with the key on the spare, or gone.
SuccessDelivers ==
  \A c \in Calls : InPhase(c, "returned") /\ saga[c].status = "Succeeded" /\ Alone(c) =>
    LET j == saga[c].job
        h == fleet[j.host]
    IN  /\ j.kind = "Provision" => h = Serving(j.host, j.version)
        /\ j.kind = "Upgrade" /\ h.infra => h = Serving(j.host, j.version)
        /\ j.kind = "Failover" /\ j.spare # j.host =>
             h.key = Junk /\ (fleet[j.spare].infra => fleet[j.spare].key = OwnKey(j.host))
        /\ j.kind = "Decommission" => h = Absent

\* A provisioning that had published StepCompleted of ApplyInfra and returns
\* RolledBack has removed that infrastructure again, whatever the failing step
\* and the compensations before the last one did.  An ApplyInfra that fails is
\* no completed step (saga.rs:203) and is not compensated, also when it had made
\* the host: the run returns RolledBack and the host may be there.
RollbackRemovesInfra ==
  \A c \in Calls :
    /\ Returned(c, "Provision", "RolledBack") /\ Alone(c)
    /\ Has(c, Completed("ApplyInfra"))
    => fleet[saga[c].job.host] = Absent

-----------------------------------------------------------------------------
(***************************************************************************)
(* The contract: from outside, the compensation loop is one step that      *)
(* closes the call with the set of the steps it has undone.                *)
(***************************************************************************)
Undone(c) == {i \in 1..saga[c].done : Has(c, Compensated(Plan(c)[i]))}

ContractView(c) ==
  CASE InPhase(c, "idle") -> [phase |-> "idle"]
    [] InPhase(c, "forward") \/ InPhase(c, "undo") ->
         [phase |-> "open", kind |-> saga[c].job.kind, done |-> saga[c].done]
    [] InPhase(c, "returned") ->
         [phase |-> "closed", kind |-> saga[c].job.kind, done |-> saga[c].done,
          undone |-> Undone(c), status |-> saga[c].status]

Contract == INSTANCE SagaContract WITH call <- [c \in Calls |-> ContractView(c)]

\* saga.rs:177-182: every behaviour of the executor is one of the contract.  A
\* call that was entered is closed in the end: the loops of run terminate, and a
\* failing compensation does not stop the ones that are left.
ImplementsContract == Contract!FairSpec
=============================================================================
