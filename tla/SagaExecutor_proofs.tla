------------------------ MODULE SagaExecutor_proofs ------------------------
(***************************************************************************)
(* Proofs about SagaExecutor, for any fleet and any number of concurrent   *)
(* calls, on one host or on many.                                          *)
(***************************************************************************)
EXTENDS SagaExecutor, TLAPS

-----------------------------------------------------------------------------
(***************************************************************************)
(* The fleet: no agent call makes anything but a fleet out of a fleet.     *)
(***************************************************************************)
Fleets == [Hosts -> HostRecord]

LEMMA ServingType ==
  ASSUME NEW h \in Hosts, NEW v \in Versions
  PROVE  Serving(h, v) \in HostRecord /\ Absent \in HostRecord
BY DEF Serving, OwnKey, Absent, HostRecord

LEMMA DrainedType ==
  ASSUME NEW f \in Fleets, NEW h \in Hosts
  PROVE  Drained(f, h) \in Fleets
<1>1. [f[h] EXCEPT !.key = Junk] \in HostRecord
  BY DEF Fleets, HostRecord
<1> QED
  BY <1>1 DEF Drained, OnHost, Fleets

LEMMA ReceiveType ==
  ASSUME NEW f \in Fleets, NEW h \in Hosts, NEW k \in Hosts \cup {Junk}
  PROVE  Receive(f, h, k) \in Fleets
<1>1. [f[h] EXCEPT !.key = k] \in HostRecord
  BY DEF Fleets, HostRecord
<1> QED
  BY <1>1 DEF Receive, OnHost, Fleets

LEMMA StakedKeyType ==
  ASSUME NEW f \in Fleets, NEW h \in Hosts
  PROVE  StakedKey(f, h) \in Hosts \cup {Junk}
BY DEF StakedKey, OwnKey, Fleets, HostRecord

LEMMA SwapType ==
  ASSUME NEW f \in Fleets, NEW h \in Hosts, NEW g \in Hosts
  PROVE  Swap(f, h, g) \in Fleets
BY DrainedType, ReceiveType, StakedKeyType DEF Swap

LEMMA ApplyDestroyType ==
  ASSUME NEW f \in Fleets, NEW h \in Hosts
  PROVE  Apply(f, h) \in Fleets /\ Destroy(f, h) \in Fleets
<1>1. [f[h] EXCEPT !.infra = TRUE] \in HostRecord /\ Absent \in HostRecord
  BY DEF Fleets, HostRecord, Absent
<1> QED
  BY <1>1 DEF Apply, Destroy, Fleets

LEMMA ForwardType ==
  ASSUME NEW f \in Fleets, NEW h \in Hosts, NEW g \in Hosts, NEW v \in Versions,
         NEW step \in Steps
  PROVE  Forward(step, f, h, g, v) \in Fleets
<1>1. Start(f, h, v) \in Fleets
  BY ServingType DEF Start, OnHost, Fleets
<1> QED
  BY <1>1, ApplyDestroyType, DrainedType, SwapType DEF Forward, Steps

LEMMA BackwardType ==
  ASSUME NEW f \in Fleets, NEW h \in Hosts, NEW g \in Hosts, NEW step \in Steps
  PROVE  Backward(step, f, h, g) \in Fleets
BY ApplyDestroyType, DrainedType, SwapType DEF Backward, Steps

LEMMA HalfSwapType ==
  ASSUME NEW f \in Fleets, NEW h \in Hosts, NEW g \in Hosts, NEW step \in Steps
  PROVE  HalfSwap(step, f, h, g) \in Fleets
BY ReceiveType, StakedKeyType DEF HalfSwap

-----------------------------------------------------------------------------
(***************************************************************************)
(* The plans: two to four steps, no step twice.                            *)
(***************************************************************************)
LEMMA Plans ==
  ASSUME NEW kind \in Kinds
  PROVE  /\ Len(BuildPlan(kind)) \in 2..4
         /\ DOMAIN BuildPlan(kind) = 1..Len(BuildPlan(kind))
         /\ \A i \in 1..Len(BuildPlan(kind)) : BuildPlan(kind)[i] \in Steps
         /\ \A i, j \in 1..Len(BuildPlan(kind)) :
              BuildPlan(kind)[i] = BuildPlan(kind)[j] => i = j
<1>1. CASE kind = "Provision"
  BY <1>1 DEF BuildPlan, Steps
<1>2. CASE kind = "Upgrade"
  BY <1>2 DEF BuildPlan, Steps
<1>3. CASE kind = "Failover"
  BY <1>3 DEF BuildPlan, Steps
<1>4. CASE kind = "Decommission"
  BY <1>4 DEF BuildPlan, Steps
<1> QED
  BY <1>1, <1>2, <1>3, <1>4 DEF Kinds

-----------------------------------------------------------------------------
(***************************************************************************)
(* Type correctness.  It is inductive because it holds the loop variables  *)
(* within the plan (WithinPlan): the step a call awaits always exists.     *)
(***************************************************************************)
LEMMA BusyCall ==
  ASSUME SagaTypeOK, NEW c \in Calls, saga[c].phase # "idle"
  PROVE  /\ saga[c] \in SagaRecord
         /\ WithinPlan(saga[c])
         /\ saga[c].job \in Jobs /\ saga[c].job.kind \in Kinds
         /\ saga[c].job.host \in Hosts /\ saga[c].job.spare \in Hosts
         /\ saga[c].job.version \in Versions
         /\ saga[c].done \in Nat /\ saga[c].left \in Nat /\ saga[c].clean \in BOOLEAN
<1>1. saga[c] \in SagaRecord
  BY DEF SagaTypeOK, Idle
<1>2. saga[c].job \in Jobs
  BY <1>1 DEF SagaRecord
<1> QED
  BY <1>1, <1>2 DEF SagaTypeOK, InPhase, SagaRecord, Jobs

LEMMA AwaitedIsAStep ==
  ASSUME SagaTypeOK, NEW c \in Calls, InPhase(c, "forward") \/ InPhase(c, "undo")
  PROVE  /\ Awaited(c) \in Steps
         /\ InPhase(c, "forward") => /\ Awaited(c) = Plan(c)[saga[c].done + 1]
                                     /\ saga[c].done + 1 \in 1..Len(Plan(c))
         /\ InPhase(c, "undo") => /\ Awaited(c) = Plan(c)[saga[c].left]
                                  /\ saga[c].left \in 1..Len(Plan(c))
<1>1. saga[c].phase # "idle"
  BY DEF InPhase
<1>2. saga[c].job.kind \in Kinds /\ WithinPlan(saga[c]) /\ saga[c].done \in Nat /\ saga[c].left \in Nat
  BY <1>1, BusyCall
<1>3. Len(Plan(c)) \in 2..4 /\ \A i \in 1..Len(Plan(c)) : Plan(c)[i] \in Steps
  BY <1>2, Plans DEF Plan
<1>4. InPhase(c, "forward") => saga[c].done + 1 \in 1..Len(Plan(c))
  BY <1>2, <1>3 DEF WithinPlan, InPhase, Plan
<1>5. InPhase(c, "undo") => saga[c].left \in 1..Len(Plan(c)) /\ ~InPhase(c, "forward")
  BY <1>2, <1>3 DEF WithinPlan, InPhase, Plan
<1> QED
  BY <1>3, <1>4, <1>5 DEF Awaited

LEMMA EffectTypes ==
  ASSUME SagaTypeOK, NEW c \in Calls, InPhase(c, "forward") \/ InPhase(c, "undo")
  PROVE  Effect(c) \in Fleets /\ AfterFailure(c) \subseteq Fleets
<1>1. saga[c].phase # "idle" /\ fleet \in Fleets /\ Awaited(c) \in Steps
  BY AwaitedIsAStep DEF InPhase, SagaTypeOK, Fleets
<1>2. Effect(c) \in Fleets
  BY <1>1, BusyCall, ForwardType, BackwardType DEF Effect
<1>3. HalfEffect(c) \in Fleets
  BY <1>1, BusyCall, HalfSwapType DEF HalfEffect
<1> QED
  BY <1>1, <1>2, <1>3 DEF AfterFailure

\* A step of one call that leaves it a record within its plan keeps the types.
LEMMA TypeStep ==
  ASSUME SagaTypeOK, NEW c \in Calls, NEW r \in SagaRecord, WithinPlan(r),
         NEW t \in Seq(Event),
         saga' = [saga EXCEPT ![c] = r], trail' = [trail EXCEPT ![c] = t],
         fleet' \in Fleets
  PROVE  SagaTypeOK'
<1>1. saga' \in [Calls -> {Idle} \cup SagaRecord] /\ trail' \in [Calls -> Seq(Event)]
  BY DEF SagaTypeOK
<1>2. \A d \in Calls : saga'[d] = IF d = c THEN r ELSE saga[d]
  BY DEF SagaTypeOK
<1>3. \A d \in Calls : saga'[d].phase # "idle" => WithinPlan(saga'[d])
  BY <1>2 DEF SagaTypeOK, InPhase
<1> QED
  BY <1>1, <1>3 DEF SagaTypeOK, InPhase, Fleets, WithinPlan

\* What each statement of the loops does to the locals of a call.
LEMMA AfterStepType ==
  ASSUME NEW s \in SagaRecord, WithinPlan(s), s.phase = "forward",
         NEW last \in BOOLEAN, last <=> s.done + 1 = Len(BuildPlan(s.job.kind))
  PROVE  AfterStep(s, last) \in SagaRecord /\ WithinPlan(AfterStep(s, last))
<1>1. s.job.kind \in Kinds /\ s.done \in Nat /\ s.left \in Nat
  BY DEF SagaRecord, Jobs
<1>2. Len(BuildPlan(s.job.kind)) \in 2..4
  BY <1>1, Plans
<1>3. AfterStep(s, last) \in SagaRecord
  <2> DEFINE p  == IF last THEN "returned" ELSE "forward"
             st == IF last THEN "Succeeded" ELSE "Running"
  <2>1. p \in {"forward", "undo", "returned"} /\ st \in RunStatuses /\ s.done + 1 \in Nat
    BY <1>1 DEF RunStatuses
  <2>2. AfterStep(s, last) = [s EXCEPT !.done = s.done + 1, !.phase = p, !.status = st]
    BY DEF AfterStep
  <2> HIDE DEF p, st
  <2> QED
    BY <2>1, <2>2 DEF SagaRecord
<1>4. /\ AfterStep(s, last).job = s.job /\ AfterStep(s, last).done = s.done + 1
      /\ AfterStep(s, last).left = s.left
      /\ AfterStep(s, last).phase = IF last THEN "returned" ELSE "forward"
      /\ AfterStep(s, last).status = IF last THEN "Succeeded" ELSE "Running"
  BY DEF AfterStep, SagaRecord
<1> QED
  BY <1>1, <1>2, <1>3, <1>4 DEF WithinPlan

LEMMA StartUndoType ==
  ASSUME NEW s \in SagaRecord, WithinPlan(s), s.phase = "forward"
  PROVE  StartUndo(s) \in SagaRecord /\ WithinPlan(StartUndo(s))
<1>1. s.job.kind \in Kinds /\ s.done \in Nat /\ s.left \in Nat
  BY DEF SagaRecord, Jobs
<1>2. Len(BuildPlan(s.job.kind)) \in 2..4
  BY <1>1, Plans
<1>3. StartUndo(s) \in SagaRecord
  BY <1>1 DEF StartUndo, SagaRecord, RunStatuses
<1>4. /\ StartUndo(s).job = s.job /\ StartUndo(s).done = s.done
      /\ StartUndo(s).left = IF s.done = 0 THEN s.left ELSE s.done
      /\ StartUndo(s).phase = IF s.done = 0 THEN "returned" ELSE "undo"
      /\ StartUndo(s).status = IF s.done = 0 THEN "RolledBack" ELSE s.status
  BY DEF StartUndo, SagaRecord
<1> QED
  BY <1>1, <1>2, <1>3, <1>4 DEF WithinPlan

LEMMA AfterUndoType ==
  ASSUME NEW s \in SagaRecord, WithinPlan(s), s.phase = "undo", NEW ok \in BOOLEAN
  PROVE  AfterUndo(s, ok) \in SagaRecord /\ WithinPlan(AfterUndo(s, ok))
<1>1. s.job.kind \in Kinds /\ s.done \in Nat /\ s.left \in 1..s.done /\ s.clean \in BOOLEAN
  BY DEF SagaRecord, Jobs, WithinPlan
<1>2. Len(BuildPlan(s.job.kind)) \in 2..4
  BY <1>1, Plans
<1>3. AfterUndo(s, ok) \in SagaRecord
  <2> DEFINE cl == s.clean /\ ok
             p  == IF s.left = 1 THEN "returned" ELSE "undo"
             st == IF s.left > 1 THEN "Running"
                   ELSE IF s.clean /\ ok THEN "RolledBack" ELSE "Failed"
  <2>1. p \in {"forward", "undo", "returned"} /\ st \in RunStatuses /\ s.left - 1 \in Nat
    BY <1>1 DEF RunStatuses
  <2>2. cl \in BOOLEAN
    BY <1>1
  <2>3. AfterUndo(s, ok) = [s EXCEPT !.left = s.left - 1, !.clean = cl,
                                     !.phase = p, !.status = st]
    BY DEF AfterUndo
  <2> HIDE DEF cl, p, st
  <2> QED
    BY <2>1, <2>2, <2>3 DEF SagaRecord
<1>4. /\ AfterUndo(s, ok).job = s.job /\ AfterUndo(s, ok).done = s.done
      /\ AfterUndo(s, ok).left = s.left - 1
      /\ AfterUndo(s, ok).phase = IF s.left = 1 THEN "returned" ELSE "undo"
      /\ (AfterUndo(s, ok).status = "Running") <=> (s.left > 1)
  BY <1>1 DEF AfterUndo, SagaRecord
<1> QED
  BY <1>1, <1>2, <1>3, <1>4 DEF WithinPlan

LEMMA EnteredType ==
  ASSUME NEW job \in Jobs
  PROVE  Entered(job) \in SagaRecord /\ WithinPlan(Entered(job))
<1>1. job.kind \in Kinds
  BY DEF Jobs
<1>2. Len(BuildPlan(job.kind)) \in 2..4
  BY <1>1, Plans
<1> QED
  BY <1>2 DEF Entered, SagaRecord, RunStatuses, WithinPlan

LEMMA InitType == SagaInit => SagaTypeOK
<1>1. SagaInit => fleet \in [Hosts -> HostRecord]
  BY DEF SagaInit, FleetInit
<1> QED
  BY <1>1 DEF SagaInit, SagaTypeOK, InPhase, Idle

LEMMA BeginType ==
  ASSUME SagaTypeOK, NEW c \in Calls, NEW job \in Jobs, Begin(c, job)
  PROVE  SagaTypeOK'
<1>1. fleet' \in Fleets /\ << >> \in Seq(Event)
  BY DEF SagaTypeOK, Fleets, Begin
<1> QED
  BY <1>1, EnteredType, TypeStep DEF Begin

LEMMA StepType ==
  ASSUME SagaTypeOK, NEW c \in Calls, RunStep(c)
  PROVE  SagaTypeOK'
<1> DEFINE s == saga[c]
<1>0. trail \in [Calls -> Seq(Event)] /\ trail = [trail EXCEPT ![c] = trail[c]]
  BY DEF SagaTypeOK
<1>1. CASE StepSucceeds(c)
  <2> DEFINE last == s.done + 1 = Len(Plan(c))
  <2>1. s \in SagaRecord /\ WithinPlan(s) /\ s.phase = "forward"
    BY <1>1, BusyCall DEF StepSucceeds, InPhase
  <2>2. AfterStep(s, last) \in SagaRecord /\ WithinPlan(AfterStep(s, last))
    BY <2>1, AfterStepType DEF Plan
  <2>3. Append(trail[c], Completed(Awaited(c))) \in Seq(Event)
    <3>1. Completed(Awaited(c)) \in Event
      BY <1>1, AwaitedIsAStep DEF StepSucceeds, Completed, Event
    <3> QED
      BY <1>0, <3>1
  <2>4. fleet' \in Fleets
    BY <1>1, EffectTypes DEF StepSucceeds
  <2>5. /\ saga' = [saga EXCEPT ![c] = AfterStep(s, last)]
        /\ trail' = [trail EXCEPT ![c] = Append(trail[c], Completed(Awaited(c)))]
    BY <1>1 DEF StepSucceeds, SagaTypeOK
  <2> HIDE DEF s, last
  <2> QED
    BY <2>2, <2>3, <2>4, <2>5, TypeStep
<1>2. CASE StepFails(c)
  <2>1. s \in SagaRecord /\ WithinPlan(s) /\ s.phase = "forward"
    BY <1>2, BusyCall DEF StepFails, InPhase
  <2>2. StartUndo(s) \in SagaRecord /\ WithinPlan(StartUndo(s))
    BY <2>1, StartUndoType
  <2>3. fleet' \in Fleets
    BY <1>2, EffectTypes DEF StepFails
  <2>4. saga' = [saga EXCEPT ![c] = StartUndo(s)] /\ trail' = [trail EXCEPT ![c] = trail[c]]
    BY <1>0, <1>2 DEF StepFails
  <2> HIDE DEF s
  <2> QED
    BY <1>0, <2>2, <2>3, <2>4, TypeStep
<1>3. CASE UndoSucceeds(c)
  <2>1. s \in SagaRecord /\ WithinPlan(s) /\ s.phase = "undo"
    BY <1>3, BusyCall DEF UndoSucceeds, InPhase
  <2>2. AfterUndo(s, TRUE) \in SagaRecord /\ WithinPlan(AfterUndo(s, TRUE))
    BY <2>1, AfterUndoType
  <2>3. Append(trail[c], Compensated(Awaited(c))) \in Seq(Event)
    <3>1. Compensated(Awaited(c)) \in Event
      BY <1>3, AwaitedIsAStep DEF UndoSucceeds, Compensated, Event
    <3> QED
      BY <1>0, <3>1
  <2>4. fleet' \in Fleets
    BY <1>3, EffectTypes DEF UndoSucceeds
  <2>5. /\ saga' = [saga EXCEPT ![c] = AfterUndo(s, TRUE)]
        /\ trail' = [trail EXCEPT ![c] = Append(trail[c], Compensated(Awaited(c)))]
    BY <1>3 DEF UndoSucceeds
  <2> HIDE DEF s
  <2> QED
    BY <2>2, <2>3, <2>4, <2>5, TypeStep
<1>4. CASE UndoFails(c)
  <2>1. s \in SagaRecord /\ WithinPlan(s) /\ s.phase = "undo"
    BY <1>4, BusyCall DEF UndoFails, InPhase
  <2>2. AfterUndo(s, FALSE) \in SagaRecord /\ WithinPlan(AfterUndo(s, FALSE))
    BY <2>1, AfterUndoType
  <2>3. fleet' \in Fleets
    BY <1>4, EffectTypes DEF UndoFails
  <2>4. saga' = [saga EXCEPT ![c] = AfterUndo(s, FALSE)] /\ trail' = [trail EXCEPT ![c] = trail[c]]
    BY <1>0, <1>4 DEF UndoFails
  <2> HIDE DEF s
  <2> QED
    BY <1>0, <2>2, <2>3, <2>4, TypeStep
<1> QED
  BY <1>1, <1>2, <1>3, <1>4 DEF RunStep

\* While an attempt may be repeated only the fleet moves.
LEMMA FleetOnlyType ==
  ASSUME SagaTypeOK, fleet' \in Fleets, UNCHANGED <<saga, trail>>
  PROVE  SagaTypeOK'
BY DEF SagaTypeOK, Fleets, InPhase, WithinPlan

LEMMA AttemptType ==
  ASSUME SagaTypeOK, NEW c \in Calls, Awaiting(c), fleet' \in AfterFailure(c),
         UNCHANGED <<saga, trail>>
  PROVE  SagaTypeOK'
BY EffectTypes, FleetOnlyType DEF Awaiting

\* The locals of every call, the fleet and the trails stay in range, and no
\* call ever awaits a step outside its plan.
THEOREM TypeCorrect == SagaSpec => []SagaTypeOK
<1>1. SagaInit => SagaTypeOK
  BY InitType
<1>2. SagaTypeOK /\ [SagaNext]_sagaVars => SagaTypeOK'
  <2> SUFFICES ASSUME SagaTypeOK, [SagaNext]_sagaVars PROVE SagaTypeOK'
    OBVIOUS
  <2>1. CASE SagaNext
    BY <2>1, BeginType, StepType DEF SagaNext
  <2>2. CASE UNCHANGED sagaVars
    BY <2>2 DEF sagaVars, SagaTypeOK, InPhase, WithinPlan
  <2> QED
    BY <2>1, <2>2
<1> QED
  BY <1>1, <1>2, PTL DEF SagaSpec

-----------------------------------------------------------------------------
(***************************************************************************)
(* What a call leaves behind on its own hosts.  Any step but the swap acts *)
(* on one host record, whatever the rest of the fleet looks like.          *)
(***************************************************************************)
DrainedHost(p) == IF p.infra THEN [p EXCEPT !.key = Junk] ELSE p

After(step, h, v, p) ==
  CASE step = "ApplyInfra"     -> [p EXCEPT !.infra = TRUE]
    [] step = "StartValidator" -> IF p.infra THEN Serving(h, v) ELSE p
    [] step = "Drain"          -> DrainedHost(p)
    [] step = "DestroyInfra"   -> Absent
    [] OTHER                   -> p

Back(step, p) ==
  CASE step = "ApplyInfra"     -> Absent
    [] step = "StartValidator" -> DrainedHost(p)
    [] OTHER                   -> p

LEMMA OneHost ==
  ASSUME NEW f \in Fleets, NEW h \in Hosts, NEW g \in Hosts, NEW v \in Versions,
         NEW step \in Steps, step # "SwapIdentity"
  PROVE  /\ Forward(step, f, h, g, v) = [f EXCEPT ![h] = After(step, h, v, f[h])]
         /\ Backward(step, f, h, g) = [f EXCEPT ![h] = Back(step, f[h])]
         /\ HalfSwap(step, f, h, g) = f /\ HalfSwap(step, f, g, h) = f
<1>1. f = [f EXCEPT ![h] = f[h]]
  BY DEF Fleets
<1>2. Start(f, h, v) = [f EXCEPT ![h] = IF f[h].infra THEN Serving(h, v) ELSE f[h]]
  BY <1>1 DEF Start, OnHost
<1>3. Drained(f, h) = [f EXCEPT ![h] = DrainedHost(f[h])]
  BY <1>1 DEF Drained, OnHost, DrainedHost
<1>4. /\ Apply(f, h) = [f EXCEPT ![h] = [f[h] EXCEPT !.infra = TRUE]]
      /\ Destroy(f, h) = [f EXCEPT ![h] = Absent]
  BY DEF Apply, Destroy
<1>5. HalfSwap(step, f, h, g) = f /\ HalfSwap(step, f, g, h) = f
  BY DEF HalfSwap
<1>6. CASE step = "ApplyInfra"
  BY <1>4, <1>5, <1>6 DEF Forward, Backward, After, Back
<1>7. CASE step = "StartValidator"
  BY <1>2, <1>3, <1>5, <1>7 DEF Forward, Backward, After, Back
<1>8. CASE step = "Drain"
  BY <1>1, <1>3, <1>5, <1>8 DEF Forward, Backward, After, Back
<1>9. CASE step = "DestroyInfra"
  BY <1>1, <1>4, <1>5, <1>9 DEF Forward, Backward, After, Back
<1>10. CASE step \in {"TuneHost", "AwaitCatchup"}
  BY <1>1, <1>5, <1>10 DEF Forward, Backward, After, Back
<1> QED
  BY <1>6, <1>7, <1>8, <1>9, <1>10 DEF Steps

\* A swap from a drained host: the target votes with the key of the source, if
\* it is there at all, after the swap and after the first half of it.
LEMMA SwapFromDrained ==
  ASSUME NEW f \in Fleets, NEW h \in Hosts, NEW g \in Hosts, g # h, f[h].key = Junk,
         NEW v \in Versions,
         NEW f2 \in {Forward("SwapIdentity", f, h, g, v), HalfSwap("SwapIdentity", f, h, g)}
  PROVE  /\ f2[h].key = Junk
         /\ f[g].infra => f2[g] = [f[g] EXCEPT !.key = OwnKey(h)]
         /\ ~f[g].infra => f2[g] = f[g]
<1>1. StakedKey(f, h) = OwnKey(h)
  BY DEF StakedKey
<1>2. Drained(f, h) \in Fleets
  BY DrainedType
<1>3. Drained(f, h)[h].key = Junk /\ Drained(f, h)[g] = f[g]
  BY DEF Drained, OnHost, Fleets, HostRecord
<1>4. CASE f2 = Forward("SwapIdentity", f, h, g, v)
  <2>1. f2 = Receive(Drained(f, h), g, OwnKey(h))
    BY <1>1, <1>4 DEF Forward, Swap
  <2> QED
    BY <1>2, <1>3, <2>1 DEF Receive, OnHost, Fleets
<1>5. CASE f2 = HalfSwap("SwapIdentity", f, h, g)
  <2>1. f2 = Receive(f, g, OwnKey(h))
    BY <1>1, <1>5 DEF HalfSwap
  <2> QED
    BY <2>1 DEF Receive, OnHost, Fleets
<1> QED
  BY <1>4, <1>5

\* A swap of a host with itself, in a failover without a spare.
LEMMA SwapBack ==
  ASSUME NEW f \in Fleets, NEW h \in Hosts, NEW v \in Versions,
         NEW f2 \in {f, Forward("SwapIdentity", f, h, h, v), HalfSwap("SwapIdentity", f, h, h)}
  PROVE  f2[h].key \in {f[h].key, OwnKey(h)}
<1>1. StakedKey(f, h) \in {f[h].key, OwnKey(h)}
  BY DEF StakedKey
<1>2. f2 = f \/ f2 = Receive(f, h, StakedKey(f, h))
  BY DEF Forward, Swap, HalfSwap
<1> QED
  BY <1>1, <1>2 DEF Receive, OnHost, Fleets, HostRecord

\* A swap moves keys between hosts that are there.
LEMMA SwapInPlace ==
  ASSUME NEW f \in Fleets, NEW h \in Hosts, NEW g \in Hosts, NEW v \in Versions,
         \A x \in Hosts : f[x].infra \/ f[x].key = Junk,
         NEW f2 \in {f, Forward("SwapIdentity", f, h, g, v), HalfSwap("SwapIdentity", f, h, g)}
  PROVE  \A x \in Hosts : f2[x].infra \/ f2[x].key = Junk
<1>1. ASSUME NEW f1 \in Fleets, NEW k, \A x \in Hosts : f1[x].infra \/ f1[x].key = Junk
      PROVE  \A x \in Hosts : Receive(f1, g, k)[x].infra \/ Receive(f1, g, k)[x].key = Junk
  BY <1>1 DEF Receive, OnHost, Fleets, HostRecord
<1>2. /\ Drained(f, h) \in Fleets
      /\ \A x \in Hosts : Drained(f, h)[x].infra \/ Drained(f, h)[x].key = Junk
  BY DrainedType DEF Drained, OnHost, Fleets, HostRecord
<1>3. \/ f2 = f
      \/ \E f1 \in {f, Drained(f, h)} : f2 = Receive(f1, g, StakedKey(f, h))
  BY DEF Forward, Swap, HalfSwap
<1> QED
  BY <1>1, <1>2, <1>3

(***************************************************************************)
(* LeftBehind: the records p of the host and q of the spare, as a call     *)
(* leaves them that nobody interferes with.  On the way forward the effect *)
(* of the steps so far has to be there; a rolled back provisioning has     *)
(* undone its first step last.  All of it allows for an effect of the step *)
(* under way that is there already, and asks nothing of what the call has  *)
(* found.                                                                  *)
(***************************************************************************)
Busy(s) == s \in SagaRecord /\ WithinPlan(s)

Underway(s, n) == s.phase = "forward" /\ s.done = n
Won(s) == s.status = "Succeeded"

ProvisionLeft(s, p) ==
  /\ s.phase = "forward" /\ s.done >= 1 => p.infra
  /\ Underway(s, 3) \/ Won(s) => p = Serving(s.job.host, s.job.version)
  /\ s.status = "RolledBack" /\ s.done >= 1 => p = Absent

UpgradeLeft(s, p) ==
  Underway(s, 2) \/ Won(s) => (p.infra => p = Serving(s.job.host, s.job.version))

FailoverLeft(s, p, q) ==
  s.job.spare # s.job.host =>
    /\ Underway(s, 1) => p.key = Junk
    /\ Won(s) => p.key = Junk /\ (q.infra => q.key = OwnKey(s.job.host))

LeftBehind(s, p, q) ==
  /\ s.job.kind = "Provision" => ProvisionLeft(s, p)
  /\ s.job.kind = "Upgrade" => UpgradeLeft(s, p)
  /\ s.job.kind = "Decommission" /\ Won(s) => p = Absent
  /\ s.job.kind = "Failover" => FailoverLeft(s, p, q)

LEMMA EnteredLeft ==
  ASSUME NEW job, NEW p, NEW q
  PROVE  LeftBehind(Entered(job), p, q)
<1>1. /\ Entered(job).phase = "forward" /\ Entered(job).done = 0
      /\ Entered(job).status = "Running"
  BY DEF Entered
<1> QED
  BY <1>1 DEF LeftBehind, ProvisionLeft, UpgradeLeft, FailoverLeft, Underway, Won

\* A step on a single host is Ok.
LEMMA AfterStepLeft ==
  ASSUME NEW s, Busy(s), s.phase = "forward", s.job.kind # "Failover",
         NEW p \in HostRecord, LeftBehind(s, p, p),
         NEW last \in BOOLEAN, last <=> s.done + 1 = Len(BuildPlan(s.job.kind)),
         NEW p2, p2 = After(BuildPlan(s.job.kind)[s.done + 1], s.job.host, s.job.version, p)
  PROVE  LeftBehind(AfterStep(s, last), p2, p2)
<1> DEFINE r == AfterStep(s, last)
<1>1. /\ r.job = s.job /\ r.done = s.done + 1
      /\ r.phase = IF last THEN "returned" ELSE "forward"
      /\ r.status = IF last THEN "Succeeded" ELSE "Running"
  BY DEF AfterStep, Busy, SagaRecord
<1>2. /\ s.job \in Jobs /\ s.job.spare = s.job.host /\ s.done \in Nat
      /\ s.job.kind \in Kinds
  BY DEF Busy, SagaRecord, Jobs
<1>3. s.done < Len(BuildPlan(s.job.kind))
  BY DEF Busy, WithinPlan
<1>7. [p EXCEPT !.infra = TRUE].infra
  BY DEF HostRecord
<1> SUFFICES LeftBehind(r, p2, p2)
  OBVIOUS
<1> HIDE DEF r
<1>10. CASE s.job.kind = "Provision"
  <2>1. s.done \in {0, 1, 2, 3} /\ BuildPlan(s.job.kind) = <<"ApplyInfra", "TuneHost", "StartValidator", "AwaitCatchup">>
    BY <1>2, <1>3, <1>10 DEF BuildPlan
  <2>2. last <=> s.done = 3
    BY <2>1
  <2>p. ProvisionLeft(s, p)
    BY <1>10 DEF LeftBehind
  <2>3. ProvisionLeft(r, p2)
    <3>1. CASE s.done = 0
      <4>1. p2.infra
        <5>1. BuildPlan(s.job.kind)[s.done + 1] = "ApplyInfra"
          BY <2>1, <3>1
        <5>2. p2 = [p EXCEPT !.infra = TRUE]
          BY <5>1 DEF After
        <5> QED
          BY <1>7, <5>2
      <4> QED
        BY <1>1, <2>2, <3>1, <4>1 DEF ProvisionLeft, Underway, Won
    <3>2. CASE s.done = 1
      BY <1>1, <2>1, <2>2, <2>p, <3>2 DEF ProvisionLeft, Underway, Won, After
    <3>3. CASE s.done = 2
      <4>1. p.infra
        BY <2>p, <3>3 DEF ProvisionLeft
      <4>2. p2 = Serving(s.job.host, s.job.version) /\ p2.infra
        BY <2>1, <3>3, <4>1 DEF After, Serving
      <4> QED
        BY <1>1, <2>2, <3>3, <4>2 DEF ProvisionLeft, Underway, Won
    <3>4. CASE s.done = 3
      <4>1. p2 = Serving(s.job.host, s.job.version)
        BY <2>1, <2>p, <3>4 DEF After, ProvisionLeft, Underway
      <4> QED
        BY <1>1, <2>2, <3>4, <4>1 DEF ProvisionLeft, Underway, Won
    <3> QED
      BY <2>1, <3>1, <3>2, <3>3, <3>4
  <2> QED
    BY <1>1, <1>10, <2>3 DEF LeftBehind
<1>11. CASE s.job.kind = "Upgrade"
  <2>1. s.done \in {0, 1, 2} /\ BuildPlan(s.job.kind) = <<"Drain", "StartValidator", "AwaitCatchup">>
    BY <1>2, <1>3, <1>11 DEF BuildPlan
  <2>2. last <=> s.done = 2
    BY <2>1
  <2>3. UpgradeLeft(r, p2)
    <3>1. CASE s.done = 0
      BY <1>1, <2>2, <3>1 DEF UpgradeLeft, Underway, Won
    <3>2. CASE s.done = 1
      BY <1>1, <2>1, <2>2, <3>2 DEF UpgradeLeft, Underway, Won, After
    <3>3. CASE s.done = 2
      BY <1>1, <1>11, <2>1, <2>2, <3>3 DEF LeftBehind, UpgradeLeft, Underway, Won, After
    <3> QED
      BY <2>1, <3>1, <3>2, <3>3
  <2> QED
    BY <1>1, <1>11, <2>3 DEF LeftBehind
<1>12. CASE s.job.kind = "Decommission"
  <2>1. s.done \in {0, 1} /\ BuildPlan(s.job.kind) = <<"Drain", "DestroyInfra">>
    BY <1>2, <1>3, <1>12 DEF BuildPlan
  <2>2. Won(r) => p2 = Absent
    BY <1>1, <2>1 DEF Won, After
  <2> QED
    BY <1>1, <1>12, <2>2 DEF LeftBehind
<1> QED
  BY <1>2, <1>10, <1>11, <1>12 DEF Kinds

\* A step on a single host fails, whether it took effect or not.
LEMMA StartUndoLeft ==
  ASSUME NEW s, Busy(s), s.phase = "forward",
         NEW p, NEW q
  PROVE  LeftBehind(StartUndo(s), p, q)
<1> DEFINE r == StartUndo(s)
<1>1. /\ r.job = s.job /\ r.done = s.done /\ r.phase # "forward" /\ ~Won(r)
      /\ r.status = "RolledBack" => s.done = 0
  BY DEF StartUndo, Busy, SagaRecord, WithinPlan, Won
<1> SUFFICES LeftBehind(r, p, q)
  OBVIOUS
<1> HIDE DEF r
<1> QED
  BY <1>1 DEF LeftBehind, ProvisionLeft, UpgradeLeft, FailoverLeft, Underway

\* A compensation ends; the last one of a provisioning, when it is Ok, has
\* destroyed the infrastructure.
LEMMA AfterUndoLeft ==
  ASSUME NEW s, Busy(s), s.phase = "undo", NEW ok \in BOOLEAN,
         NEW p, NEW q,
         s.job.kind = "Provision" /\ s.left = 1 /\ ok => p = Absent
  PROVE  LeftBehind(AfterUndo(s, ok), p, q)
<1> DEFINE r == AfterUndo(s, ok)
<1>0. s.left \in Nat /\ s.left >= 1 /\ s.status = "Running"
  BY DEF Busy, SagaRecord, WithinPlan
<1>1. /\ r.job = s.job /\ r.done = s.done /\ r.phase # "forward"
      /\ r.status = IF s.left > 1 THEN "Running"
                    ELSE IF s.clean /\ ok THEN "RolledBack" ELSE "Failed"
  BY DEF AfterUndo, Busy, SagaRecord
<1>2. ~Won(r) /\ (r.status = "RolledBack" => s.left = 1 /\ ok)
  BY <1>0, <1>1 DEF Won
<1> SUFFICES LeftBehind(r, p, q)
  OBVIOUS
<1> HIDE DEF r
<1> QED
  BY <1>1, <1>2 DEF LeftBehind, ProvisionLeft, UpgradeLeft, FailoverLeft, Underway

-----------------------------------------------------------------------------
(***************************************************************************)
(* The fleet after a step of a call.                                       *)
(***************************************************************************)
HostOf(c)  == saga[c].job.host
SpareOf(c) == saga[c].job.spare

LEMMA SwapIsLast ==
  ASSUME SagaTypeOK, NEW c \in Calls, InPhase(c, "forward") \/ InPhase(c, "undo"),
         Awaited(c) = "SwapIdentity"
  PROVE  saga[c].job.kind = "Failover" /\ InPhase(c, "forward") /\ saga[c].done = 1
<1>0. saga[c].phase # "idle"
  BY DEF InPhase
<1>1. /\ WithinPlan(saga[c]) /\ saga[c].job.kind \in Kinds
      /\ saga[c].done \in Nat /\ saga[c].left \in Nat
  BY <1>0, BusyCall
<1> DEFINE i == IF InPhase(c, "forward") THEN saga[c].done + 1 ELSE saga[c].left
<1>2. i \in 1..Len(Plan(c)) /\ Plan(c)[i] = "SwapIdentity"
  BY AwaitedIsAStep DEF Awaited
<1>3. CASE saga[c].job.kind = "Failover"
  <2>1. i = 2 /\ Len(Plan(c)) = 2
    BY <1>2, <1>3 DEF Plan, BuildPlan
  <2>2. saga[c].phase = "undo" => saga[c].done < 2 /\ saga[c].left \in 1..saga[c].done
    BY <1>1, <2>1 DEF WithinPlan, Plan
  <2>3. saga[c].phase # "undo"
    BY <1>1, <2>1, <2>2 DEF InPhase
  <2>4. InPhase(c, "forward")
    BY <2>3 DEF InPhase
  <2> QED
    BY <1>1, <1>3, <2>1, <2>4
<1>4. CASE saga[c].job.kind = "Provision"
  BY <1>2, <1>4 DEF Plan, BuildPlan
<1>5. CASE saga[c].job.kind = "Upgrade"
  BY <1>2, <1>5 DEF Plan, BuildPlan
<1>6. CASE saga[c].job.kind = "Decommission"
  BY <1>2, <1>6 DEF Plan, BuildPlan
<1> QED
  BY <1>1, <1>3, <1>4, <1>5, <1>6 DEF Kinds

\* Any step but the swap does all or nothing, on the host of the call.
LEMMA HostStep ==
  ASSUME SagaTypeOK, NEW c \in Calls, RunStep(c), Awaited(c) # "SwapIdentity"
  PROVE  /\ HostOf(c) \in Hosts /\ fleet \in Fleets
         /\ \/ fleet' = fleet
            \/ fleet' = [fleet EXCEPT ![HostOf(c)] =
                 IF InPhase(c, "forward")
                 THEN After(Awaited(c), HostOf(c), saga[c].job.version, fleet[HostOf(c)])
                 ELSE Back(Awaited(c), fleet[HostOf(c)])]
         /\ StepSucceeds(c) \/ UndoSucceeds(c) =>
              fleet' = [fleet EXCEPT ![HostOf(c)] =
                 IF InPhase(c, "forward")
                 THEN After(Awaited(c), HostOf(c), saga[c].job.version, fleet[HostOf(c)])
                 ELSE Back(Awaited(c), fleet[HostOf(c)])]
<1>1. saga[c].phase # "idle" /\ fleet \in Fleets /\ Awaited(c) \in Steps
  BY AwaitedIsAStep DEF RunStep, StepSucceeds, StepFails, UndoSucceeds, UndoFails,
                        InPhase, SagaTypeOK, Fleets
<1>2. HostOf(c) \in Hosts /\ SpareOf(c) \in Hosts /\ saga[c].job.version \in Versions
  BY <1>1, BusyCall DEF HostOf, SpareOf
<1>3. /\ Effect(c) = [fleet EXCEPT ![HostOf(c)] =
           IF InPhase(c, "forward")
           THEN After(Awaited(c), HostOf(c), saga[c].job.version, fleet[HostOf(c)])
           ELSE Back(Awaited(c), fleet[HostOf(c)])]
      /\ HalfEffect(c) = fleet
  BY <1>1, <1>2, OneHost DEF Effect, HalfEffect, HostOf, SpareOf
<1> QED
  BY <1>1, <1>2, <1>3 DEF RunStep, StepSucceeds, StepFails, UndoSucceeds, UndoFails, AfterFailure

\* No agent call of a saga changes a host the saga does not touch, whether it
\* succeeds, fails or is given up.
LEMMA Footprint ==
  ASSUME SagaTypeOK, NEW c \in Calls, InPhase(c, "forward") \/ InPhase(c, "undo"),
         NEW f \in {Effect(c)} \cup AfterFailure(c), NEW x \in Hosts, x \notin Touches(c)
  PROVE  f[x] = fleet[x]
<1>1. ~InPhase(c, "idle") /\ fleet \in Fleets /\ Awaited(c) \in Steps
  BY AwaitedIsAStep DEF InPhase, SagaTypeOK, Fleets
<1>2. HostOf(c) \in Hosts /\ SpareOf(c) \in Hosts /\ saga[c].job.version \in Versions
  BY <1>1, BusyCall DEF HostOf, SpareOf, InPhase
<1>3. x # HostOf(c)
  BY <1>1 DEF Touches, HostOf
<1>4. Effect(c)[x] = fleet[x] /\ HalfEffect(c)[x] = fleet[x]
  <2>1. CASE Awaited(c) # "SwapIdentity"
    BY <1>1, <1>2, <1>3, <2>1, OneHost DEF Effect, HalfEffect, HostOf, SpareOf, Fleets
  <2>2. CASE Awaited(c) = "SwapIdentity"
    <3>1. saga[c].job.kind = "Failover" /\ InPhase(c, "forward")
      BY <2>2, SwapIsLast
    <3>2. x # SpareOf(c)
      BY <1>1, <3>1 DEF Touches, SpareOf
    <3>3. /\ Effect(c) = Swap(fleet, HostOf(c), SpareOf(c))
          /\ HalfEffect(c) = Receive(fleet, SpareOf(c), StakedKey(fleet, HostOf(c)))
      BY <2>2, <3>1 DEF Effect, HalfEffect, HostOf, SpareOf, Forward, HalfSwap
    <3>4. Drained(fleet, HostOf(c)) \in Fleets /\ Drained(fleet, HostOf(c))[x] = fleet[x]
      BY <1>1, <1>2, <1>3, DrainedType DEF Drained, OnHost, Fleets
    <3>5. Effect(c)[x] = fleet[x]
      BY <1>1, <1>2, <3>2, <3>3, <3>4 DEF Swap, Receive, OnHost, Fleets
    <3>6. HalfEffect(c)[x] = fleet[x]
      BY <1>1, <1>2, <3>2, <3>3 DEF Receive, OnHost, Fleets
    <3> QED
      BY <3>5, <3>6
  <2> QED
    BY <2>1, <2>2
<1> QED
  BY <1>4 DEF AfterFailure

LEMMA StepFootprint ==
  ASSUME SagaTypeOK, NEW c \in Calls, RunStep(c), NEW x \in Hosts, x \notin Touches(c)
  PROVE  fleet'[x] = fleet[x]
<1>1. /\ InPhase(c, "forward") \/ InPhase(c, "undo")
      /\ fleet' \in {Effect(c)} \cup AfterFailure(c)
  BY DEF RunStep, StepSucceeds, StepFails, UndoSucceeds, UndoFails
<1> QED
  BY <1>1, Footprint

\* A host without infrastructure never votes.
NoGhostVotes == \A x \in Hosts : fleet[x].infra \/ fleet[x].key = Junk

\* A step of a call keeps what LeftBehind says of its hosts.
LEMMA LeftStep ==
  ASSUME SagaTypeOK, NoGhostVotes, NEW c \in Calls, RunStep(c),
         LeftBehind(saga[c], fleet[HostOf(c)], fleet[SpareOf(c)])
  PROVE  LeftBehind(saga'[c], fleet'[HostOf(c)], fleet'[SpareOf(c)])
<1> DEFINE s == saga[c]
           h == HostOf(c)
           g == SpareOf(c)
           p == fleet[h]
           p2 == fleet'[h]
           q2 == fleet'[g]
<1>1. /\ InPhase(c, "forward") \/ InPhase(c, "undo")
      /\ s.phase # "idle" /\ fleet \in Fleets
  BY DEF RunStep, StepSucceeds, StepFails, UndoSucceeds, UndoFails, InPhase, SagaTypeOK, Fleets
<1>2. /\ Busy(s) /\ h \in Hosts /\ g \in Hosts /\ s.job \in Jobs
      /\ h = s.job.host /\ g = s.job.spare /\ p \in HostRecord
      /\ s.job.version \in Versions
      /\ s.job.kind # "Failover" => g = h
  BY <1>1, BusyCall DEF Busy, HostOf, SpareOf, Fleets, Jobs
<1>3. p.infra \/ p.key = Junk
  BY <1>2 DEF NoGhostVotes
<1>4. CASE Awaited(c) # "SwapIdentity" /\ s.job.kind # "Failover"
  <2>5. CASE StepSucceeds(c)
    <3>1. s.phase = "forward" /\ saga'[c] = AfterStep(s, s.done + 1 = Len(BuildPlan(s.job.kind)))
      BY <2>5 DEF StepSucceeds, InPhase, SagaTypeOK, Plan
    <3>2. p2 = After(BuildPlan(s.job.kind)[s.done + 1], h, s.job.version, p)
      <4>1. Awaited(c) = BuildPlan(s.job.kind)[s.done + 1]
        BY <3>1 DEF Awaited, InPhase, Plan
      <4> QED
        BY <1>4, <2>5, <3>1, <4>1, HostStep DEF InPhase, Fleets
    <3>3. LeftBehind(s, p, p)
      BY <1>2, <1>4
    <3> HIDE DEF s, h, g, p, p2, q2
    <3> DEFINE last == s.done + 1 = Len(BuildPlan(s.job.kind))
    <3>4. last \in BOOLEAN /\ (last <=> s.done + 1 = Len(BuildPlan(s.job.kind)))
      OBVIOUS
    <3>5. LeftBehind(AfterStep(s, last), p2, p2)
      <4> HIDE DEF last
      <4> QED
        BY <1>2, <1>4, <3>1, <3>2, <3>3, <3>4, AfterStepLeft
    <3> QED
      BY <1>2, <1>4, <3>1, <3>5 DEF s, h, g, p, p2, q2
  <2>6. CASE StepFails(c)
    <3>1. s.phase = "forward" /\ saga'[c] = StartUndo(s)
      BY <2>6 DEF StepFails, InPhase, SagaTypeOK
    <3> QED
      BY <1>2, <3>1, StartUndoLeft
  <2>7. CASE UndoSucceeds(c)
    <3>1. s.phase = "undo" /\ saga'[c] = AfterUndo(s, TRUE)
      BY <2>7 DEF UndoSucceeds, InPhase, SagaTypeOK
    <3>2. s.job.kind = "Provision" /\ s.left = 1 => p2 = Absent
      <4> SUFFICES ASSUME s.job.kind = "Provision", s.left = 1 PROVE p2 = Absent
        OBVIOUS
      <4>1. Awaited(c) = "ApplyInfra"
        BY <3>1 DEF Awaited, InPhase, Plan, BuildPlan
      <4> QED
        BY <1>4, <2>7, <3>1, <4>1, HostStep DEF Back, InPhase, Fleets
    <3> QED
      BY <1>2, <3>1, <3>2, AfterUndoLeft
  <2>8. CASE UndoFails(c)
    <3>1. s.phase = "undo" /\ saga'[c] = AfterUndo(s, FALSE)
      BY <2>8 DEF UndoFails, InPhase, SagaTypeOK
    <3> QED
      BY <1>2, <3>1, AfterUndoLeft
  <2> QED
    BY <2>5, <2>6, <2>7, <2>8 DEF RunStep
<1>f. ASSUME s.job.kind = "Failover"
      PROVE  /\ s.phase = "forward" => FailoverLeft(s, p, fleet[g])
             /\ BuildPlan(s.job.kind) = <<"Drain", "SwapIdentity">>
             /\ Len(BuildPlan(s.job.kind)) = 2
  BY <1>f DEF LeftBehind, BuildPlan
<1>5. CASE Awaited(c) # "SwapIdentity" /\ s.job.kind = "Failover"
  <2>1. \/ s.phase = "forward" /\ s.done = 0 /\ Awaited(c) = "Drain"
        \/ s.phase = "undo" /\ s.left = 1 /\ Awaited(c) = "Drain"
    <3>1. s.done \in Nat /\ s.left \in Nat
      BY <1>1, BusyCall
    <3>2. CASE InPhase(c, "forward")
      <4>1. s.done \in {0, 1} /\ Awaited(c) = <<"Drain", "SwapIdentity">>[s.done + 1]
        BY <1>5, <1>f, <1>2, <3>1, <3>2 DEF Awaited, Plan, Busy, WithinPlan, InPhase
      <4> QED
        BY <1>5, <3>2, <4>1 DEF InPhase
    <3>3. CASE InPhase(c, "undo")
      <4>1. s.left = 1 /\ Awaited(c) = <<"Drain", "SwapIdentity">>[s.left]
        BY <1>5, <1>f, <1>2, <3>1, <3>3 DEF Awaited, Plan, Busy, WithinPlan, InPhase
      <4> QED
        BY <3>3, <4>1 DEF InPhase
    <3> QED
      BY <1>1, <3>2, <3>3
  <2>2. CASE s.phase = "forward" /\ s.done = 0
    <3>1. DrainedHost(p).key = Junk
      BY <1>2, <1>3 DEF DrainedHost, HostRecord
    <3>5. CASE StepSucceeds(c)
      <4>1. p2 = DrainedHost(p)
        BY <1>1, <1>2, <1>5, <2>1, <2>2, <3>5, HostStep DEF InPhase, After, Fleets
      <4>2. saga'[c] = AfterStep(s, s.done + 1 = Len(Plan(c))) /\ s.done + 1 # Len(Plan(c))
        <5>1. saga'[c] = AfterStep(s, s.done + 1 = Len(Plan(c)))
          BY <3>5 DEF StepSucceeds, SagaTypeOK
        <5>2. Len(Plan(c)) = 2 /\ s.done = 0
          BY <1>5, <1>f, <2>2 DEF Plan
        <5> QED
          BY <5>1, <5>2
      <4>3. /\ saga'[c].job = s.job /\ saga'[c].phase = "forward" /\ saga'[c].done = 1
            /\ saga'[c].status = "Running"
        BY <1>2, <2>2, <4>2 DEF AfterStep, Busy, SagaRecord
      <4>4. p2.key = Junk
        BY <3>1, <4>1
      <4>5. FailoverLeft(saga'[c], p2, q2)
        BY <1>2, <4>3, <4>4 DEF FailoverLeft, Underway, Won
      <4> QED
        BY <1>5, <4>3, <4>5 DEF LeftBehind
    <3>6. CASE StepFails(c)
      <4>1. saga'[c] = StartUndo(s)
        BY <3>6 DEF StepFails, SagaTypeOK
      <4> QED
        BY <1>2, <2>2, <4>1, StartUndoLeft
    <3> QED
      BY <2>2, <3>5, <3>6 DEF RunStep, UndoSucceeds, UndoFails, InPhase
  <2>3. CASE s.phase = "undo"
    <3>2. \E ok \in BOOLEAN : saga'[c] = AfterUndo(s, ok)
      BY <2>3 DEF RunStep, StepSucceeds, StepFails, UndoSucceeds, UndoFails, InPhase, SagaTypeOK
    <3> QED
      BY <1>2, <1>5, <2>3, <3>2, AfterUndoLeft
  <2> QED
    BY <2>1, <2>2, <2>3
<1>6. CASE Awaited(c) = "SwapIdentity"
  <2>1. s.job.kind = "Failover" /\ s.phase = "forward" /\ s.done = 1
    BY <1>1, <1>6, SwapIsLast DEF InPhase
  <2>2. g # h => p.key = Junk
    BY <1>2, <1>f, <2>1 DEF FailoverLeft, Underway
  <2>3. /\ Effect(c) = Forward("SwapIdentity", fleet, h, g, s.job.version)
        /\ HalfEffect(c) = HalfSwap("SwapIdentity", fleet, h, g)
    BY <1>6, <2>1 DEF Effect, HalfEffect, HostOf, SpareOf, InPhase
  <2> DEFINE swapped == {Forward("SwapIdentity", fleet, h, g, s.job.version),
                         HalfSwap("SwapIdentity", fleet, h, g)}
  <2>4. fleet' = fleet \/ fleet' \in swapped
    BY <2>3 DEF RunStep, StepSucceeds, StepFails, UndoSucceeds, UndoFails, AfterFailure
  <2>5. ASSUME g # h, fleet' \in swapped
        PROVE  p2.key = Junk /\ (q2.infra => q2.key = OwnKey(h))
    <3>1. /\ p2.key = Junk
          /\ fleet[g].infra => q2 = [fleet[g] EXCEPT !.key = OwnKey(h)]
          /\ ~fleet[g].infra => q2 = fleet[g]
      <4>1. fleet \in Fleets /\ h \in Hosts /\ g \in Hosts /\ s.job.version \in Versions
        BY <1>1, <1>2
      <4>2. g # h /\ fleet[h].key = Junk
        BY <2>2, <2>5
      <4> HIDE DEF s, h, g
      <4> QED
        BY <2>5, <4>1, <4>2, SwapFromDrained
    <3> QED
      BY <1>1, <1>2, <3>1 DEF Fleets, HostRecord
  <2> HIDE DEF swapped
  <2>8. CASE StepSucceeds(c)
    <3>1. /\ fleet' \in swapped /\ s.done + 1 = Len(Plan(c))
          /\ saga'[c] = AfterStep(s, s.done + 1 = Len(Plan(c)))
      BY <1>f, <2>1, <2>3, <2>8 DEF StepSucceeds, SagaTypeOK, Plan, swapped
    <3>2. /\ saga'[c].job = s.job /\ saga'[c].phase = "returned"
          /\ saga'[c].status = "Succeeded"
      BY <1>2, <3>1 DEF AfterStep, Busy, SagaRecord
    <3>3. g # h => p2.key = Junk /\ (q2.infra => q2.key = OwnKey(h))
      BY <2>5, <3>1
    <3>4. FailoverLeft(saga'[c], p2, q2)
      BY <1>2, <3>2, <3>3 DEF FailoverLeft, Underway, Won
    <3> QED
      BY <2>1, <3>2, <3>4 DEF LeftBehind
  <2>9. CASE StepFails(c)
    <3>1. saga'[c] = StartUndo(s)
      BY <2>9 DEF StepFails, SagaTypeOK
    <3> QED
      BY <1>2, <2>1, <3>1, StartUndoLeft
  <2> QED
    BY <2>1, <2>8, <2>9 DEF RunStep, UndoSucceeds, UndoFails, InPhase
<1> QED
  BY <1>4, <1>5, <1>6

-----------------------------------------------------------------------------
(***************************************************************************)
(* The fleet invariant: a call that shares its hosts with no other has     *)
(* left them behind as its own steps did.  A call never gives up a host,   *)
(* so one that is alone now has been alone from the start.                 *)
(*                                                                         *)
(* The keys need less than that.  While no other call works on the primary *)
(* of a failover, a primary about to give its key away has stopped voting, *)
(* and a host votes with its own key or is the spare of the failover whose *)
(* primary had the key and does not vote.                                  *)
(***************************************************************************)
SwapAhead(c) ==
  FailingOver(c) /\ InPhase(c, "forward") /\ saga[c].done = 1 /\ SpareOf(c) # HostOf(c)

Received(c, x) ==
  /\ FailingOver(c) /\ x = SpareOf(c)
  /\ fleet[x].key = HostOf(c) /\ fleet[HostOf(c)].key = Junk

KeyAtHome(x) ==
  fleet[x].key \in {Junk, x} \/ \E c \in Calls : Received(c, x)

KeyInv ==
  /\ NoGhostVotes
  /\ PrimariesApart => /\ \A c \in Calls : SwapAhead(c) => fleet[HostOf(c)].key = Junk
                       /\ \A x \in Hosts : KeyAtHome(x)

FleetInv ==
  /\ \A c \in Calls : ~InPhase(c, "idle") /\ Alone(c) =>
       LeftBehind(saga[c], fleet[HostOf(c)], fleet[SpareOf(c)])
  /\ KeyInv

LEMMA TouchesItsHosts ==
  ASSUME SagaTypeOK, NEW c \in Calls, ~InPhase(c, "idle")
  PROVE  /\ HostOf(c) \in Hosts /\ SpareOf(c) \in Hosts
         /\ HostOf(c) \in Touches(c) /\ SpareOf(c) \in Touches(c)
<1>1. saga[c].job \in Jobs
  BY BusyCall DEF InPhase
<1>2. saga[c].job.kind # "Failover" => SpareOf(c) = HostOf(c)
  BY <1>1 DEF Jobs, HostOf, SpareOf
<1> QED
  BY <1>1, <1>2 DEF Jobs, HostOf, SpareOf, Touches

LEMMA JobKept ==
  ASSUME SagaTypeOK, NEW c \in Calls, RunStep(c)
  PROVE  /\ ~InPhase(c, "idle") /\ ~InPhase(c, "idle")' /\ saga'[c].job = saga[c].job
         /\ \A d \in Calls \ {c} : saga'[d] = saga[d]
         /\ \A d \in Calls : Touches(d)' = Touches(d)
<1>1. InPhase(c, "forward") \/ InPhase(c, "undo")
  BY DEF RunStep, StepSucceeds, StepFails, UndoSucceeds, UndoFails
<1>2. saga[c] \in SagaRecord
  BY <1>1, BusyCall DEF InPhase
<1>3. \A d \in Calls \ {c} : saga'[d] = saga[d]
  BY DEF RunStep, StepSucceeds, StepFails, UndoSucceeds, UndoFails, SagaTypeOK
<1>4. \/ \E last \in BOOLEAN : saga'[c] = AfterStep(saga[c], last)
      \/ saga'[c] = StartUndo(saga[c])
      \/ \E ok \in BOOLEAN : saga'[c] = AfterUndo(saga[c], ok)
  <2>1. CASE StepSucceeds(c)
    <3> DEFINE last == saga[c].done + 1 = Len(Plan(c))
    <3>1. saga'[c] = AfterStep(saga[c], last)
      BY <2>1 DEF StepSucceeds, SagaTypeOK
    <3>2. last \in BOOLEAN
      OBVIOUS
    <3> QED
      BY <3>1, <3>2
  <2>2. CASE StepFails(c)
    BY <2>2 DEF StepFails, SagaTypeOK
  <2>3. CASE UndoSucceeds(c)
    BY <2>3 DEF UndoSucceeds, SagaTypeOK
  <2>4. CASE UndoFails(c)
    BY <2>4 DEF UndoFails, SagaTypeOK
  <2> QED
    BY <2>1, <2>2, <2>3, <2>4 DEF RunStep
<1>5. saga'[c].job = saga[c].job /\ saga'[c].phase # "idle"
  BY <1>2, <1>4 DEF AfterStep, StartUndo, AfterUndo, SagaRecord
<1>6. Touches(c)' = Touches(c)
  BY <1>1, <1>5 DEF Touches, InPhase
<1>7. \A d \in Calls \ {c} : Touches(d)' = Touches(d)
  BY <1>3 DEF Touches, InPhase
<1> QED
  BY <1>1, <1>3, <1>5, <1>6, <1>7 DEF InPhase

LEMMA InitFleet == SagaInit => FleetInv
<1> SUFFICES ASSUME SagaInit PROVE FleetInv
  OBVIOUS
<1>1. \A h \in Hosts : fleet[h] \in {Absent} \cup {Serving(h, v) : v \in Versions}
  BY DEF SagaInit, FleetInit
<1>2. \A h \in Hosts : (fleet[h].infra \/ fleet[h].key = Junk) /\ fleet[h].key \in {Junk, h}
  BY <1>1 DEF Absent, Serving, OwnKey
<1>3. \A c \in Calls : InPhase(c, "idle")
  BY DEF SagaInit, InPhase, Idle
<1>4. KeyInv
  BY <1>2, <1>3 DEF KeyInv, NoGhostVotes, SwapAhead, FailingOver, KeyAtHome
<1> QED
  BY <1>3, <1>4 DEF FleetInv

LEMMA SameKeys ==
  ASSUME KeyInv, UNCHANGED <<fleet, saga>>
  PROVE  KeyInv'
BY DEF KeyInv, NoGhostVotes, PrimariesApart, SwapAhead, KeyAtHome, Received, FailingOver, Touches,
       InPhase, HostOf, SpareOf

LEMMA SameFleet ==
  ASSUME FleetInv, UNCHANGED <<fleet, saga>>
  PROVE  FleetInv'
BY SameKeys DEF FleetInv, Alone, Touches, InPhase, HostOf, SpareOf

LEMMA BeginKeys ==
  ASSUME SagaTypeOK, KeyInv, NEW c \in Calls, NEW job \in Jobs, Begin(c, job)
  PROVE  KeyInv'
<1>1. /\ saga'[c] = Entered(job) /\ \A d \in Calls \ {c} : saga'[d] = saga[d]
      /\ fleet' = fleet /\ InPhase(c, "idle") /\ Touches(c) = {}
  BY DEF Begin, SagaTypeOK, Touches
<1>2. \A d \in Calls \ {c} : /\ Touches(d)' = Touches(d) /\ (FailingOver(d)' <=> FailingOver(d))
                             /\ (SwapAhead(d)' <=> SwapAhead(d))
                             /\ HostOf(d)' = HostOf(d) /\ SpareOf(d)' = SpareOf(d)
  BY <1>1 DEF Touches, FailingOver, SwapAhead, InPhase, HostOf, SpareOf
<1>3. ~FailingOver(c) /\ ~SwapAhead(c)'
  BY <1>1 DEF FailingOver, SwapAhead, InPhase, Entered
<1>4. PrimariesApart' => PrimariesApart
  <2> SUFFICES ASSUME PrimariesApart', NEW d \in Calls, FailingOver(d), NEW e \in Calls \ {d}
               PROVE  saga[d].job.host \notin Touches(e)
    BY DEF PrimariesApart
  <2>1. d # c
    BY <1>3
  <2>2. saga'[d].job.host \notin Touches(e)'
    BY <1>2, <2>1 DEF PrimariesApart
  <2> QED
    BY <1>1, <1>2, <2>1, <2>2
<1>5. \A x \in Hosts : KeyAtHome(x) => KeyAtHome(x)'
  <2> SUFFICES ASSUME NEW x \in Hosts, NEW d \in Calls, Received(d, x)
               PROVE  Received(d, x)'
    BY <1>1 DEF KeyAtHome
  <2>1. d # c
    BY <1>3 DEF Received
  <2> QED
    BY <1>1, <1>2, <2>1 DEF Received
<1> QED
  BY <1>1, <1>2, <1>3, <1>4, <1>5 DEF KeyInv, NoGhostVotes

(***************************************************************************)
(* One agent call, answered or not.  What it does is in Effect and         *)
(* AfterFailure; the saga may have moved on with it, or be left to repeat  *)
(* it, but a swap comes ahead only after the drain.                        *)
(***************************************************************************)
Attempted(c) ==
  /\ InPhase(c, "forward") \/ InPhase(c, "undo")
  /\ fleet' \in {Effect(c)} \cup AfterFailure(c)
  /\ \A d \in Calls : /\ Touches(d)' = Touches(d) /\ (FailingOver(d)' <=> FailingOver(d))
                      /\ HostOf(d)' = HostOf(d) /\ SpareOf(d)' = SpareOf(d)
                      /\ d # c => (SwapAhead(d)' <=> SwapAhead(d))
  /\ SwapAhead(c)' /\ ~SwapAhead(c) =>
       InPhase(c, "forward") /\ Awaited(c) = "Drain" /\ fleet' = Effect(c)

\* The steps of a failover, but the swap, are the drain and its compensation,
\* which does nothing.
LEMMA FailoverDrains ==
  ASSUME SagaTypeOK, NEW c \in Calls, InPhase(c, "forward") \/ InPhase(c, "undo"),
         FailingOver(c), Awaited(c) # "SwapIdentity"
  PROVE  Awaited(c) = "Drain" /\ ~SwapAhead(c)
<1>1. saga[c].phase # "idle"
  BY DEF InPhase
<1>2. saga[c].done \in Nat /\ Plan(c) = <<"Drain", "SwapIdentity">>
  BY <1>1, BusyCall DEF FailingOver, Plan, BuildPlan
<1>3. Len(Plan(c)) = 2 /\ Plan(c)[1] = "Drain" /\ Plan(c)[2] = "SwapIdentity"
  BY <1>2
<1>4. Awaited(c) = "Drain"
  BY <1>3, AwaitedIsAStep
<1>5. ~(InPhase(c, "forward") /\ saga[c].done = 1)
  BY <1>3, AwaitedIsAStep
<1> QED
  BY <1>4, <1>5 DEF SwapAhead

LEMMA AttemptKeys ==
  ASSUME SagaTypeOK, KeyInv, NEW c \in Calls, Attempted(c)
  PROVE  KeyInv'
<1> DEFINE h == HostOf(c)
           g == SpareOf(c)
<1>1. /\ InPhase(c, "forward") \/ InPhase(c, "undo")
      /\ ~InPhase(c, "idle") /\ saga[c].phase # "idle" /\ fleet \in Fleets
      /\ Awaited(c) \in Steps /\ fleet' \in {Effect(c)} \cup AfterFailure(c)
  BY AwaitedIsAStep DEF Attempted, InPhase, SagaTypeOK, Fleets
<1>2. h \in Hosts /\ g \in Hosts /\ saga[c].job.version \in Versions
  BY <1>1, BusyCall DEF HostOf, SpareOf
<1>3. \A x \in Hosts : x \notin Touches(c) => fleet'[x] = fleet[x]
  BY <1>1, Footprint
<1>4. PrimariesApart' => PrimariesApart
  BY DEF PrimariesApart, Attempted, HostOf
<1>5. ASSUME PrimariesApart, NEW d \in Calls \ {c}, FailingOver(d)
      PROVE  /\ HostOf(d) \in Hosts /\ HostOf(d) # h /\ HostOf(d) \notin Touches(c)
             /\ fleet'[HostOf(d)] = fleet[HostOf(d)]
  <2>1. HostOf(d) \in Hosts
    BY <1>5, TouchesItsHosts DEF FailingOver
  <2>2. HostOf(d) \notin Touches(c) /\ h \in Touches(c)
    BY <1>1, <1>5, TouchesItsHosts DEF PrimariesApart, HostOf
  <2> QED
    BY <1>3, <2>1, <2>2
<1>6. CASE Awaited(c) # "SwapIdentity"
  <2> DEFINE p == fleet[h]
             r == IF InPhase(c, "forward")
                  THEN After(Awaited(c), h, saga[c].job.version, p) ELSE Back(Awaited(c), p)
  <2>1. /\ Effect(c) = [fleet EXCEPT ![h] = r]
        /\ HalfEffect(c) = fleet
    BY <1>1, <1>2, <1>6, OneHost DEF Effect, HalfEffect, HostOf, SpareOf
  <2>2. /\ \A x \in Hosts \ {h} : fleet'[x] = fleet[x]
        /\ fleet'[h] = p \/ fleet'[h] = r
        /\ fleet' = Effect(c) => fleet'[h] = r
    BY <1>1, <1>2, <2>1 DEF AfterFailure, Fleets
  <2>3. p \in HostRecord /\ (p.infra \/ p.key = Junk)
    BY <1>1, <1>2 DEF KeyInv, NoGhostVotes, Fleets
  <2>4. (r.infra \/ r.key = Junk) /\ r.key \in {Junk, p.key, OwnKey(h)}
    BY <2>3 DEF After, Back, DrainedHost, Serving, Absent, HostRecord
  <2>5. FailingOver(c) => /\ Awaited(c) = "Drain" /\ ~SwapAhead(c)
                          /\ r.key \in {Junk, p.key}
                          /\ InPhase(c, "forward") => r.key = Junk
    BY <1>1, <1>6, <2>3, FailoverDrains DEF After, Back, DrainedHost, HostRecord
  <2> HIDE DEF r
  <2>6. \A x \in Hosts : fleet'[x].infra \/ fleet'[x].key = Junk
    BY <2>2, <2>3, <2>4 DEF KeyInv, NoGhostVotes
  <2>7. ASSUME PrimariesApart, NEW d \in Calls, SwapAhead(d)'
        PROVE  fleet'[HostOf(d)].key = Junk
    <3>1. CASE d = c
      <4>1. FailingOver(c) /\ ~SwapAhead(c)
        BY <2>5, <2>7, <3>1 DEF SwapAhead, Attempted
      <4>2. InPhase(c, "forward") /\ fleet' = Effect(c)
        BY <2>7, <3>1, <4>1 DEF Attempted
      <4>4. fleet'[h].key = Junk
        BY <2>2, <2>5, <4>1, <4>2
      <4> QED
        BY <3>1, <4>4
    <3>2. CASE d # c
      <4>1. SwapAhead(d)
        BY <2>7, <3>2 DEF Attempted
      <4>2. fleet[HostOf(d)].key = Junk
        BY <2>7, <4>1 DEF KeyInv
      <4> QED
        BY <1>5, <2>7, <3>2, <4>1, <4>2 DEF SwapAhead
    <3> QED
      BY <3>1, <3>2
  <2>8. ASSUME PrimariesApart, NEW x \in Hosts
        PROVE  KeyAtHome(x)'
    <3>1. ASSUME NEW d \in Calls, Received(d, x), fleet'[x].key = fleet[x].key
          PROVE  KeyAtHome(x)'
      <4>1. CASE d # c
        <5>1. fleet'[HostOf(d)] = fleet[HostOf(d)]
          BY <1>5, <2>8, <3>1, <4>1 DEF Received
        <5> QED
          BY <3>1, <5>1 DEF Received, KeyAtHome, Attempted
      <4>2. CASE d = c
        <5>1. FailingOver(c) /\ p.key = Junk
          BY <3>1, <4>2 DEF Received
        <5>2. fleet'[h].key = Junk
          BY <2>2, <2>5, <5>1
        <5> QED
          BY <3>1, <4>2, <5>2 DEF Received, KeyAtHome, Attempted
      <4> QED
        BY <4>1, <4>2
    <3>2. ASSUME fleet'[x].key = fleet[x].key
          PROVE  KeyAtHome(x)'
      <4>1. KeyAtHome(x)
        BY <2>8 DEF KeyInv
      <4> QED
        BY <3>1, <3>2, <4>1 DEF KeyAtHome
    <3>3. CASE x # h
      BY <2>2, <3>2, <3>3
    <3>4. CASE x = h
      <4>1. fleet'[h].key \in {Junk, p.key, OwnKey(h)}
        BY <2>2, <2>4
      <4>2. CASE fleet'[h].key = p.key
        BY <3>2, <3>4, <4>2
      <4>3. CASE fleet'[h].key \in {Junk, OwnKey(h)}
        BY <3>4, <4>3 DEF KeyAtHome, OwnKey
      <4> QED
        BY <4>1, <4>2, <4>3
    <3> QED
      BY <3>3, <3>4
  <2> QED
    <3>1. \A d \in Calls : HostOf(d)' = HostOf(d)
      BY DEF Attempted
    <3>2. PrimariesApart' => \A d \in Calls : SwapAhead(d)' => fleet'[HostOf(d)'].key = Junk
      BY <1>4, <2>7, <3>1
    <3> QED
      BY <1>4, <2>6, <2>8, <3>2 DEF KeyInv, NoGhostVotes
<1>7. CASE Awaited(c) = "SwapIdentity"
  <2>1. FailingOver(c) /\ InPhase(c, "forward") /\ saga[c].done = 1
    BY <1>1, <1>7, SwapIsLast DEF FailingOver
  <2> DEFINE swapped == {Forward("SwapIdentity", fleet, h, g, saga[c].job.version),
                         HalfSwap("SwapIdentity", fleet, h, g)}
  <2>2. fleet' = fleet \/ fleet' \in swapped
    BY <1>1, <1>7, <2>1 DEF AfterFailure, Effect, HalfEffect, HostOf, SpareOf
  <2>3. \A x \in Hosts \ {h, g} : fleet'[x] = fleet[x]
    BY <1>2, <1>3 DEF Touches, HostOf, SpareOf
  <2>4. \A x \in Hosts : fleet'[x].infra \/ fleet'[x].key = Junk
    <3>1. \A x \in Hosts : fleet[x].infra \/ fleet[x].key = Junk
      BY DEF KeyInv, NoGhostVotes
    <3> HIDE DEF h, g
    <3> QED
      BY <1>1, <1>2, <2>2, <3>1, SwapInPlace
  <2>5. ASSUME g # h, fleet[h].key = Junk
        PROVE  /\ fleet'[h].key = Junk
               /\ fleet'[g].key = fleet[g].key \/ fleet'[g].key = OwnKey(h)
    <3>1. fleet[g] \in HostRecord
      BY <1>1, <1>2 DEF Fleets
    <3>2. CASE fleet' \in swapped
      <4>1. /\ fleet'[h].key = Junk
            /\ fleet[g].infra => fleet'[g] = [fleet[g] EXCEPT !.key = OwnKey(h)]
            /\ ~fleet[g].infra => fleet'[g] = fleet[g]
        <5> HIDE DEF h, g
        <5> QED
          BY <1>1, <1>2, <2>5, <3>2, SwapFromDrained
      <4> QED
        BY <3>1, <4>1 DEF HostRecord
    <3> QED
      BY <2>2, <2>5, <3>2
  <2>6. ASSUME g = h
        PROVE  fleet'[h].key \in {fleet[h].key, OwnKey(h)}
    <3> HIDE DEF h, g
    <3> QED
      BY <1>1, <1>2, <2>2, <2>6, SwapBack
  <2> HIDE DEF swapped
  <2>7. ASSUME PrimariesApart, g # h
        PROVE  fleet[h].key = Junk
    BY <2>1, <2>7 DEF KeyInv, SwapAhead
  <2>8. ASSUME PrimariesApart, NEW d \in Calls, SwapAhead(d)'
        PROVE  fleet'[HostOf(d)'].key = Junk
    <3>1. CASE d = c
      BY <2>5, <2>7, <2>8, <3>1 DEF SwapAhead, Attempted
    <3>2. CASE d # c
      <4>1. SwapAhead(d) /\ HostOf(d)' = HostOf(d)
        BY <2>8, <3>2 DEF Attempted
      <4>2. fleet[HostOf(d)].key = Junk
        BY <2>8, <4>1 DEF KeyInv
      <4> QED
        BY <1>5, <2>8, <3>2, <4>1, <4>2 DEF SwapAhead
    <3> QED
      BY <3>1, <3>2
  <2>9. ASSUME PrimariesApart, NEW x \in Hosts
        PROVE  KeyAtHome(x)'
    <3>1. KeyAtHome(x)
      BY <2>9 DEF KeyInv
    <3>2. ASSUME NEW d \in Calls \ {c}, Received(d, x), fleet'[x].key = fleet[x].key
          PROVE  KeyAtHome(x)'
      <4>1. fleet'[HostOf(d)] = fleet[HostOf(d)]
        BY <1>5, <2>9, <3>2 DEF Received
      <4> QED
        BY <3>2, <4>1 DEF Received, KeyAtHome, Attempted
    <3>3. CASE x \notin {h, g}
      <4>1. ~Received(c, x)
        BY <3>3 DEF Received
      <4> QED
        BY <2>3, <3>1, <3>2, <3>3, <4>1 DEF KeyAtHome
    <3>4. CASE g # h /\ x = h
      BY <2>5, <2>7, <2>9, <3>4 DEF KeyAtHome
    <3>5. CASE g # h /\ x = g
      <4>1. fleet'[h].key = Junk /\ (fleet'[g].key = fleet[g].key \/ fleet'[g].key = OwnKey(h))
        BY <2>5, <2>7, <2>9, <3>5
      <4>2. CASE fleet'[g].key \in {Junk, h}
        BY <2>1, <3>5, <4>1, <4>2 DEF KeyAtHome, Received, Attempted
      <4>3. CASE fleet'[g].key = fleet[g].key
        <5>1. CASE Received(c, x)
          BY <3>5, <4>2, <4>3, <5>1 DEF Received
        <5>2. CASE ~Received(c, x)
          BY <3>1, <3>2, <3>5, <4>3, <5>2 DEF KeyAtHome
        <5> QED
          BY <5>1, <5>2
      <4> QED
        BY <4>1, <4>2, <4>3 DEF OwnKey
    <3>6. CASE g = h /\ x = h
      <4>1. fleet'[h].key \in {fleet[h].key, OwnKey(h)}
        BY <2>6, <3>6
      <4>2. CASE fleet'[h].key \in {Junk, h}
        BY <3>6, <4>2 DEF KeyAtHome
      <4>3. CASE fleet'[h].key = fleet[h].key
        <5>1. CASE Received(c, x)
          BY <3>6, <4>2, <4>3, <5>1 DEF Received
        <5>2. CASE ~Received(c, x)
          BY <3>1, <3>2, <3>6, <4>3, <5>2 DEF KeyAtHome
        <5> QED
          BY <5>1, <5>2
      <4> QED
        BY <4>1, <4>2, <4>3 DEF OwnKey
    <3> QED
      BY <3>3, <3>4, <3>5, <3>6
  <2> QED
    BY <1>4, <2>4, <2>8, <2>9 DEF KeyInv, NoGhostVotes
<1> QED
  BY <1>6, <1>7

LEMMA BeginFleet ==
  ASSUME SagaTypeOK, FleetInv, NEW c \in Calls, NEW job \in Jobs, Begin(c, job)
  PROVE  FleetInv'
<1>1. /\ saga'[c] = Entered(job) /\ \A d \in Calls \ {c} : saga'[d] = saga[d]
      /\ fleet' = fleet /\ Touches(c) = {}
  BY DEF Begin, SagaTypeOK, Touches
<1>2. \A d \in Calls \ {c} : Touches(d)' = Touches(d)
  BY <1>1 DEF Touches, InPhase
<1>3. ASSUME NEW d \in Calls, ~InPhase(d, "idle")', Alone(d)'
      PROVE  LeftBehind(saga[d], fleet[HostOf(d)], fleet[SpareOf(d)])'
  <2>1. CASE d = c
    <3> QED
      BY <1>1, <2>1, EnteredLeft
  <2>2. CASE d # c
    <3>1. ~InPhase(d, "idle")
      BY <1>1, <1>3, <2>2 DEF InPhase
    <3>2. Alone(d)
      BY <1>1, <1>2, <1>3, <2>2 DEF Alone
    <3>3. LeftBehind(saga[d], fleet[HostOf(d)], fleet[SpareOf(d)])
      BY <3>1, <3>2 DEF FleetInv
    <3>4. saga'[d] = saga[d] /\ HostOf(d)' = HostOf(d) /\ SpareOf(d)' = SpareOf(d)
      BY <1>1, <2>2 DEF HostOf, SpareOf
    <3> QED
      BY <1>1, <3>3, <3>4
  <2> QED
    BY <2>1, <2>2
<1>4. KeyInv'
  BY BeginKeys DEF FleetInv
<1> QED
  BY <1>4, <1>3 DEF FleetInv

LEMMA RunStepKeys ==
  ASSUME SagaTypeOK, KeyInv, NEW c \in Calls, RunStep(c)
  PROVE  KeyInv'
<1>1. /\ InPhase(c, "forward") \/ InPhase(c, "undo")
      /\ fleet' \in {Effect(c)} \cup AfterFailure(c)
  BY DEF RunStep, StepSucceeds, StepFails, UndoSucceeds, UndoFails
<1>2. \A d \in Calls : /\ Touches(d)' = Touches(d) /\ (FailingOver(d)' <=> FailingOver(d))
                       /\ HostOf(d)' = HostOf(d) /\ SpareOf(d)' = SpareOf(d)
  BY JobKept DEF FailingOver, InPhase, HostOf, SpareOf
<1>3. \A d \in Calls \ {c} : SwapAhead(d)' <=> SwapAhead(d)
  BY <1>2, JobKept DEF SwapAhead, InPhase
<1>4. ASSUME SwapAhead(c)', ~SwapAhead(c)
      PROVE  InPhase(c, "forward") /\ Awaited(c) = "Drain" /\ fleet' = Effect(c)
  <2>0. saga'[c].phase = "forward" /\ saga'[c].done = 1 /\ saga[c] \in SagaRecord
    BY <1>1, <1>4, BusyCall DEF SwapAhead, InPhase
  <2>1. ~StepFails(c)
    <3>1. StartUndo(saga[c]).phase # "forward"
      BY <2>0 DEF StartUndo, SagaRecord
    <3>2. StepFails(c) => saga'[c] = StartUndo(saga[c])
      BY DEF StepFails, SagaTypeOK
    <3> QED
      BY <2>0, <3>1, <3>2
  <2>2. ~UndoSucceeds(c) /\ ~UndoFails(c)
    <3>1. \A ok \in BOOLEAN : AfterUndo(saga[c], ok).phase # "forward"
      BY <2>0 DEF AfterUndo, SagaRecord
    <3>2. UndoSucceeds(c) \/ UndoFails(c) =>
            \E ok \in BOOLEAN : saga'[c] = AfterUndo(saga[c], ok)
      BY DEF UndoSucceeds, UndoFails, SagaTypeOK
    <3> QED
      BY <2>0, <3>1, <3>2
  <2>3. /\ InPhase(c, "forward") /\ fleet' = Effect(c)
        /\ saga'[c].done = saga[c].done + 1
    <3>1. StepSucceeds(c)
      BY <2>1, <2>2 DEF RunStep
    <3>2. saga'[c] = AfterStep(saga[c], saga[c].done + 1 = Len(Plan(c)))
      BY <3>1 DEF StepSucceeds, SagaTypeOK
    <3>3. saga'[c].done = saga[c].done + 1
      BY <2>0, <3>2 DEF AfterStep, SagaRecord
    <3> QED
      BY <3>1, <3>3 DEF StepSucceeds
  <2>4. FailingOver(c) /\ saga[c].done = 0
    BY <1>2, <1>4, <2>0, <2>3 DEF SwapAhead, SagaRecord
  <2>5. Awaited(c) = "Drain"
    BY <2>3, <2>4 DEF Awaited, Plan, BuildPlan, FailingOver
  <2> QED
    BY <2>3, <2>5
<1>5. Attempted(c)
  BY <1>1, <1>2, <1>3, <1>4 DEF Attempted
<1> QED
  BY <1>5, AttemptKeys

LEMMA RunStepFleet ==
  ASSUME SagaTypeOK, FleetInv, NEW c \in Calls, RunStep(c)
  PROVE  FleetInv'
<1>1. \A d \in Calls : Touches(d)' = Touches(d)
  BY JobKept
<1>2. ASSUME NEW d \in Calls, ~InPhase(d, "idle")', Alone(d)'
      PROVE  LeftBehind(saga[d], fleet[HostOf(d)], fleet[SpareOf(d)])'
  <2>1. Alone(d)
    BY <1>1, <1>2 DEF Alone
  <2>2. CASE d = c
    <3>1. LeftBehind(saga[c], fleet[HostOf(c)], fleet[SpareOf(c)])
      BY <2>1, <2>2, JobKept DEF FleetInv
    <3>2. LeftBehind(saga'[c], fleet'[HostOf(c)], fleet'[SpareOf(c)])
      BY <3>1, LeftStep DEF FleetInv, KeyInv
    <3>3. HostOf(c)' = HostOf(c) /\ SpareOf(c)' = SpareOf(c)
      BY JobKept DEF HostOf, SpareOf
    <3> QED
      BY <2>2, <3>2, <3>3
  <2>3. CASE d # c
    <3>1. saga'[d] = saga[d] /\ ~InPhase(d, "idle")
      BY <1>2, <2>3, JobKept DEF InPhase
    <3>2. /\ HostOf(d) \in Hosts /\ HostOf(d) \notin Touches(c)
          /\ SpareOf(d) \in Hosts /\ SpareOf(d) \notin Touches(c)
      BY <2>1, <2>3, <3>1, TouchesItsHosts DEF Alone
    <3>3. fleet'[HostOf(d)] = fleet[HostOf(d)] /\ fleet'[SpareOf(d)] = fleet[SpareOf(d)]
      BY <3>2, StepFootprint
    <3>4. HostOf(d)' = HostOf(d) /\ SpareOf(d)' = SpareOf(d)
      BY <3>1 DEF HostOf, SpareOf
    <3>5. LeftBehind(saga[d], fleet[HostOf(d)], fleet[SpareOf(d)])
      BY <2>1, <3>1 DEF FleetInv
    <3> QED
      BY <3>1, <3>3, <3>4, <3>5
  <2> QED
    BY <2>2, <2>3
<1>3. KeyInv'
  BY RunStepKeys DEF FleetInv
<1> QED
  BY <1>2, <1>3 DEF FleetInv

LEMMA FleetStep == SagaTypeOK /\ FleetInv /\ [SagaNext]_sagaVars => FleetInv'
<1> SUFFICES ASSUME SagaTypeOK, FleetInv, [SagaNext]_sagaVars PROVE FleetInv'
  OBVIOUS
<1>1. CASE SagaNext
  BY <1>1, BeginFleet, RunStepFleet DEF SagaNext
<1>2. CASE UNCHANGED sagaVars
  BY <1>2, SameFleet DEF sagaVars
<1> QED
  BY <1>1, <1>2

LEMMA FleetKept == SagaSpec => [](SagaTypeOK /\ FleetInv)
BY InitType, InitFleet, FleetStep, TypeCorrect, PTL DEF SagaSpec

(***************************************************************************)
(* The executor may run over an agent that repeats an attempt: one that    *)
(* failed may have left the effect of the step behind, or half of it,      *)
(* before the step is over.  LeftBehind allows for that, and another       *)
(* attempt starts from there.                                              *)
(***************************************************************************)
\* An attempt at any step but the swap does all or nothing, on one host.
LEMMA AttemptOnHost ==
  ASSUME SagaTypeOK, NEW c \in Calls, Awaiting(c), fleet' \in AfterFailure(c),
         Awaited(c) # "SwapIdentity"
  PROVE  \/ fleet' = fleet
         \/ fleet' = [fleet EXCEPT ![HostOf(c)] =
              IF InPhase(c, "forward")
              THEN After(Awaited(c), HostOf(c), saga[c].job.version, fleet[HostOf(c)])
              ELSE Back(Awaited(c), fleet[HostOf(c)])]
<1>1. saga[c].phase # "idle" /\ fleet \in Fleets /\ Awaited(c) \in Steps
  BY AwaitedIsAStep DEF Awaiting, InPhase, SagaTypeOK, Fleets
<1>2. HostOf(c) \in Hosts /\ SpareOf(c) \in Hosts /\ saga[c].job.version \in Versions
  BY <1>1, BusyCall DEF HostOf, SpareOf
<1>3. /\ Effect(c) = [fleet EXCEPT ![HostOf(c)] =
           IF InPhase(c, "forward")
           THEN After(Awaited(c), HostOf(c), saga[c].job.version, fleet[HostOf(c)])
           ELSE Back(Awaited(c), fleet[HostOf(c)])]
      /\ HalfEffect(c) = fleet
  BY <1>1, <1>2, OneHost DEF Effect, HalfEffect, HostOf, SpareOf
<1> QED
  BY <1>3 DEF AfterFailure

LEMMA LeftInTheMiddle ==
  ASSUME SagaTypeOK, NEW c \in Calls, Awaiting(c), fleet' \in AfterFailure(c),
         LeftBehind(saga[c], fleet[HostOf(c)], fleet[SpareOf(c)])
  PROVE  LeftBehind(saga[c], fleet'[HostOf(c)], fleet'[SpareOf(c)])
<1> DEFINE s == saga[c]
           h == HostOf(c)
           g == SpareOf(c)
           p == fleet[h]
           p2 == fleet'[h]
           q2 == fleet'[g]
<1>1. /\ InPhase(c, "forward") \/ InPhase(c, "undo")
      /\ s.phase \in {"forward", "undo"} /\ fleet \in Fleets
  BY DEF Awaiting, InPhase, SagaTypeOK, Fleets
<1>2. /\ Busy(s) /\ h \in Hosts /\ g \in Hosts /\ s.job \in Jobs /\ s.job.kind \in Kinds
      /\ h = s.job.host /\ g = s.job.spare /\ p \in HostRecord
      /\ s.job.version \in Versions /\ s.done \in Nat /\ s.left \in Nat
      /\ s.job.kind # "Failover" => g = h
  BY <1>1, BusyCall DEF Busy, HostOf, SpareOf, Fleets, Jobs
<1>3. s.status = "Running" /\ ~Won(s)
  BY <1>1, <1>2 DEF Busy, WithinPlan, Won
<1>5. CASE Awaited(c) # "SwapIdentity" /\ s.job.kind # "Failover"
  <2>3. /\ p2 = p \/ p2 = IF InPhase(c, "forward")
                          THEN After(Awaited(c), h, s.job.version, p)
                          ELSE Back(Awaited(c), p)
        /\ q2 = p2
    BY <1>1, <1>2, <1>5, AttemptOnHost DEF Fleets
  <2>5. CASE s.job.kind = "Provision"
    <3>1. ASSUME s.phase = "forward"
          PROVE  /\ s.done >= 1 => p2.infra
                 /\ s.done = 3 => p2 = Serving(s.job.host, s.job.version)
      <4>1. /\ s.done >= 1 => p.infra
            /\ s.done = 3 => p = Serving(s.job.host, s.job.version)
        BY <2>5, <3>1 DEF LeftBehind, ProvisionLeft, Underway
      <4>2. s.done \in {0, 1, 2, 3}
        BY <1>2, <2>5, <3>1 DEF Busy, WithinPlan, BuildPlan
      <4>3. Awaited(c) = <<"ApplyInfra", "TuneHost", "StartValidator", "AwaitCatchup">>[s.done + 1]
        BY <2>5, <3>1 DEF Awaited, Plan, BuildPlan, InPhase
      <4>4. p2 = p \/ p2 = After(Awaited(c), h, s.job.version, p)
        BY <2>3, <3>1 DEF InPhase
      <4>5. CASE s.done = 0
        BY <4>5
      <4>6. CASE s.done \in {1, 3}
        <5>1. Awaited(c) \in {"TuneHost", "AwaitCatchup"}
          BY <4>3, <4>6
        <5>2. p2 = p
          BY <4>4, <5>1 DEF After
        <5> QED
          BY <4>1, <4>6, <5>2
      <4>7. CASE s.done = 2
        <5>1. Awaited(c) = "StartValidator"
          BY <4>3, <4>7
        <5>2. p2 = p \/ p2 = Serving(h, s.job.version)
          BY <4>4, <5>1 DEF After
        <5> QED
          BY <4>1, <4>7, <5>2 DEF Serving
      <4> QED
        BY <4>2, <4>5, <4>6, <4>7
    <3>2. ProvisionLeft(s, p2)
      BY <1>3, <3>1 DEF ProvisionLeft, Underway
    <3> QED
      BY <2>5, <3>2 DEF LeftBehind
  <2>6. CASE s.job.kind = "Upgrade"
    <3>1. ASSUME s.phase = "forward", s.done = 2
          PROVE  p2.infra => p2 = Serving(s.job.host, s.job.version)
      <4>1. p.infra => p = Serving(s.job.host, s.job.version)
        BY <2>6, <3>1 DEF LeftBehind, UpgradeLeft, Underway
      <4>2. Awaited(c) = "AwaitCatchup"
        BY <2>6, <3>1 DEF Awaited, Plan, BuildPlan, InPhase
      <4>3. p2 = p
        BY <2>3, <3>1, <4>2 DEF After, InPhase
      <4> QED
        BY <4>1, <4>3
    <3>2. UpgradeLeft(s, p2)
      BY <1>3, <3>1 DEF UpgradeLeft, Underway
    <3> QED
      BY <2>6, <3>2 DEF LeftBehind
  <2> QED
    BY <1>3, <1>5, <2>5, <2>6 DEF LeftBehind
<1>6. CASE Awaited(c) # "SwapIdentity" /\ s.job.kind = "Failover"
  <2>1. s.phase = "forward" /\ s.done = 0 /\ Awaited(c) = "Drain"
    <3>1. CASE InPhase(c, "forward")
      <4>1. s.done \in {0, 1} /\ Awaited(c) = <<"Drain", "SwapIdentity">>[s.done + 1]
        BY <1>2, <1>6, <3>1 DEF Awaited, Plan, BuildPlan, Busy, WithinPlan, InPhase
      <4> QED
        BY <1>6, <3>1, <4>1 DEF InPhase
    <3>2. CASE InPhase(c, "undo")
      <4>1. s.left = 1 /\ Awaited(c) = <<"Drain", "SwapIdentity">>[s.left]
        BY <1>2, <1>6, <3>2 DEF Awaited, Plan, BuildPlan, Busy, WithinPlan, InPhase
      <4> QED
        BY <3>2, <4>1 DEF Awaiting, Reversible, InPhase
    <3> QED
      BY <1>1, <3>1, <3>2
  <2>2. FailoverLeft(s, p2, q2)
    BY <1>3, <2>1 DEF FailoverLeft, Underway
  <2> QED
    BY <1>6, <2>2 DEF LeftBehind
<1>7. CASE Awaited(c) = "SwapIdentity"
  <2>1. s.job.kind = "Failover" /\ s.phase = "forward" /\ s.done = 1
    BY <1>1, <1>7, SwapIsLast DEF InPhase
  <2>2. g # h => p.key = Junk
    BY <1>2, <2>1 DEF LeftBehind, FailoverLeft, Underway
  <2> DEFINE swapped == {Forward("SwapIdentity", fleet, h, g, s.job.version),
                         HalfSwap("SwapIdentity", fleet, h, g)}
  <2>3. fleet' = fleet \/ fleet' \in swapped
    BY <1>7, <2>1 DEF AfterFailure, Effect, HalfEffect, HostOf, SpareOf, InPhase
  <2>4. ASSUME g # h, fleet' \in swapped
        PROVE  p2.key = Junk
    <3>1. /\ p2.key = Junk
          /\ fleet[g].infra => q2 = [fleet[g] EXCEPT !.key = OwnKey(h)]
          /\ ~fleet[g].infra => q2 = fleet[g]
      <4>1. fleet \in Fleets /\ h \in Hosts /\ g \in Hosts /\ s.job.version \in Versions
        BY <1>1, <1>2
      <4>2. g # h /\ fleet[h].key = Junk
        BY <2>2, <2>4
      <4> HIDE DEF s, h, g
      <4> QED
        BY <2>4, <4>1, <4>2, SwapFromDrained
    <3> QED
      BY <3>1
  <2> HIDE DEF swapped
  <2>6. g # h => p2.key = Junk
    BY <2>2, <2>3, <2>4
  <2>7. FailoverLeft(s, p2, q2)
    <3>1. ~Underway(s, 0) /\ g = s.job.spare /\ h = s.job.host
      BY <1>2, <2>1 DEF Underway
    <3> HIDE DEF s, h, g, p2, q2
    <3> QED
      BY <1>3, <2>6, <3>1 DEF FailoverLeft
  <2> QED
    BY <2>1, <2>6, <2>7 DEF LeftBehind
<1> QED
  BY <1>5, <1>6, <1>7

\* An attempt that failed and is to be repeated.
LEMMA RepeatedFleet ==
  ASSUME SagaTypeOK, FleetInv, NEW c \in Calls,
         Awaiting(c), fleet' \in AfterFailure(c), UNCHANGED saga
  PROVE  FleetInv'
<1>1. \A d \in Calls : /\ Touches(d)' = Touches(d) /\ (Alone(d)' <=> Alone(d))
                       /\ HostOf(d)' = HostOf(d) /\ SpareOf(d)' = SpareOf(d)
                       /\ (InPhase(d, "idle")' <=> InPhase(d, "idle"))
  BY DEF Touches, Alone, HostOf, SpareOf, InPhase
<1>2. \A x \in Hosts : x \notin Touches(c) => fleet'[x] = fleet[x]
  BY Footprint DEF Awaiting
<1>3. ASSUME NEW d \in Calls, ~InPhase(d, "idle"), Alone(d)
      PROVE  LeftBehind(saga[d], fleet'[HostOf(d)], fleet'[SpareOf(d)])
  <2>1. LeftBehind(saga[d], fleet[HostOf(d)], fleet[SpareOf(d)])
    BY <1>3 DEF FleetInv
  <2>2. CASE d = c
    BY <2>1, <2>2, LeftInTheMiddle
  <2>3. CASE d # c
    <3>1. /\ HostOf(d) \in Hosts /\ HostOf(d) \notin Touches(c)
          /\ SpareOf(d) \in Hosts /\ SpareOf(d) \notin Touches(c)
      BY <1>3, <2>3, TouchesItsHosts DEF Alone
    <3> QED
      BY <1>2, <2>1, <3>1
  <2> QED
    BY <2>2, <2>3
<1>4. \A d \in Calls : ~InPhase(d, "idle")' /\ Alone(d)' =>
        LeftBehind(saga[d], fleet[HostOf(d)], fleet[SpareOf(d)])'
  BY <1>1, <1>3
<1>5. KeyInv'
  <2>1. Attempted(c)
    BY <1>1 DEF Attempted, Awaiting, FailingOver, SwapAhead, InPhase
  <2> QED
    BY <2>1, AttemptKeys DEF FleetInv
<1> QED
  BY <1>4, <1>5 DEF FleetInv

LEMMA FleetKeepsKeysApart ==
  SagaTypeOK /\ FleetInv => PrimariesApartNeverDoubleVote
<1> SUFFICES ASSUME SagaTypeOK, FleetInv, PrimariesApart,
                    NEW a \in Hosts, NEW b \in Hosts, a # b, fleet[a].key # Junk,
                    fleet[a].key = fleet[b].key
             PROVE  FALSE
  BY DEF PrimariesApartNeverDoubleVote, NoDoubleVote
<1> DEFINE Took(x) == \E c \in Calls : Received(c, x)
<1>1. /\ fleet[a].key = a \/ Took(a)
      /\ fleet[b].key = b \/ Took(b)
  BY DEF FleetInv, KeyInv, KeyAtHome
<1>2. ~(fleet[a].key = a /\ Took(b)) /\ ~(fleet[b].key = b /\ Took(a))
  BY DEF Received
<1>3. ~(Took(a) /\ Took(b))
  <2> SUFFICES ASSUME NEW c \in Calls, NEW d \in Calls, Received(c, a), Received(d, b)
               PROVE  FALSE
    OBVIOUS
  <2>1. FailingOver(c) /\ FailingOver(d) /\ HostOf(c) = HostOf(d)
    BY DEF Received
  <2>2. HostOf(c) \in Touches(d)
    BY <2>1, TouchesItsHosts DEF FailingOver
  <2>3. c = d
    BY <2>1, <2>2 DEF PrimariesApart, HostOf
  <2> QED
    BY <2>3 DEF Received
<1> QED
  BY <1>1, <1>2, <1>3

\* While no other call works on the primary of a failover no two hosts vote with
\* one staked key (saga.rs:157-159: drain, then move the key), in every state on
\* the way, after a swap that failed half way, and whatever other calls do to the
\* spare and to each other's hosts.
THEOREM KeysStayApart == SagaSpec => []PrimariesApartNeverDoubleVote
BY FleetKept, FleetKeepsKeysApart, PTL

LEMMA FleetDelivers == SagaTypeOK /\ FleetInv => SuccessDelivers
<1> SUFFICES ASSUME SagaTypeOK, FleetInv, NEW c \in Calls, InPhase(c, "returned"),
                    saga[c].status = "Succeeded", Alone(c)
             PROVE  LET j == saga[c].job
                        h == fleet[j.host]
                    IN  /\ j.kind = "Provision" => h = Serving(j.host, j.version)
                        /\ j.kind = "Upgrade" /\ h.infra => h = Serving(j.host, j.version)
                        /\ j.kind = "Failover" /\ j.spare # j.host =>
                             h.key = Junk /\ (fleet[j.spare].infra => fleet[j.spare].key = OwnKey(j.host))
                        /\ j.kind = "Decommission" => h = Absent
  BY DEF SuccessDelivers
<1>1. LeftBehind(saga[c], fleet[saga[c].job.host], fleet[saga[c].job.spare])
  BY DEF FleetInv, InPhase, HostOf, SpareOf
<1> QED
  BY <1>1 DEF LeftBehind, ProvisionLeft, UpgradeLeft, FailoverLeft, Won

\* What Succeeded says of a run is so on its host (saga.rs:94-121), as long as
\* no other run has touched it.
THEOREM SuccessIsDelivered == SagaSpec => []SuccessDelivers
BY FleetKept, FleetDelivers, PTL

-----------------------------------------------------------------------------
(***************************************************************************)
(* What SagaExecutor publishes and what it returns: the status of a call   *)
(* is true of its trail, for any fleet and any number of concurrent calls. *)
(*                                                                         *)
(* A step changes the locals and the trail of one call, and neither loop   *)
(* looks at anything else.  So the invariant is a predicate Book of a      *)
(* record and a sequence, and there is one lemma for each statement of the *)
(* loops.                                                                  *)
(***************************************************************************)
In(t, e) == \E i \in DOMAIN t : t[i] = e

PlanOf(s) == BuildPlan(s.job.kind)
Positions(s) == 1..Len(PlanOf(s))

Did(s, t, i)   == In(t, Completed(PlanOf(s)[i]))
Undid(s, t, i) == In(t, Compensated(PlanOf(s)[i]))

(***************************************************************************)
(* The completed steps are the first s.done of the plan; the compensated   *)
(* ones are among them, past the one the loop has come to; all_compensated *)
(* says whether the loop has left one out.                                 *)
(***************************************************************************)
Verdict(s, t) ==
  \/ /\ s.status = "Succeeded" /\ s.done = Len(PlanOf(s))
     /\ \A i \in Positions(s) : ~Undid(s, t, i)
  \/ /\ s.status = "RolledBack" /\ s.done < Len(PlanOf(s))
     /\ \A i \in 1..s.done : Undid(s, t, i)
  \/ /\ s.status = "Failed" /\ s.done < Len(PlanOf(s))
     /\ \E i \in 1..s.done : ~Undid(s, t, i)

Book(s, t) ==
  /\ \A i \in Positions(s) : Did(s, t, i) <=> i <= s.done
  /\ \A i \in Positions(s) : Undid(s, t, i) => s.left < i /\ i <= s.done
  /\ s.phase = "forward" => s.clean /\ \A i \in Positions(s) : ~Undid(s, t, i)
  /\ s.phase = "undo" => (s.clean <=> \A i \in (s.left + 1)..s.done : Undid(s, t, i))
  /\ s.phase = "returned" => Verdict(s, t)

-----------------------------------------------------------------------------
\* The positions of a plan, and that its steps are distinct.
LEMMA PlanFacts ==
  ASSUME NEW s, Busy(s)
  PROVE  /\ Len(PlanOf(s)) \in 2..4
         /\ s.done \in 0..Len(PlanOf(s)) /\ s.left \in Nat /\ s.clean \in BOOLEAN
         /\ \A i \in Positions(s) : PlanOf(s)[i] \in Steps
         /\ \A i, j \in Positions(s) : PlanOf(s)[i] = PlanOf(s)[j] => i = j
<1>1. s.job.kind \in Kinds /\ s.left \in Nat /\ s.clean \in BOOLEAN
  BY DEF Busy, SagaRecord, Jobs
<1>2. s.done \in 0..Len(PlanOf(s))
  BY DEF Busy, WithinPlan, PlanOf
<1> QED
  BY <1>1, <1>2, Plans DEF PlanOf, Positions

\* Append adds one event and forgets none.
LEMMA InAppend ==
  ASSUME NEW t \in Seq(Event), NEW e \in Event, NEW f
  PROVE  In(Append(t, e), f) <=> In(t, f) \/ f = e
<1>1. /\ Len(Append(t, e)) = Len(t) + 1 /\ Len(t) \in Nat
      /\ DOMAIN t = 1..Len(t) /\ DOMAIN Append(t, e) = 1..(Len(t) + 1)
      /\ \A i \in 1..Len(t) : Append(t, e)[i] = t[i]
      /\ Append(t, e)[Len(t) + 1] = e
  OBVIOUS
<1>2. \A i \in 1..(Len(t) + 1) : i \in 1..Len(t) \/ i = Len(t) + 1
  BY <1>1
<1>3. \A i \in 1..Len(t) : i \in 1..(Len(t) + 1)
  BY <1>1
<1>4. Len(t) + 1 \in 1..(Len(t) + 1)
  BY <1>1
<1> QED
  BY <1>1, <1>2, <1>3, <1>4 DEF In

\* What a new event of either kind changes of Did and Undid.
LEMMA CompletedAppended ==
  ASSUME NEW s, Busy(s), NEW t \in Seq(Event), NEW k \in Positions(s)
  PROVE  LET u == Append(t, Completed(PlanOf(s)[k]))
         IN  \A i \in Positions(s) : /\ Did(s, u, i) <=> Did(s, t, i) \/ i = k
                                     /\ Undid(s, u, i) <=> Undid(s, t, i)
<1> DEFINE e == Completed(PlanOf(s)[k])
<1>1. e \in Event
  BY PlanFacts DEF Completed, Event
<1>2. \A i \in Positions(s) : (Completed(PlanOf(s)[i]) = e) <=> i = k
  BY PlanFacts DEF Completed
<1>3. \A i \in Positions(s) : Compensated(PlanOf(s)[i]) # e
  BY DEF Completed, Compensated
<1> HIDE DEF e
<1> QED
  BY <1>1, <1>2, <1>3, InAppend DEF Did, Undid, e

LEMMA CompensatedAppended ==
  ASSUME NEW s, Busy(s), NEW t \in Seq(Event), NEW k \in Positions(s)
  PROVE  LET u == Append(t, Compensated(PlanOf(s)[k]))
         IN  \A i \in Positions(s) : /\ Undid(s, u, i) <=> Undid(s, t, i) \/ i = k
                                     /\ Did(s, u, i) <=> Did(s, t, i)
<1> DEFINE e == Compensated(PlanOf(s)[k])
<1>1. e \in Event
  BY PlanFacts DEF Compensated, Event
<1>2. \A i \in Positions(s) : (Compensated(PlanOf(s)[i]) = e) <=> i = k
  BY PlanFacts DEF Compensated
<1>3. \A i \in Positions(s) : Completed(PlanOf(s)[i]) # e
  BY DEF Completed, Compensated
<1> HIDE DEF e
<1> QED
  BY <1>1, <1>2, <1>3, InAppend DEF Did, Undid, e

-----------------------------------------------------------------------------
(***************************************************************************)
(* The statements of the two loops.                                        *)
(***************************************************************************)
LEMMA EnteredBook ==
  ASSUME NEW job \in Jobs
  PROVE  Book(Entered(job), << >>)
<1>1. Busy(Entered(job))
  BY EnteredType DEF Busy
<1>2. /\ Entered(job).phase = "forward" /\ Entered(job).done = 0
      /\ Entered(job).clean = TRUE
  BY DEF Entered
<1>3. \A e : ~In(<< >>, e)
  BY DEF In
<1>4. \A i \in Positions(Entered(job)) : ~(i <= 0)
  BY <1>1, PlanFacts DEF Positions
<1> QED
  BY <1>2, <1>3, <1>4 DEF Book, Did, Undid

\* The step after the completed ones is Ok.
LEMMA AfterStepBook ==
  ASSUME NEW s, Busy(s), s.phase = "forward", NEW t \in Seq(Event), Book(s, t),
         NEW last \in BOOLEAN, last <=> s.done + 1 = Len(PlanOf(s))
  PROVE  Book(AfterStep(s, last), Append(t, Completed(PlanOf(s)[s.done + 1])))
<1> DEFINE r == AfterStep(s, last)
           u == Append(t, Completed(PlanOf(s)[s.done + 1]))
<1>1. /\ Len(PlanOf(s)) \in 2..4 /\ s.done \in Nat /\ s.done + 1 \in Positions(s)
      /\ s.clean /\ s.left = 0
  BY PlanFacts DEF Busy, WithinPlan, PlanOf, Positions, Book
<1>2. /\ r.job = s.job /\ r.done = s.done + 1 /\ r.left = s.left /\ r.clean = s.clean
      /\ r.phase = IF last THEN "returned" ELSE "forward"
      /\ r.status = IF last THEN "Succeeded" ELSE "Running"
  BY DEF AfterStep, Busy, SagaRecord
<1>3. \A i \in Positions(s) : /\ Did(s, u, i) <=> Did(s, t, i) \/ i = s.done + 1
                              /\ Undid(s, u, i) <=> Undid(s, t, i)
  BY <1>1, CompletedAppended
<1>4. \A i \in Positions(s) : i \in Nat /\ ~Undid(s, t, i) /\ (Did(s, t, i) <=> i <= s.done)
  BY <1>1 DEF Book, Positions
<1>5. PlanOf(r) = PlanOf(s) /\ Positions(r) = Positions(s)
  BY <1>2 DEF PlanOf, Positions
<1>6. \A i \in Positions(s) : /\ Did(s, u, i) <=> i <= s.done + 1
                              /\ ~Undid(s, u, i)
  BY <1>1, <1>3, <1>4
<1>7. \A i : (Did(r, u, i) <=> Did(s, u, i)) /\ (Undid(r, u, i) <=> Undid(s, u, i))
  BY <1>5 DEF Did, Undid
<1> HIDE DEF r, u
<1>8. r.phase = "returned" => Verdict(r, u)
  BY <1>1, <1>2, <1>5, <1>6, <1>7 DEF Verdict
<1>9. Book(r, u)
  BY <1>1, <1>2, <1>5, <1>6, <1>7, <1>8 DEF Book
<1> QED
  BY <1>9 DEF r, u

\* A step is Err: the loop that compensates begins, or run returns.
LEMMA StartUndoBook ==
  ASSUME NEW s, Busy(s), s.phase = "forward", NEW t \in Seq(Event), Book(s, t)
  PROVE  Book(StartUndo(s), t)
<1> DEFINE r == StartUndo(s)
<1>1. /\ Len(PlanOf(s)) \in 2..4 /\ s.done \in Nat /\ s.done < Len(PlanOf(s))
      /\ s.clean /\ s.left = 0
  BY PlanFacts DEF Busy, WithinPlan, PlanOf, Book
<1>2. /\ r.job = s.job /\ r.done = s.done /\ r.clean = s.clean
      /\ r.left = IF s.done = 0 THEN s.left ELSE s.done
      /\ r.phase = IF s.done = 0 THEN "returned" ELSE "undo"
      /\ s.done = 0 => r.status = "RolledBack"
  BY DEF StartUndo, Busy, SagaRecord
<1>3. PlanOf(r) = PlanOf(s) /\ Positions(r) = Positions(s)
  BY <1>2 DEF PlanOf, Positions
<1>4. \A i : (Did(r, t, i) <=> Did(s, t, i)) /\ (Undid(r, t, i) <=> Undid(s, t, i))
  BY <1>3 DEF Did, Undid
<1>5. \A i \in Positions(s) : ~Undid(s, t, i) /\ (Did(s, t, i) <=> i <= s.done)
  BY DEF Book
<1> HIDE DEF r
<1>6. r.phase = "returned" => Verdict(r, t)
  BY <1>1, <1>2, <1>3 DEF Verdict
<1>7. r.phase = "undo" => /\ r.left = s.done /\ r.done = s.done /\ r.clean
  BY <1>1, <1>2
<1>8. r.phase = "undo" => \A i \in (r.left + 1)..r.done : Undid(r, t, i)
  BY <1>1, <1>7
<1>9. Book(r, t)
  BY <1>2, <1>3, <1>4, <1>5, <1>6, <1>7, <1>8 DEF Book
<1> QED
  BY <1>9 DEF r

\* A compensation is Ok and published (u), or Err and left out (t).
LEMMA AfterUndoBook ==
  ASSUME NEW s, Busy(s), s.phase = "undo", NEW t \in Seq(Event), Book(s, t),
         NEW ok \in BOOLEAN, NEW u,
         u = IF ok THEN Append(t, Compensated(PlanOf(s)[s.left])) ELSE t
  PROVE  Book(AfterUndo(s, ok), u)
<1> DEFINE r == AfterUndo(s, ok)
<1>1. /\ Len(PlanOf(s)) \in 2..4 /\ s.done \in Nat /\ s.done < Len(PlanOf(s))
      /\ s.left \in 1..s.done /\ s.left \in Positions(s) /\ s.clean \in BOOLEAN
  BY PlanFacts DEF Busy, WithinPlan, PlanOf, Positions
<1>2. /\ r.job = s.job /\ r.done = s.done /\ r.left = s.left - 1
      /\ r.clean <=> s.clean /\ ok
      /\ r.phase = IF s.left = 1 THEN "returned" ELSE "undo"
      /\ s.left = 1 => r.status = IF s.clean /\ ok THEN "RolledBack" ELSE "Failed"
  <2>1. s.left \in Nat
    BY <1>1
  <2> QED
    BY <2>1 DEF AfterUndo, Busy, SagaRecord
<1>3. PlanOf(r) = PlanOf(s) /\ Positions(r) = Positions(s)
  BY <1>2 DEF PlanOf, Positions
<1>4. \A i : (Did(r, u, i) <=> Did(s, u, i)) /\ (Undid(r, u, i) <=> Undid(s, u, i))
  BY <1>3 DEF Did, Undid
<1>5. \A i \in Positions(s) : /\ Did(s, u, i) <=> Did(s, t, i)
                              /\ Undid(s, u, i) <=> Undid(s, t, i) \/ (ok /\ i = s.left)
  <2>1. CASE ok
    <3> DEFINE w == Append(t, Compensated(PlanOf(s)[s.left]))
    <3>1. u = w
      BY <2>1
    <3>2. \A i \in Positions(s) : /\ Undid(s, w, i) <=> Undid(s, t, i) \/ i = s.left
                                  /\ Did(s, w, i) <=> Did(s, t, i)
      BY <1>1, CompensatedAppended
    <3> HIDE DEF w
    <3> QED
      BY <2>1, <3>1, <3>2, Zenon
  <2>2. CASE ~ok
    <3>1. u = t
      BY <2>2
    <3> QED
      BY <2>2, <3>1, Zenon
  <2> QED
    BY <2>1, <2>2
<1>6. /\ \A i \in Positions(s) : Did(s, t, i) <=> i <= s.done
      /\ \A i \in Positions(s) : Undid(s, t, i) => s.left < i /\ i <= s.done
      /\ s.clean <=> \A i \in (s.left + 1)..s.done : Undid(s, t, i)
  BY DEF Book
<1>7. \A i \in Positions(s) : Undid(s, u, i) => s.left - 1 < i /\ i <= s.done
  <2>1. \A i \in Positions(s) : i \in Nat
    BY DEF Positions
  <2> QED
    BY <1>1, <1>5, <1>6, <2>1
<1>8. r.clean <=> \A i \in s.left..s.done : Undid(s, u, i)
  <2>1. \A i \in s.left..s.done : i \in Positions(s) /\ (i = s.left \/ i \in (s.left + 1)..s.done)
    BY <1>1 DEF Positions
  <2>2. \A i \in (s.left + 1)..s.done : i \in s.left..s.done /\ i # s.left
    BY <1>1
  <2>3. s.left \in s.left..s.done /\ (Undid(s, u, s.left) <=> ok)
    <3>1. s.left \in s.left..s.done /\ ~(s.left < s.left)
      BY <1>1
    <3> QED
      BY <3>1, <1>1, <1>5, <1>6
  <2>4. \A i \in (s.left + 1)..s.done : Undid(s, u, i) <=> Undid(s, t, i)
    BY <1>5, <2>1, <2>2
  <2>5. (\A i \in s.left..s.done : Undid(s, u, i))
          <=> ok /\ \A i \in (s.left + 1)..s.done : Undid(s, t, i)
    BY <2>1, <2>2, <2>3, <2>4, Zenon
  <2>6. r.clean <=> s.clean /\ ok
    BY <1>2
  <2> HIDE DEF r
  <2> QED
    BY <1>6, <2>5, <2>6, Zenon
<1> HIDE DEF r
<1>9. r.phase = "returned" => Verdict(r, u)
  <2> SUFFICES ASSUME r.phase = "returned" PROVE Verdict(r, u)
    OBVIOUS
  <2>1. s.left = 1 /\ r.done < Len(PlanOf(r))
    BY <1>1, <1>2, <1>3
  <2>2. r.clean <=> \A i \in 1..r.done : Undid(r, u, i)
    BY <1>2, <1>4, <1>8, <2>1
  <2>3. r.status = IF r.clean THEN "RolledBack" ELSE "Failed"
    BY <1>2, <2>1
  <2> QED
    BY <2>1, <2>2, <2>3 DEF Verdict
<1>10. r.phase = "undo" => (r.clean <=> \A i \in (r.left + 1)..r.done : Undid(r, u, i))
  <2>1. r.left + 1 = s.left
    BY <1>1, <1>2
  <2> QED
    BY <1>2, <1>4, <1>8, <2>1
<1>11. Book(r, u)
  BY <1>2, <1>3, <1>4, <1>5, <1>6, <1>7, <1>9, <1>10 DEF Book
<1> QED
  BY <1>11 DEF r

-----------------------------------------------------------------------------
(***************************************************************************)
(* The order of the trail.  Book says which events are there; Shape says   *)
(* where: the completed steps first, in the order of the plan, then the    *)
(* compensated ones, each of a position the loop has passed, descending.   *)
(***************************************************************************)
Shape(s, t) ==
  /\ s.done <= Len(t)
  /\ s.phase = "forward" => Len(t) = s.done
  /\ \A i \in 1..s.done : t[i] = Completed(PlanOf(s)[i])
  /\ \A i \in (s.done + 1)..Len(t) :
       \E p \in (s.left + 1)..s.done : t[i] = Compensated(PlanOf(s)[p])
  /\ \A i, j \in (s.done + 1)..Len(t), p, q \in 1..s.done :
       i < j /\ t[i] = Compensated(PlanOf(s)[p]) /\ t[j] = Compensated(PlanOf(s)[q]) => p > q

LEMMA AppendFacts ==
  ASSUME NEW t \in Seq(Event), NEW e \in Event
  PROVE  /\ Len(t) \in Nat /\ Len(Append(t, e)) = Len(t) + 1
         /\ \A i \in 1..Len(t) : Append(t, e)[i] = t[i]
         /\ Append(t, e)[Len(t) + 1] = e
OBVIOUS

LEMMA EnteredShape ==
  ASSUME NEW job \in Jobs
  PROVE  Shape(Entered(job), << >>)
BY DEF Shape, Entered

LEMMA AfterStepShape ==
  ASSUME NEW s, Busy(s), s.phase = "forward", NEW t \in Seq(Event), Shape(s, t),
         NEW last \in BOOLEAN
  PROVE  Shape(AfterStep(s, last), Append(t, Completed(PlanOf(s)[s.done + 1])))
<1> DEFINE r == AfterStep(s, last)
           e == Completed(PlanOf(s)[s.done + 1])
           u == Append(t, e)
<1>1. s.done \in Nat /\ s.done + 1 \in Positions(s) /\ s.left = 0 /\ Len(t) = s.done
  BY PlanFacts DEF Busy, WithinPlan, PlanOf, Positions, Shape
<1>2. r.job = s.job /\ r.done = s.done + 1 /\ PlanOf(r) = PlanOf(s)
  BY DEF AfterStep, Busy, SagaRecord, PlanOf
<1>3. e \in Event
  BY <1>1, PlanFacts DEF Completed, Event
<1>4. Len(u) = s.done + 1 /\ u[s.done + 1] = e /\ \A i \in 1..s.done : u[i] = t[i]
  BY <1>1, <1>3, AppendFacts
<1>5. \A i \in 1..s.done : t[i] = Completed(PlanOf(s)[i])
  BY DEF Shape
<1>6. \A i \in 1..(s.done + 1) : u[i] = Completed(PlanOf(s)[i])
  BY <1>1, <1>4, <1>5
<1> HIDE DEF r, u
<1>7. Shape(r, u)
  BY <1>1, <1>2, <1>4, <1>6 DEF Shape
<1> QED
  BY <1>7 DEF r, u

LEMMA StartUndoShape ==
  ASSUME NEW s, Busy(s), s.phase = "forward", NEW t \in Seq(Event), Shape(s, t)
  PROVE  Shape(StartUndo(s), t)
<1> DEFINE r == StartUndo(s)
<1>1. s.done \in Nat /\ s.left = 0 /\ Len(t) = s.done
  BY PlanFacts DEF Busy, WithinPlan, PlanOf, Shape
<1>2. /\ r.job = s.job /\ r.done = s.done /\ PlanOf(r) = PlanOf(s)
      /\ r.phase # "forward"
  BY DEF StartUndo, Busy, SagaRecord, PlanOf
<1> HIDE DEF r
<1>3. Shape(r, t)
  BY <1>1, <1>2 DEF Shape
<1> QED
  BY <1>3 DEF r

\* The loop compensates the position it has come to, which is below every
\* position it has compensated before.
LEMMA AfterUndoShape ==
  ASSUME NEW s, Busy(s), s.phase = "undo", NEW t \in Seq(Event), Shape(s, t),
         NEW ok \in BOOLEAN, NEW u,
         u = IF ok THEN Append(t, Compensated(PlanOf(s)[s.left])) ELSE t
  PROVE  Shape(AfterUndo(s, ok), u)
<1> DEFINE r == AfterUndo(s, ok)
           e == Compensated(PlanOf(s)[s.left])
           P == PlanOf(s)
           d == s.done
           k == s.left
<1>1. d \in Nat /\ k \in 1..d /\ Len(t) \in Nat /\ d <= Len(t) /\ d < Len(P) /\ Len(P) \in 2..4
  BY PlanFacts DEF Busy, WithinPlan, PlanOf, Shape
<1>2. /\ r.job = s.job /\ r.done = d /\ r.left = k - 1 /\ PlanOf(r) = P
      /\ r.phase # "forward"
  BY DEF AfterUndo, Busy, SagaRecord, PlanOf
<1>3. e \in Event
  <2>1. k \in Positions(s)
    BY <1>1 DEF Positions
  <2> QED
    BY <2>1, PlanFacts DEF Compensated, Event
<1>4. \A p, q \in 1..d : Compensated(P[p]) = Compensated(P[q]) => p = q
  <2>1. 1..d \subseteq Positions(s)
    BY <1>1 DEF Positions
  <2>2. \A i, j \in Positions(s) : P[i] = P[j] => i = j
    BY PlanFacts
  <2> QED
    BY <2>1, <2>2 DEF Compensated
<1>5. /\ \A i \in 1..d : t[i] = Completed(P[i])
      /\ \A i \in (d + 1)..Len(t) : \E p \in (k + 1)..d : t[i] = Compensated(P[p])
      /\ \A i, j \in (d + 1)..Len(t), p, q \in 1..d :
           i < j /\ t[i] = Compensated(P[p]) /\ t[j] = Compensated(P[q]) => p > q
  BY DEF Shape
<1>6. CASE ~ok
  <2>1. \A i \in (d + 1)..Len(t) : \E p \in k..d : t[i] = Compensated(P[p])
    BY <1>1, <1>5
  <2>2. u = t
    BY <1>6
  <2> HIDE DEF r, P, d, k
  <2>3. Shape(r, t)
    BY <1>1, <1>2, <1>5, <2>1 DEF Shape
  <2> QED
    BY <2>2, <2>3 DEF r
<1>7. CASE ok
  <2>1. /\ Len(u) = Len(t) + 1 /\ u[Len(t) + 1] = e
        /\ \A i \in 1..Len(t) : u[i] = t[i]
    BY <1>3, <1>7, AppendFacts
  <2>2. \A i \in 1..d : u[i] = Completed(P[i])
    BY <1>1, <1>5, <2>1
  <2>3. \A i \in (d + 1)..Len(t) : i \in 1..Len(t)
    BY <1>1
  <2>4. \A i \in (d + 1)..(Len(t) + 1) : i \in (d + 1)..Len(t) \/ i = Len(t) + 1
    BY <1>1
  <2>5. \A i \in (d + 1)..(Len(t) + 1) : \E p \in k..d : u[i] = Compensated(P[p])
    <3> SUFFICES ASSUME NEW i \in (d + 1)..(Len(t) + 1)
                 PROVE  \E p \in k..d : u[i] = Compensated(P[p])
      OBVIOUS
    <3>1. CASE i = Len(t) + 1
      BY <1>1, <2>1, <3>1
    <3>2. CASE i \in (d + 1)..Len(t)
      <4>1. PICK p \in (k + 1)..d : t[i] = Compensated(P[p])
        BY <1>5, <3>2
      <4>2. p \in k..d /\ u[i] = t[i]
        BY <1>1, <2>1, <2>3, <3>2
      <4> QED
        BY <4>1, <4>2
    <3> QED
      BY <2>4, <3>1, <3>2
  <2>6. ASSUME NEW i \in (d + 1)..(Len(t) + 1), NEW j \in (d + 1)..(Len(t) + 1),
               NEW p \in 1..d, NEW q \in 1..d, i < j,
               u[i] = Compensated(P[p]), u[j] = Compensated(P[q])
        PROVE  p > q
    <3>1. i \in (d + 1)..Len(t) /\ u[i] = t[i]
      BY <1>1, <2>1, <2>3, <2>4, <2>6
    <3>2. CASE j = Len(t) + 1
      <4>1. q = k
        BY <1>1, <1>4, <2>1, <2>6, <3>2
      <4>2. PICK x \in (k + 1)..d : t[i] = Compensated(P[x])
        BY <1>5, <3>1
      <4>3. x \in 1..d /\ Compensated(P[x]) = Compensated(P[p])
        BY <1>1, <2>6, <3>1, <4>2
      <4>4. x = p
        BY <1>4, <2>6, <4>3
      <4> QED
        BY <1>1, <4>1, <4>2, <4>4
    <3>3. CASE j \in (d + 1)..Len(t)
      BY <1>5, <2>1, <2>3, <2>6, <3>1, <3>3
    <3> QED
      BY <2>4, <3>2, <3>3
  <2>7. r.left + 1 = k /\ d <= Len(t) + 1
    BY <1>1, <1>2
  <2> HIDE DEF r, P, d, k, e
  <2>8. \A i \in (r.done + 1)..Len(u) :
          \E p \in (r.left + 1)..r.done : u[i] = Compensated(PlanOf(r)[p])
    BY <1>2, <2>1, <2>5, <2>7
  <2>9. \A i, j \in (d + 1)..(Len(t) + 1), p, q \in 1..d :
           i < j /\ u[i] = Compensated(P[p]) /\ u[j] = Compensated(P[q]) => p > q
    BY <2>6
  <2>10. \A i, j \in (r.done + 1)..Len(u), p, q \in 1..r.done :
           i < j /\ u[i] = Compensated(PlanOf(r)[p])
                 /\ u[j] = Compensated(PlanOf(r)[q]) => p > q
    BY <1>2, <2>1, <2>9
  <2>11. r.done <= Len(u) /\ \A i \in 1..r.done : u[i] = Completed(PlanOf(r)[i])
    BY <1>2, <2>1, <2>2, <2>7
  <2>12. Shape(r, u)
    BY <1>2, <2>8, <2>10, <2>11 DEF Shape
  <2> QED
    BY <2>12 DEF r
<1> QED
  BY <1>6, <1>7

-----------------------------------------------------------------------------
(***************************************************************************)
(* A step that keeps the default compensation is Ok without an agent call: *)
(* the loop never leaves one out.                                          *)
(***************************************************************************)
Defaults(s, t) ==
  s.phase = "undo" \/ (s.phase = "returned" /\ s.done < Len(PlanOf(s))) =>
    \A i \in (s.left + 1)..s.done : PlanOf(s)[i] \notin Reversible => Undid(s, t, i)

LEMMA AfterStepDefaults ==
  ASSUME NEW s, Busy(s), s.phase = "forward", NEW t,
         NEW last \in BOOLEAN, last <=> s.done + 1 = Len(PlanOf(s))
  PROVE  Defaults(AfterStep(s, last), t)
<1>1. /\ AfterStep(s, last).job = s.job /\ AfterStep(s, last).done = s.done + 1
      /\ AfterStep(s, last).phase = IF last THEN "returned" ELSE "forward"
  BY DEF AfterStep, Busy, SagaRecord
<1>2. s.done \in Nat /\ Len(PlanOf(s)) \in Nat
  BY PlanFacts
<1> QED
  BY <1>1, <1>2 DEF Defaults, PlanOf

LEMMA StartUndoDefaults ==
  ASSUME NEW s, Busy(s), s.phase = "forward", NEW t
  PROVE  Defaults(StartUndo(s), t)
<1>1. /\ StartUndo(s).job = s.job /\ StartUndo(s).done = s.done
      /\ s.done # 0 => StartUndo(s).left = s.done
      /\ s.done = 0 => StartUndo(s).left = 0
  BY DEF StartUndo, Busy, SagaRecord, WithinPlan
<1>2. s.done \in Nat
  BY PlanFacts
<1> QED
  BY <1>1, <1>2 DEF Defaults

LEMMA AfterUndoDefaults ==
  ASSUME NEW s, Busy(s), s.phase = "undo", NEW t \in Seq(Event), Defaults(s, t),
         NEW ok \in BOOLEAN, ~ok => PlanOf(s)[s.left] \in Reversible, NEW u,
         u = IF ok THEN Append(t, Compensated(PlanOf(s)[s.left])) ELSE t
  PROVE  Defaults(AfterUndo(s, ok), u)
<1> DEFINE r == AfterUndo(s, ok)
<1>1. /\ s.done \in Nat /\ s.left \in 1..s.done /\ s.left \in Positions(s)
      /\ 1..s.done \subseteq Positions(s)
  BY PlanFacts DEF Busy, WithinPlan, PlanOf, Positions
<1>2. r.job = s.job /\ r.done = s.done /\ r.left = s.left - 1 /\ PlanOf(r) = PlanOf(s)
  BY DEF AfterUndo, Busy, SagaRecord, PlanOf
<1>3. \A i \in Positions(s) : /\ Undid(s, t, i) => Undid(s, u, i)
                              /\ ok /\ i = s.left => Undid(s, u, i)
  BY <1>1, CompensatedAppended
<1>4. \A i \in (s.left + 1)..s.done : PlanOf(s)[i] \notin Reversible => Undid(s, t, i)
  BY DEF Defaults
<1>5. \A i \in s.left..s.done : PlanOf(s)[i] \notin Reversible => Undid(s, u, i)
  <2> SUFFICES ASSUME NEW i \in s.left..s.done, PlanOf(s)[i] \notin Reversible
               PROVE  Undid(s, u, i)
    OBVIOUS
  <2>1. i \in Positions(s) /\ (i = s.left \/ i \in (s.left + 1)..s.done)
    BY <1>1
  <2> QED
    BY <2>1, <1>3, <1>4
<1>6. r.left + 1 = s.left /\ \A i : Undid(r, u, i) <=> Undid(s, u, i)
  BY <1>1, <1>2 DEF Undid
<1> HIDE DEF r
<1>7. Defaults(r, u)
  BY <1>2, <1>5, <1>6 DEF Defaults
<1> QED
  BY <1>7 DEF r

-----------------------------------------------------------------------------
(***************************************************************************)
(* Books is inductive relative to the types, and it gives the verdict.     *)
(***************************************************************************)
Account(s, t) == Book(s, t) /\ Shape(s, t) /\ Defaults(s, t)

Books ==
  \A c \in Calls : /\ saga[c].phase = "idle" => trail[c] = << >>
                   /\ saga[c].phase # "idle" => Account(saga[c], trail[c])

LEMMA BooksStep ==
  ASSUME SagaTypeOK, Books, NEW c \in Calls, NEW r, NEW t, Account(r, t), r.phase # "idle",
         saga' = [saga EXCEPT ![c] = r], trail' = [trail EXCEPT ![c] = t]
  PROVE  Books'
<1>1. \A d \in Calls : /\ saga'[d] = IF d = c THEN r ELSE saga[d]
                       /\ trail'[d] = IF d = c THEN t ELSE trail[d]
  BY DEF SagaTypeOK
<1>2. \A d \in Calls : /\ saga'[d].phase = "idle" => trail'[d] = << >>
                       /\ saga'[d].phase # "idle" => Account(saga'[d], trail'[d])
  BY <1>1 DEF Books
<1> QED
  BY <1>2 DEF Books, Account, Book, Shape, Defaults, Did, Undid, In, Positions, PlanOf, Verdict

LEMMA RunStepBooks ==
  ASSUME SagaTypeOK, Books, NEW c \in Calls, RunStep(c)
  PROVE  Books'
<1> DEFINE s == saga[c]
           t == trail[c]
<1>1. InPhase(c, "forward") \/ InPhase(c, "undo")
  BY DEF RunStep, StepSucceeds, StepFails, UndoSucceeds, UndoFails
<1>2. Busy(s) /\ Account(s, t) /\ t \in Seq(Event) /\ trail = [trail EXCEPT ![c] = t]
  BY <1>1, BusyCall DEF InPhase, Busy, Books, SagaTypeOK
<1>3. CASE StepSucceeds(c)
  <2> DEFINE last == s.done + 1 = Len(PlanOf(s))
             r    == AfterStep(s, last)
             u    == Append(t, Completed(PlanOf(s)[s.done + 1]))
  <2>1. s.phase = "forward" /\ Awaited(c) = PlanOf(s)[s.done + 1]
    BY <1>3, AwaitedIsAStep DEF StepSucceeds, InPhase, Plan, PlanOf
  <2>2. Account(r, u)
    BY <1>2, <2>1, AfterStepBook, AfterStepShape, AfterStepDefaults DEF Account
  <2>3. r.phase # "idle"
    BY <1>2, <2>1 DEF AfterStep, Busy, SagaRecord
  <2>4. saga' = [saga EXCEPT ![c] = r] /\ trail' = [trail EXCEPT ![c] = u]
    BY <1>3, <2>1 DEF StepSucceeds, SagaTypeOK, Plan, PlanOf
  <2> HIDE DEF r, u
  <2> QED
    BY <2>2, <2>3, <2>4, BooksStep
<1>4. CASE StepFails(c)
  <2> DEFINE r == StartUndo(s)
  <2>1. s.phase = "forward"
    BY <1>4 DEF StepFails, InPhase
  <2>2. Account(r, t)
    BY <1>2, <2>1, StartUndoBook, StartUndoShape, StartUndoDefaults DEF Account
  <2>3. r.phase # "idle"
    BY <1>2, <2>1 DEF StartUndo, Busy, SagaRecord
  <2>4. saga' = [saga EXCEPT ![c] = r] /\ trail' = [trail EXCEPT ![c] = t]
    BY <1>2, <1>4 DEF StepFails
  <2> HIDE DEF r, t
  <2> QED
    BY <2>2, <2>3, <2>4, BooksStep
<1>5. CASE UndoSucceeds(c)
  <2> DEFINE r == AfterUndo(s, TRUE)
             u == Append(t, Compensated(PlanOf(s)[s.left]))
  <2>1. s.phase = "undo" /\ Awaited(c) = PlanOf(s)[s.left]
    BY <1>5, AwaitedIsAStep DEF UndoSucceeds, InPhase, Plan, PlanOf
  <2>2. Account(r, u)
    BY <1>2, <2>1, AfterUndoBook, AfterUndoShape, AfterUndoDefaults DEF Account
  <2>3. r.phase # "idle"
    BY <1>2, <2>1 DEF AfterUndo, Busy, SagaRecord
  <2>4. saga' = [saga EXCEPT ![c] = r] /\ trail' = [trail EXCEPT ![c] = u]
    BY <1>5, <2>1 DEF UndoSucceeds
  <2> HIDE DEF r, u
  <2> QED
    BY <2>2, <2>3, <2>4, BooksStep
<1>6. CASE UndoFails(c)
  <2> DEFINE r == AfterUndo(s, FALSE)
  <2>1. s.phase = "undo" /\ PlanOf(s)[s.left] \in Reversible
    BY <1>6, AwaitedIsAStep DEF UndoFails, Awaiting, InPhase, Plan, PlanOf
  <2>2. Account(r, t)
    BY <1>2, <2>1, AfterUndoBook, AfterUndoShape, AfterUndoDefaults DEF Account
  <2>3. r.phase # "idle"
    BY <1>2, <2>1 DEF AfterUndo, Busy, SagaRecord
  <2>4. saga' = [saga EXCEPT ![c] = r] /\ trail' = [trail EXCEPT ![c] = t]
    BY <1>2, <1>6 DEF UndoFails
  <2> HIDE DEF r, t
  <2> QED
    BY <2>2, <2>3, <2>4, BooksStep
<1> QED
  BY <1>3, <1>4, <1>5, <1>6 DEF RunStep

LEMMA BeginBooks ==
  ASSUME SagaTypeOK, Books, NEW c \in Calls, NEW job \in Jobs, Begin(c, job)
  PROVE  Books'
<1>1. Account(Entered(job), << >>) /\ Entered(job).phase # "idle"
  BY EnteredBook, EnteredShape DEF Account, Defaults, Entered
<1> QED
  BY <1>1, BooksStep DEF Begin

LEMMA InitBooks == SagaInit => Books
BY DEF SagaInit, Books, Idle

LEMMA NextBooks == SagaTypeOK /\ Books /\ [SagaNext]_sagaVars => Books'
<1> SUFFICES ASSUME SagaTypeOK, Books, [SagaNext]_sagaVars PROVE Books'
  OBVIOUS
<1>1. CASE SagaNext
  BY <1>1, BeginBooks, RunStepBooks DEF SagaNext
<1>2. CASE UNCHANGED sagaVars
  BY <1>2 DEF sagaVars, Books
<1> QED
  BY <1>1, <1>2

LEMMA BooksGiveVerdict ==
  ASSUME SagaTypeOK, Books
  PROVE  StatusMatchesTrail
<1> SUFFICES ASSUME NEW c \in Calls, InPhase(c, "returned")
             PROVE  LET steps  == {Plan(c)[i] : i \in DOMAIN Plan(c)}
                        done   == {a \in steps : Has(c, Completed(a))}
                        undone == {a \in steps : Has(c, Compensated(a))}
                    IN  /\ saga[c].status = "Succeeded"  <=> done = steps /\ undone = {}
                        /\ saga[c].status = "RolledBack" <=> done # steps /\ undone = done
                        /\ saga[c].status = "Failed"     <=> done # steps /\ undone # done
  BY DEF StatusMatchesTrail
<1> DEFINE s == saga[c]
           t == trail[c]
           steps  == {PlanOf(s)[i] : i \in Positions(s)}
           done   == {a \in steps : Has(c, Completed(a))}
           undone == {a \in steps : Has(c, Compensated(a))}
<1>1. Busy(s) /\ Book(s, t) /\ s.phase = "returned"
  BY BusyCall DEF InPhase, Busy, Books, Account
<1>2. Plan(c) = PlanOf(s) /\ DOMAIN Plan(c) = Positions(s)
  BY <1>1, Plans DEF Plan, PlanOf, Positions, Busy, SagaRecord, Jobs
<1>3. \A i \in Positions(s) : /\ PlanOf(s)[i] \in done <=> i <= s.done
                              /\ PlanOf(s)[i] \in undone <=> Undid(s, t, i)
  BY <1>1 DEF Book, Did, Undid, In, Has
<1>4. done \subseteq steps /\ undone \subseteq steps
  OBVIOUS
<1>5. \A a \in steps : \E i \in Positions(s) : a = PlanOf(s)[i]
  OBVIOUS
<1>6. /\ Len(PlanOf(s)) \in 2..4 /\ s.done \in 0..Len(PlanOf(s))
      /\ Positions(s) = 1..Len(PlanOf(s))
  BY <1>1, PlanFacts DEF Positions
<1>7. \A i \in Positions(s) : Undid(s, t, i) => i <= s.done
  BY <1>1 DEF Book
<1>8. /\ Verdict(s, t)
      /\ s.status \in {"Succeeded", "RolledBack", "Failed"}
  BY <1>1 DEF Book, Verdict
<1>9. PlanOf(s)[Len(PlanOf(s))] \in steps /\ Len(PlanOf(s)) \in Positions(s)
  <2> DEFINE n == Len(PlanOf(s))
  <2>1. n \in Positions(s)
    <3>1. n \in 2..4 /\ Positions(s) = 1..n
      BY <1>6
    <3> HIDE DEF n
    <3> QED
      BY <3>1
  <2> HIDE DEF n
  <2>2. PlanOf(s)[n] \in steps
    BY <2>1
  <2> QED
    BY <2>1, <2>2 DEF n
<1> HIDE DEF s, t, done, undone, steps
<1>10. CASE s.status = "Succeeded"
  <2>1. s.done = Len(PlanOf(s)) /\ \A i \in Positions(s) : ~Undid(s, t, i)
    BY <1>8, <1>10 DEF Verdict
  <2>2. done = steps
    <3>1. \A i \in Positions(s) : PlanOf(s)[i] \in done
      BY <1>3, <1>6, <2>1
    <3> QED
      BY <1>4, <1>5, <3>1
  <2>3. undone = {}
    BY <1>3, <1>4, <1>5, <2>1
  <2> QED
    BY <1>2, <1>10, <2>2, <2>3 DEF s, steps, done, undone
<1>11. CASE s.status = "RolledBack"
  <2>1. s.done < Len(PlanOf(s)) /\ \A i \in 1..s.done : Undid(s, t, i)
    BY <1>8, <1>11 DEF Verdict
  <2>2. done # steps
    BY <1>3, <1>6, <1>9, <2>1
  <2>3. undone = done
    <3>1. \A i \in Positions(s) : Undid(s, t, i) <=> i <= s.done
      BY <1>6, <1>7, <2>1
    <3>2. \A i \in Positions(s) : PlanOf(s)[i] \in undone <=> PlanOf(s)[i] \in done
      BY <1>3, <3>1
    <3> QED
      BY <1>4, <1>5, <3>2
  <2> QED
    BY <1>2, <1>11, <2>2, <2>3 DEF s, steps, done, undone
<1>12. CASE s.status = "Failed"
  <2>1. PICK i \in 1..s.done : s.done < Len(PlanOf(s)) /\ ~Undid(s, t, i)
    BY <1>8, <1>12 DEF Verdict
  <2>2. done # steps
    BY <1>3, <1>6, <1>9, <2>1
  <2>3. i \in Positions(s) /\ i <= s.done
    BY <1>6, <2>1
  <2>4. undone # done
    BY <1>3, <2>1, <2>3
  <2> QED
    BY <1>2, <1>12, <2>2, <2>4 DEF s, steps, done, undone
<1> QED
  BY <1>8, <1>10, <1>11, <1>12

\* saga.rs:179-182: what run returns is true of what it published, whatever the
\* other calls do to the fleet meanwhile: Succeeded after all the steps and no
\* compensation, RolledBack when every completed step was compensated, Failed
\* when one was left out.
THEOREM StatusIsTrue == SagaSpec => []StatusMatchesTrail
BY InitBooks, NextBooks, BooksGiveVerdict, TypeCorrect, PTL DEF SagaSpec

LEMMA RolledBackIsGone ==
  ASSUME SagaTypeOK, Books, FleetInv
  PROVE  RollbackRemovesInfra
<1> SUFFICES ASSUME NEW c \in Calls, Returned(c, "Provision", "RolledBack"), Alone(c),
                    Has(c, Completed("ApplyInfra"))
             PROVE  fleet[saga[c].job.host] = Absent
  BY DEF RollbackRemovesInfra
<1> DEFINE s == saga[c]
<1>1. s.phase = "returned" /\ s.job.kind = "Provision" /\ s.status = "RolledBack"
  BY DEF Returned, InPhase
<1>2. Busy(s) /\ Book(s, trail[c])
  BY <1>1, BusyCall DEF Busy, Books, Account
<1>3. 1 \in Positions(s) /\ PlanOf(s)[1] = "ApplyInfra"
  BY <1>1 DEF Positions, PlanOf, BuildPlan
<1>4. Did(s, trail[c], 1)
  BY <1>3 DEF Did, In, Has
<1>5. s.done >= 1
  BY <1>2, <1>3, <1>4 DEF Book
<1>6. LeftBehind(s, fleet[HostOf(c)], fleet[SpareOf(c)])
  BY <1>1 DEF FleetInv, InPhase
<1> QED
  BY <1>1, <1>5, <1>6 DEF LeftBehind, ProvisionLeft, HostOf

\* saga.rs:175-182: a provisioning that was alone on its host and returns
\* RolledBack, after it had published StepCompleted of ApplyInfra, has removed
\* that infrastructure, whichever later step failed and whatever the
\* compensations before the last one did.  Of an ApplyInfra that failed after
\* making the host it says nothing: that step is not compensated.
THEOREM RollbackRemovesAppliedInfra == SagaSpec => []RollbackRemovesInfra
BY InitBooks, NextBooks, RolledBackIsGone, FleetKept, TypeCorrect, PTL DEF SagaSpec

-----------------------------------------------------------------------------
(***************************************************************************)
(* The order, as it is published.                                          *)
(***************************************************************************)
LEMMA PlaceIsThePosition ==
  ASSUME NEW c \in Calls, Busy(saga[c]), NEW p \in Positions(saga[c])
  PROVE  Place(c, PlanOf(saga[c])[p]) = p
<1>1. Plan(c) = PlanOf(saga[c]) /\ DOMAIN Plan(c) = Positions(saga[c])
  BY Plans DEF Plan, PlanOf, Positions, Busy, SagaRecord, Jobs
<1>2. \A i \in Positions(saga[c]) : PlanOf(saga[c])[i] = PlanOf(saga[c])[p] => i = p
  BY PlanFacts
<1> QED
  BY <1>1, <1>2 DEF Place

LEMMA BooksGiveOrder ==
  ASSUME SagaTypeOK, Books
  PROVE  UndoneInReverse
<1> SUFFICES ASSUME NEW c \in Calls, NEW i \in DOMAIN trail[c], NEW j \in DOMAIN trail[c], i < j
             PROVE  LET e == trail[c][i]
                        f == trail[c][j]
                    IN  /\ e.type = "StepCompleted" /\ f.type = "StepCompleted"
                             => Place(c, e.action) < Place(c, f.action)
                        /\ e.type = "StepCompensated"
                             => /\ f.type = "StepCompensated"
                                /\ Place(c, e.action) > Place(c, f.action)
                        /\ f.type = "StepCompensated" => Has(c, Completed(f.action))
  BY DEF UndoneInReverse
<1> DEFINE s == saga[c]
           t == trail[c]
           P == PlanOf(s)
           d == s.done
<1>1. t \in Seq(Event) /\ i \in 1..Len(t) /\ j \in 1..Len(t) /\ Len(t) \in Nat
  BY DEF SagaTypeOK
<1>2. saga[c].phase # "idle"
  BY <1>1 DEF Books
<1>3. Busy(s) /\ Shape(s, t)
  BY <1>2, BusyCall DEF Busy, Books, Account
<1>4. d \in Nat /\ d <= Len(t) /\ s.left \in Nat /\ 1..d \subseteq Positions(s)
  BY <1>3, PlanFacts DEF Shape, Positions
<1>5. \A p \in 1..d : Place(c, P[p]) = p
  BY <1>3, <1>4, PlaceIsThePosition
<1>6. \A k \in 1..d : t[k] = Completed(P[k])
  BY <1>3 DEF Shape
<1>7. \A k \in (d + 1)..Len(t) : \E p \in 1..d : t[k] = Compensated(P[p])
  <2>1. \A k \in (d + 1)..Len(t) : \E p \in (s.left + 1)..d : t[k] = Compensated(P[p])
    BY <1>3 DEF Shape
  <2>2. (s.left + 1)..d \subseteq 1..d
    BY <1>4
  <2> QED
    BY <2>1, <2>2
<1>8. \A x, y \in (d + 1)..Len(t), p, q \in 1..d :
        x < y /\ t[x] = Compensated(P[p]) /\ t[y] = Compensated(P[q]) => p > q
  BY <1>3 DEF Shape
<1>9. \A k \in 1..Len(t) : k \in 1..d \/ k \in (d + 1)..Len(t)
  BY <1>1, <1>4
<1>10. \A p \in 1..d : Has(c, Completed(P[p]))
  <2>1. 1..d \subseteq DOMAIN t
    BY <1>1, <1>4
  <2> QED
    BY <1>6, <2>1 DEF Has
<1>11. \A a : /\ Completed(a).type = "StepCompleted" /\ Completed(a).action = a
              /\ Compensated(a).type = "StepCompensated" /\ Compensated(a).action = a
  BY DEF Completed, Compensated
<1> HIDE DEF s, P, d
<1>12. CASE j \in 1..d
  <2>1. i \in 1..d
    BY <1>1, <1>4, <1>12
  <2> QED
    BY <1>5, <1>6, <1>11, <1>12, <2>1
<1>13. CASE j \in (d + 1)..Len(t)
  <2>1. PICK q \in 1..d : t[j] = Compensated(P[q])
    BY <1>7, <1>13
  <2>2. t[j].type = "StepCompensated" /\ t[j].action = P[q] /\ Has(c, Completed(t[j].action))
    BY <1>10, <1>11, <2>1
  <2>3. CASE i \in 1..d
    BY <1>6, <1>11, <2>2, <2>3
  <2>4. CASE i \in (d + 1)..Len(t)
    <3>1. PICK p \in 1..d : t[i] = Compensated(P[p])
      BY <1>7, <2>4
    <3>2. p > q /\ Place(c, t[i].action) = p /\ Place(c, t[j].action) = q
      BY <1>5, <1>8, <1>11, <1>13, <2>1, <2>4, <3>1
    <3>3. t[i].type = "StepCompensated"
      BY <1>11, <3>1
    <3> QED
      BY <2>2, <3>2, <3>3
  <2> QED
    BY <1>1, <1>9, <2>3, <2>4
<1> QED
  BY <1>1, <1>9, <1>12, <1>13

\* README.md:57: the trail of every call, however the calls interleave and
\* whatever fails, is the completed steps in the order of the plan and then
\* compensations of completed steps only, in strictly descending order.
THEOREM UndoneInReverseOrder == SagaSpec => []UndoneInReverse
BY InitBooks, NextBooks, BooksGiveOrder, TypeCorrect, PTL DEF SagaSpec

-----------------------------------------------------------------------------
(***************************************************************************)
(* The contract.  What it sees of a call is a function View of the locals  *)
(* and the trail, so a step of the executor changes the view of one call:  *)
(* entering opens it, a completed step advances or closes it, and the      *)
(* compensation loop is seen once, when it closes the call.                *)
(***************************************************************************)
View(s, t) ==
  CASE s.phase = "idle" -> [phase |-> "idle"]
    [] s.phase = "forward" \/ s.phase = "undo" ->
         [phase |-> "open", kind |-> s.job.kind, done |-> s.done]
    [] s.phase = "returned" ->
         [phase |-> "closed", kind |-> s.job.kind, done |-> s.done,
          undone |-> {i \in 1..s.done : Undid(s, t, i)}, status |-> s.status]

Seen == [c \in Calls |-> ContractView(c)]

LEMMA SeenIsView ==
  ASSUME NEW c \in Calls
  PROVE  Seen[c] = View(saga[c], trail[c])
BY DEF Seen, ContractView, View, Undone, Has, Plan, InPhase, Undid, In, PlanOf

LEMMA OneCallSeen ==
  ASSUME SagaTypeOK, NEW c \in Calls, NEW r, NEW t,
         saga' = [saga EXCEPT ![c] = r], trail' = [trail EXCEPT ![c] = t]
  PROVE  Seen' = [Seen EXCEPT ![c] = View(r, t)]
<1>1. \A d \in Calls : /\ saga'[d] = IF d = c THEN r ELSE saga[d]
                       /\ trail'[d] = IF d = c THEN t ELSE trail[d]
  BY DEF SagaTypeOK
<1>2. Seen' = [d \in Calls |-> View(saga'[d], trail'[d])]
  BY DEF Seen, ContractView, View, Undone, Has, Plan, InPhase, Undid, In, PlanOf
<1>3. Seen = [d \in Calls |-> View(saga[d], trail[d])]
  BY SeenIsView DEF Seen
<1> HIDE DEF Seen
<1> QED
  BY <1>1, <1>2, <1>3

\* The contract and the executor speak of the same plans.
LEMMA SamePlans ==
  /\ Contract!Kinds = Kinds /\ Contract!Reversible = Reversible
  /\ \A k : Contract!BuildPlan(k) = BuildPlan(k)
BY DEF Contract!Kinds, Kinds, Contract!Reversible, Reversible, Contract!BuildPlan, BuildPlan

LEMMA ContractInit == SagaInit => Contract!Init
BY DEF SagaInit, Contract!Init, ContractView, InPhase, Idle

LEMMA ContractBegin ==
  ASSUME SagaTypeOK, Books, NEW c \in Calls, NEW job \in Jobs, Begin(c, job)
  PROVE  Contract!Open(c)
<1>1. Seen' = [Seen EXCEPT ![c] = View(Entered(job), << >>)]
  BY OneCallSeen DEF Begin
<1>2. View(Entered(job), << >>) = [phase |-> "open", kind |-> job.kind, done |-> 0]
  BY DEF View, Entered
<1>3. Seen[c].phase = "idle"
  <2>1. View(saga[c], trail[c]) = [phase |-> "idle"]
    BY DEF Begin, InPhase, View
  <2> QED
    BY <2>1, SeenIsView
<1>4. job.kind \in Contract!Kinds
  BY SamePlans DEF Jobs
<1> QED
  BY <1>1, <1>2, <1>3, <1>4 DEF Contract!Open, Contract!Phase, Seen

\* Closing the call after the loop, or at once when nothing had completed.
LEMMA ContractAbort ==
  ASSUME NEW c \in Calls, NEW s, Busy(s), s.phase \in {"forward", "undo"},
         NEW t, Seen[c] = View(s, t),
         NEW r, Busy(r), NEW u, Account(r, u), r.phase = "returned",
         r.job = s.job, r.done = s.done, s.done < Len(PlanOf(s)), r.left = 0,
         Seen' = [Seen EXCEPT ![c] = View(r, u)]
  PROVE  Contract!Abort(c)
<1> DEFINE n    == s.done
           left == {i \in 1..n : ~Undid(r, u, i)}
           st   == IF left = {} THEN "RolledBack" ELSE "Failed"
           P    == BuildPlan(s.job.kind)
<1>1. Seen[c] = [phase |-> "open", kind |-> s.job.kind, done |-> n]
  BY DEF View
<1>2. PlanOf(r) = P /\ PlanOf(s) = P
  BY DEF PlanOf
<1>3. left \subseteq {i \in 1..n : P[i] \in Reversible}
  BY <1>2 DEF Account, Defaults
<1>4. Verdict(r, u)
  BY DEF Account, Book
<1>5. r.status = st
  <2>1. n \in Nat /\ Len(P) \in Nat /\ n < Len(P)
    BY PlanFacts, <1>2
  <2>2. \/ r.status = "RolledBack" /\ \A i \in 1..n : Undid(r, u, i)
        \/ r.status = "Failed" /\ \E i \in 1..n : ~Undid(r, u, i)
    BY <1>2, <1>4, <2>1 DEF Verdict
  <2> QED
    BY <2>2
<1>6. View(r, u) = [phase |-> "closed", kind |-> s.job.kind, done |-> n,
                    undone |-> {i \in 1..n : Undid(r, u, i)}, status |-> r.status]
  BY DEF View
<1>7. {i \in 1..n : Undid(r, u, i)} = (1..n) \ left
  OBVIOUS
<1>8. Seen' = [Seen EXCEPT ![c] = [phase |-> "closed", kind |-> Seen[c].kind, done |-> n,
                                   undone |-> (1..n) \ left, status |-> st]]
  <2>1. Seen[c].kind = s.job.kind
    BY <1>1
  <2>2. View(r, u) = [phase |-> "closed", kind |-> Seen[c].kind, done |-> n,
                      undone |-> (1..n) \ left, status |-> st]
    BY <1>5, <1>6, <1>7, <2>1
  <2> HIDE DEF n, left, st
  <2> QED
    BY <2>2
<1>9. left \in SUBSET Contract!ToUndo(c, n)
  BY <1>1, <1>3, SamePlans DEF Contract!ToUndo, Seen
<1>10. Seen[c].phase = "open" /\ Seen[c].done = n
  BY <1>1
<1> HIDE DEF left, n
<1> QED
  BY <1>8, <1>9, <1>10 DEF Contract!Abort, Contract!Close, Contract!Phase, Seen, st

LEMMA ContractRunStep ==
  ASSUME SagaTypeOK, Books, NEW c \in Calls, RunStep(c)
  PROVE  \/ Contract!Advance(c) \/ Contract!Succeed(c) \/ Contract!Abort(c)
         \/ UNCHANGED Seen
<1> DEFINE s == saga[c]
           t == trail[c]
<1>1. InPhase(c, "forward") \/ InPhase(c, "undo")
  BY DEF RunStep, StepSucceeds, StepFails, UndoSucceeds, UndoFails
<1>2. Busy(s) /\ Account(s, t) /\ t \in Seq(Event) /\ trail = [trail EXCEPT ![c] = t]
  BY <1>1, BusyCall DEF InPhase, Busy, Books, SagaTypeOK
<1>3. Seen[c] = View(s, t) /\ Seen = [Seen EXCEPT ![c] = View(s, t)]
  BY SeenIsView DEF Seen
<1>4. Len(PlanOf(s)) \in 2..4 /\ s.done \in Nat /\ s.done < Len(PlanOf(s))
      /\ (s.phase = "forward" => s.left = 0)
      /\ (s.phase = "undo" => s.left \in 1..s.done)
  BY <1>1, <1>2, PlanFacts DEF Busy, WithinPlan, PlanOf, InPhase
<1>5. CASE StepSucceeds(c)
  <2> DEFINE last == s.done + 1 = Len(PlanOf(s))
             r    == AfterStep(s, last)
             u    == Append(t, Completed(PlanOf(s)[s.done + 1]))
  <2>1. s.phase = "forward" /\ Awaited(c) = PlanOf(s)[s.done + 1]
    BY <1>5, AwaitedIsAStep DEF StepSucceeds, InPhase, Plan, PlanOf
  <2>2. Book(r, u)
    BY <1>2, <2>1, AfterStepBook DEF Account
  <2>3. Seen' = [Seen EXCEPT ![c] = View(r, u)]
    <3>1. saga' = [saga EXCEPT ![c] = r] /\ trail' = [trail EXCEPT ![c] = u]
      BY <1>5, <2>1 DEF StepSucceeds, SagaTypeOK, Plan, PlanOf
    <3> HIDE DEF r, u
    <3> QED
      BY <3>1, OneCallSeen
  <2>4. /\ r.job = s.job /\ r.done = s.done + 1 /\ r.phase = IF last THEN "returned" ELSE "forward"
        /\ r.status = IF last THEN "Succeeded" ELSE "Running"
    BY <1>2 DEF AfterStep, Busy, SagaRecord
  <2>5. Seen[c] = [phase |-> "open", kind |-> s.job.kind, done |-> s.done]
    BY <1>3, <2>1 DEF View
  <2> HIDE DEF r, u
  <2>6. CASE last
    <3>1. Verdict(r, u) /\ r.phase = "returned" /\ r.status = "Succeeded"
      BY <2>2, <2>4, <2>6 DEF Book
    <3>2. \A i \in Positions(r) : ~Undid(r, u, i)
      BY <3>1 DEF Verdict
    <3>3. {i \in 1..r.done : Undid(r, u, i)} = {}
      <4>1. 1..r.done \subseteq Positions(r)
        BY <1>4, <2>4, <2>6 DEF Positions, PlanOf
      <4> QED
        BY <3>2, <4>1
    <3>4. View(r, u) = [phase |-> "closed", kind |-> s.job.kind, done |-> r.done,
                        undone |-> {}, status |-> "Succeeded"]
      BY <2>4, <3>1, <3>3 DEF View
    <3>5. Contract!Length(c) = r.done /\ r.done = s.done + 1
      BY <2>4, <2>5, <2>6, SamePlans DEF Contract!Length, Seen, PlanOf
    <3>6. Seen' = [Seen EXCEPT ![c] = [phase |-> "closed", kind |-> Seen[c].kind,
                                       done |-> Contract!Length(c), undone |-> {},
                                       status |-> "Succeeded"]]
      <4>1. Seen[c].kind = s.job.kind
        BY <2>5
      <4> QED
        BY <2>3, <3>4, <3>5, <4>1
    <3>7. Seen[c].phase = "open" /\ Seen[c].done + 1 = Contract!Length(c)
      BY <2>5, <3>5
    <3> QED
      BY <3>6, <3>7 DEF Contract!Succeed, Contract!Close, Contract!Phase, Seen
  <2>7. CASE ~last
    <3>1. View(r, u) = [phase |-> "open", kind |-> s.job.kind, done |-> s.done + 1]
      BY <2>4, <2>7 DEF View
    <3>2. View(r, u) = [Seen[c] EXCEPT !.done = @ + 1]
      BY <2>5, <3>1
    <3>3. Seen[c].done + 1 < Contract!Length(c)
      BY <1>4, <2>5, <2>7, SamePlans DEF Contract!Length, Seen, PlanOf
    <3> QED
      BY <2>3, <2>5, <3>2, <3>3 DEF Contract!Advance, Contract!Phase, Seen
  <2> QED
    BY <2>6, <2>7
<1>6. CASE StepFails(c)
  <2> DEFINE r == StartUndo(s)
  <2>1. s.phase = "forward"
    BY <1>6 DEF StepFails, InPhase
  <2>2. Account(r, t) /\ Busy(r)
    BY <1>2, <2>1, StartUndoBook, StartUndoShape, StartUndoDefaults, StartUndoType DEF Account, Busy
  <2>3. Seen' = [Seen EXCEPT ![c] = View(r, t)]
    <3>1. saga' = [saga EXCEPT ![c] = r] /\ trail' = [trail EXCEPT ![c] = t]
      BY <1>2, <1>6 DEF StepFails
    <3> HIDE DEF r, t
    <3> QED
      BY <3>1, OneCallSeen
  <2>4. /\ r.job = s.job /\ r.done = s.done
        /\ s.done = 0 => r.phase = "returned" /\ r.left = s.left
        /\ s.done # 0 => r.phase = "undo"
    BY <1>2, <1>4 DEF StartUndo, Busy, SagaRecord
  <2> HIDE DEF r, s, t
  <2>5. CASE s.done = 0
    BY <1>2, <1>3, <1>4, <2>1, <2>2, <2>3, <2>4, <2>5, ContractAbort
  <2>6. CASE s.done # 0
    <3>1. View(r, t) = View(s, t)
      BY <2>1, <2>4, <2>6 DEF View
    <3> QED
      BY <1>3, <2>3, <3>1
  <2> QED
    BY <2>5, <2>6
<1>7. ASSUME NEW ok \in BOOLEAN, NEW u,
             u = IF ok THEN Append(t, Compensated(PlanOf(s)[s.left])) ELSE t,
             ~ok => PlanOf(s)[s.left] \in Reversible, s.phase = "undo",
             saga' = [saga EXCEPT ![c] = AfterUndo(s, ok)], trail' = [trail EXCEPT ![c] = u]
      PROVE  Contract!Abort(c) \/ UNCHANGED Seen
  <2> DEFINE r == AfterUndo(s, ok)
  <2>1. Account(r, u) /\ Busy(r)
    <3>1. Busy(r)
      BY <1>2, <1>7, AfterUndoType DEF Busy
    <3>2. Shape(r, u) /\ Book(r, u) /\ Defaults(r, u)
      BY <1>2, <1>7, AfterUndoBook, AfterUndoShape, AfterUndoDefaults DEF Account
    <3> QED
      BY <3>1, <3>2 DEF Account
  <2>2. /\ r.job = s.job /\ r.done = s.done /\ r.left = s.left - 1
        /\ r.phase = IF s.left = 1 THEN "returned" ELSE "undo"
    BY <1>2 DEF AfterUndo, Busy, SagaRecord
  <2>3. Seen' = [Seen EXCEPT ![c] = View(r, u)]
    BY <1>7, OneCallSeen
  <2> HIDE DEF r, s, t
  <2>4. CASE s.left = 1
    <3>1. r.left = 0 /\ r.phase = "returned"
      BY <2>2, <2>4
    <3> QED
      BY <1>2, <1>3, <1>4, <1>7, <2>1, <2>2, <2>3, <3>1, ContractAbort
  <2>5. CASE s.left # 1
    <3>1. View(r, u) = View(s, t)
      BY <1>7, <2>2, <2>5 DEF View
    <3> QED
      BY <1>3, <2>3, <3>1
  <2> QED
    BY <2>4, <2>5
<1>8. CASE UndoSucceeds(c)
  <2>1. s.phase = "undo" /\ Awaited(c) = PlanOf(s)[s.left]
    BY <1>8, AwaitedIsAStep DEF UndoSucceeds, InPhase, Plan, PlanOf
  <2>2. /\ saga' = [saga EXCEPT ![c] = AfterUndo(s, TRUE)]
        /\ trail' = [trail EXCEPT ![c] = Append(t, Compensated(PlanOf(s)[s.left]))]
    BY <1>8, <2>1 DEF UndoSucceeds
  <2> HIDE DEF s, t
  <2> QED
    BY <1>7, <2>1, <2>2
<1>9. CASE UndoFails(c)
  <2>1. s.phase = "undo" /\ PlanOf(s)[s.left] \in Reversible
    BY <1>9, AwaitedIsAStep DEF UndoFails, Awaiting, InPhase, Plan, PlanOf
  <2>2. saga' = [saga EXCEPT ![c] = AfterUndo(s, FALSE)] /\ trail' = [trail EXCEPT ![c] = t]
    BY <1>2, <1>9 DEF UndoFails
  <2> HIDE DEF s, t
  <2> QED
    BY <1>7, <2>1, <2>2
<1> QED
  BY <1>5, <1>6, <1>8, <1>9 DEF RunStep

\* saga.rs:177-182: seen from outside, every behaviour of the executor is one
\* of the contract: the compensation loop is a single step that undoes every
\* step it reports RolledBack for, and leaves out only steps that need an agent
\* call when it reports Failed.
THEOREM ExecutorMeetsContract == SagaSpec => Contract!Spec
<1>1. SagaInit => Contract!Init
  BY ContractInit
<1>2. SagaTypeOK /\ Books /\ [SagaNext]_sagaVars => [Contract!Next]_Seen
  <2> SUFFICES ASSUME SagaTypeOK, Books, [SagaNext]_sagaVars PROVE [Contract!Next]_Seen
    OBVIOUS
  <2>1. CASE UNCHANGED sagaVars
    BY <2>1 DEF sagaVars, Seen, ContractView, Undone, Has, Plan, InPhase
  <2>2. ASSUME NEW c \in Calls, NEW job \in Jobs, Begin(c, job)
        PROVE  Contract!Next
    BY <2>2, ContractBegin DEF Contract!Next
  <2>3. ASSUME NEW c \in Calls, RunStep(c)
        PROVE  Contract!Next \/ UNCHANGED Seen
    BY <2>3, ContractRunStep DEF Contract!Next
  <2> QED
    BY <2>1, <2>2, <2>3 DEF SagaNext
<1> QED
  BY <1>1, <1>2, InitBooks, NextBooks, TypeCorrect, PTL DEF SagaSpec, Contract!Spec, Seen
=============================================================================
