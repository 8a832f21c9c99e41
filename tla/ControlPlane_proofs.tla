------------------------ MODULE ControlPlane_proofs ------------------------
(***************************************************************************)
(* Proofs about ControlPlane, for any number of calls, nodes, inputs,      *)
(* readings and subscribers and any size of the ring.                      *)
(*                                                                         *)
(* A behaviour of the control plane is one of the engine and one of the    *)
(* bus, so that what is proved of either holds of the composition.  What   *)
(* relates the two, the feed and the store, is proved on top.              *)
(***************************************************************************)
EXTENDS ControlPlane, EventBus_proofs, OpsEngine_proofs

-----------------------------------------------------------------------------
(***************************************************************************)
(* The engine in it.                                                       *)
(***************************************************************************)
LEMMA PlaneStepOfTheEngine == [PlaneNext]_allVars => [Next]_vars
<1> SUFFICES ASSUME [PlaneNext]_allVars PROVE [Next]_vars
  OBVIOUS
<1>1. ASSUME NEW i \in RegisterInputs, Register(i) PROVE Next
  <2>1. i.version.names \in Versions
    BY <1>1, InputAssumption DEF Register
  <2>2. i.id.names \in Hosts /\ RegisterNode(i.id.names, i.version.names)
    BY <1>1, EngineAssumption DEF Register, RegisterNode
  <2> QED
    BY <2>1, <2>2 DEF Next
<1>2. ASSUME NEW c \in Calls, NEW i \in DeployInputs, Deploy(c, i) PROVE Next
  <2>1. AsRequest(i, NoTarget) \in Requests /\ StartDeployment(c, AsRequest(i, NoTarget))
    BY <1>2, InputAssumption DEF Deploy
  <2> QED
    BY <2>1 DEF Next
<1>3. ASSUME NEW c \in Calls, Advance(c) PROVE Next
  BY <1>3 DEF Advance, Next
<1>4. ASSUME NEW n \in Hosts, NEW r \in Readings, EvaluateHealth(n, r) PROVE UNCHANGED vars
  BY <1>4 DEF EvaluateHealth
<1>5. ASSUME NEW s \in Subscribers, Watch(s) PROVE UNCHANGED vars
  BY <1>5 DEF Watch
<1>6. CASE Refill /\ UNCHANGED busVars
  BY <1>6 DEF Next
<1>7. CASE UNCHANGED allVars
  BY <1>7 DEF allVars, vars
<1> QED
  BY <1>1, <1>2, <1>3, <1>4, <1>5, <1>6, <1>7 DEF PlaneNext

\* Behind its API and with its events, the control plane is the engine: the
\* mutations that are rejected, the evaluations and the streams are stutters of
\* it (mutation.rs, engine.rs:206-230).
THEOREM PlaneIsTheEngine == PlaneSpec => Spec
BY PlaneStepOfTheEngine, PTL DEF PlaneSpec, PlaneInit, Spec

\* So the clients of the control plane have what is proved of the engine, for the
\* store, the runs, the trails, the hosts and the contract of the sagas
\* (mutation.rs:102-107 awaits start_deployment and adds nothing to it).
THEOREM PlaneKeepsTheEngine ==
  PlaneSpec => /\ [](TypeOK /\ SlotsAreConserved /\ OnlyNodesAtRestAreStored)
               /\ [](RunsBelongToOneCall /\ FinishedRunIsStored /\ SuccessIsRecorded)
               /\ [](UndoneInReverse /\ StatusMatchesTrail)
               /\ [](PrimariesApartNeverDoubleVote /\ SuccessDelivers /\ RollbackRemovesInfra)
               /\ VerdictIsFinal /\ TerminalLeftOnlyByStaleCopy
               /\ Contract!Spec /\ RunBook!Spec
BY PlaneIsTheEngine, EngineTypes, PermitsConserved, NodesAtRest, RunsAreOwned,
   FinishedRunsAreStored, SuccessOnRecord, EngineKeepsTrails, EngineKeepsHosts,
   VerdictsStand, TerminalIsLeftByStaleCopies, EngineMeetsContract,
   EngineKeepsTheLedger, PTL

-----------------------------------------------------------------------------
(***************************************************************************)
(* What a step of a call publishes.  Until save_run nothing has been said  *)
(* of a call, and no move before the saga has returned (Shown): so every   *)
(* step adds to one part of Announced only, behind all that was there.     *)
(***************************************************************************)
Shown(r, t, a) ==
  /\ r.pc \in Entering \cup {"none"} => t = << >> /\ ~a.started /\ a.moves = << >>
  /\ r.pc = "saga" => a.moves = << >>

ShownOK == \A c \in Calls : Shown(call[c], trail[c], audit[c])

NInv == RInv /\ ShownOK

\* The kinds of steps, by what they publish: nothing, RunStarted, the events of
\* the saga, the moves of the node, RunFinished.
Quiet(c) ==
  /\ trail'[c] = trail[c] /\ audit'[c] = audit[c]
  /\ \/ call[c].pc \in Entering \cup {"none"} /\ call'[c].pc \in Entering \cup {"returned"}
     \/ call[c].pc \notin Entering \cup {"none"} /\ call'[c].pc \in {"finish_run", "returned"}

Starts(c) ==
  /\ call[c].pc = "save_run" /\ call'[c].pc = "saga"
  /\ trail'[c] = << >> /\ audit'[c] = [audit[c] EXCEPT !.started = TRUE]

Executes(c) == call[c].pc = "saga" /\ call' = call /\ audit' = audit

Walks(c) ==
  /\ call[c].pc = "saga" /\ call'[c].pc \in {"save_node", "returned"}
  /\ trail'[c] = trail[c]
  /\ audit'[c] = [audit[c] EXCEPT !.moves =
                    Moves(call[c].node.state, Path(call[c].req.kind, saga[c].status))]

Ends(c) ==
  /\ call[c].pc = "finish_run" /\ call'[c].pc = "returned"
  /\ trail'[c] = trail[c] /\ audit'[c] = [audit[c] EXCEPT !.finished = saga[c].status]

SameRun(c) == call'[c].run = call[c].run /\ call'[c].req = call[c].req

CallStep(c) == Progress(c) \/ RepeatAttempt(c) \/ Cancel(c) \/ \E q \in Requests : StartDeployment(c, q)

OthersRest(c) ==
  \A d \in Calls : d # c => call'[d] = call[d] /\ trail'[d] = trail[d] /\ audit'[d] = audit[d]

LEMMA ReturnIsQuiet ==
  ASSUME RInv, NEW c \in Calls, ~At(c, "none"), NEW e, Return(c, e), UNCHANGED <<trail, audit>>
  PROVE  Quiet(c) /\ SameRun(c) /\ OthersRest(c)
BY ReturnFields DEF RInv, BInv, EInv, Quiet, SameRun, OthersRest

LEMMA EnteringIsQuiet ==
  ASSUME RInv, NEW c \in Calls, NEW r, call' = [call EXCEPT ![c] = r], r.pc \in Entering,
         call[c].pc \in Entering \cup {"none"}, UNCHANGED <<trail, audit>>
  PROVE  Quiet(c) /\ OthersRest(c)
<1>1. call'[c] = r /\ \A d \in Calls : d # c => call'[d] = call[d]
  BY DEF RInv, BInv, EInv, CallsOK
<1> QED
  BY <1>1 DEF Quiet, OthersRest

LEMMA ApplyPathWalks ==
  ASSUME RInv, NEW c \in Calls, ApplyPath(c)
  PROVE  Walks(c) /\ SameRun(c) /\ OthersRest(c)
<1> DEFINE m == Moves(call[c].node.state, Path(call[c].req.kind, saga[c].status))
<1>1. /\ ~At(c, "none") /\ call[c].pc = "saga" /\ trail' = trail
      /\ audit' = [audit EXCEPT ![c].moves = m]
  BY DEF ApplyPath, At, sagaVars
<1>2. /\ audit'[c] = [audit[c] EXCEPT !.moves = m]
      /\ \A d \in Calls : d # c => audit'[d] = audit[d]
  BY <1>1 DEF RInv, BInv, AuditOK
<1>3. /\ call'[c].pc \in {"save_node", "returned"} /\ SameRun(c)
      /\ \A d \in Calls : d # c => call'[d] = call[d]
  <2>1. call[c] \in CallRecord
    BY <1>1, Called DEF RInv, BInv, EInv
  <2>2. CASE Return(c, "IllegalTransition")
    BY <1>1, <2>2, ReturnFields DEF RInv, BInv, EInv, SameRun
  <2>3. ASSUME NEW n, call' = [call EXCEPT ![c].node = n, ![c].pc = "save_node"]
        PROVE  /\ call'[c].pc = "save_node" /\ SameRun(c)
               /\ \A d \in Calls : d # c => call'[d] = call[d]
    BY <2>1, <2>3 DEF RInv, BInv, EInv, CallsOK, CallRecord, SameRun
  <2>4. Return(c, "IllegalTransition")
        \/ \E n : call' = [call EXCEPT ![c].node = n, ![c].pc = "save_node"]
    BY DEF ApplyPath
  <2> QED
    BY <2>2, <2>3, <2>4
<1> QED
  BY <1>1, <1>2, <1>3 DEF Walks, OthersRest

LEMMA StepKinds ==
  ASSUME RInv, NEW c \in Calls, CallStep(c)
  PROVE  /\ OthersRest(c)
         /\ Quiet(c) \/ Starts(c) \/ Executes(c) \/ Walks(c) \/ Ends(c)
         /\ call[c].pc \notin (Entering \cup {"none"}) \ {"save_run"} => SameRun(c)
<1>1. CASE \E q \in Requests : StartDeployment(c, q)
  <2>1. PICK q \in Requests : StartDeployment(c, q)
    BY <1>1
  <2> DEFINE r == [pc |-> "start", req |-> q, read |-> NoNode, node |-> NoNode, run |-> 0,
                   result |-> "pending"]
  <2>2. r.pc \in Entering /\ call[c].pc = "none" /\ call' = [call EXCEPT ![c] = r]
    BY <2>1 DEF StartDeployment, At, Entering
  <2>3. UNCHANGED <<trail, audit>>
    BY <2>1 DEF StartDeployment, sagaVars
  <2> QED
    BY <2>2, <2>3, EnteringIsQuiet
<1>2. CASE TakeToken(c) \/ TakeSlot(c) \/ GetNode(c) \/ GetSpare(c) \/ FetchAdd(c)
  <2>1. /\ ~At(c, "none") /\ UNCHANGED <<trail, audit>>
        /\ call[c].pc \in Entering \ {"save_run"}
    BY <1>2 DEF TakeToken, TakeSlot, GetNode, GetSpare, FetchAdd, At, sagaVars, Entering
  <2>2. call[c] \in CallRecord
    BY <2>1, Called DEF RInv, BInv, EInv
  <2>3. \/ \E e : Return(c, e)
        \/ \E r : call' = [call EXCEPT ![c] = r] /\ r.pc \in Entering
    <3>1. CASE TakeToken(c) \/ TakeSlot(c) \/ GetSpare(c)
      <4>1. ASSUME NEW p \in Entering, Goto(c, p)
            PROVE  \E r : call' = [call EXCEPT ![c] = r] /\ r.pc \in Entering
        <5>1. [call[c] EXCEPT !.pc = p].pc = p
          BY <2>2 DEF CallRecord
        <5> QED
          BY <4>1, <5>1 DEF Goto
      <4>2. (\E e : Return(c, e)) \/ (\E p \in Entering : Goto(c, p))
        BY <3>1 DEF TakeToken, TakeSlot, GetSpare, RepoError, Entering
      <4> QED
        BY <4>1, <4>2
    <3>2. CASE GetNode(c)
      <4>1. ASSUME NEW n, NEW p \in Entering,
                   call' = [call EXCEPT ![c].read = n, ![c].node = n, ![c].pc = p]
            PROVE  \E r : call' = [call EXCEPT ![c] = r] /\ r.pc \in Entering
        <5>1. [call[c] EXCEPT !.read = n, !.node = n, !.pc = p].pc = p
          BY <2>2 DEF CallRecord
        <5> QED
          BY <4>1, <5>1
      <4>2. \/ \E e : Return(c, e)
            \/ \E n : \E p \in Entering :
                 call' = [call EXCEPT ![c].read = n, ![c].node = n, ![c].pc = p]
        BY <3>2 DEF GetNode, RepoError, Entering
      <4> QED
        BY <4>1, <4>2
    <3>3. CASE FetchAdd(c)
      <4>1. [call[c] EXCEPT !.run = nextRun, !.pc = "save_run"].pc \in Entering
        BY <2>2 DEF CallRecord, Entering
      <4> QED
        BY <3>3, <4>1 DEF FetchAdd
    <3> QED
      BY <1>2, <3>1, <3>2, <3>3
  <2> QED
    BY <2>1, <2>3, ReturnIsQuiet, EnteringIsQuiet
<1>3. CASE SaveRun(c)
  <2>1. ~At(c, "none") /\ call[c].pc = "save_run"
    BY <1>3 DEF SaveRun, At
  <2>2. CASE RepoError(c) /\ UNCHANGED <<sagaVars, audit>>
    BY <2>1, <2>2, ReturnIsQuiet DEF RepoError, sagaVars
  <2>3. CASE /\ audit' = [audit EXCEPT ![c].started = TRUE]
             /\ Begin(c, JobOf(c)) /\ Goto(c, "saga")
    <3>1. call'[c].pc = "saga" /\ SameRun(c) /\ \A d \in Calls : d # c => call'[d] = call[d]
      BY <2>1, <2>3, GotoFields DEF RInv, BInv, EInv, SameRun
    <3>2. trail'[c] = << >> /\ \A d \in Calls : d # c => trail'[d] = trail[d]
      BY <2>3 DEF Begin, RInv, BInv, EInv, SagaTypeOK
    <3>3. /\ audit'[c] = [audit[c] EXCEPT !.started = TRUE]
          /\ \A d \in Calls : d # c => audit'[d] = audit[d]
      BY <2>3 DEF RInv, BInv, AuditOK
    <3> QED
      BY <2>1, <3>1, <3>2, <3>3 DEF Starts, OthersRest
  <2> QED
    BY <1>3, <2>2, <2>3 DEF SaveRun
<1>4. CASE SagaStep(c)
  <2>1. call' = call /\ audit' = audit /\ call[c].pc = "saga"
    BY <1>4 DEF SagaStep, engineVars, At
  <2>2. \A d \in Calls : d # c => trail'[d] = trail[d]
    BY <1>4 DEF SagaStep, RunStep, StepSucceeds, StepFails, UndoSucceeds, UndoFails,
                RInv, BInv, EInv, SagaTypeOK
  <2> QED
    BY <2>1, <2>2 DEF Executes, OthersRest, SameRun
<1>5. CASE ApplyPath(c)
  BY <1>5, ApplyPathWalks
<1>6. CASE SaveNode(c)
  <2>1. ~At(c, "none") /\ call[c].pc = "save_node" /\ UNCHANGED <<trail, audit>>
    BY <1>6 DEF SaveNode, At, sagaVars
  <2>2. CASE Goto(c, "finish_run")
    BY <2>1, <2>2, GotoFields DEF RInv, BInv, EInv, Quiet, SameRun, OthersRest, Entering
  <2> QED
    BY <1>6, <2>1, <2>2, ReturnIsQuiet DEF SaveNode, RepoError
<1>7. CASE FinishRun(c)
  <2>1. ~At(c, "none") /\ call[c].pc = "finish_run" /\ UNCHANGED trail
    BY <1>7 DEF FinishRun, At, sagaVars
  <2>2. CASE audit' = [audit EXCEPT ![c].finished = saga[c].status] /\ Return(c, "Ok")
    <3>1. /\ audit'[c] = [audit[c] EXCEPT !.finished = saga[c].status]
          /\ \A d \in Calls : d # c => audit'[d] = audit[d]
      BY <2>2 DEF RInv, BInv, AuditOK
    <3>2. /\ call'[c].pc = "returned" /\ SameRun(c)
          /\ \A d \in Calls : d # c => call'[d] = call[d]
      BY <2>1, <2>2, ReturnFields DEF RInv, BInv, EInv, SameRun
    <3> QED
      BY <2>1, <3>1, <3>2 DEF Ends, OthersRest
  <2> QED
    BY <1>7, <2>1, <2>2, ReturnIsQuiet DEF FinishRun, RepoError
<1>8. CASE Cancel(c)
  <2>1. ~At(c, "none") /\ UNCHANGED <<trail, audit>> /\ Return(c, "Cancelled")
    BY <1>8 DEF Cancel, At, Suspended
  <2> QED
    BY <2>1, ReturnIsQuiet
<1>9. CASE RepeatAttempt(c)
  BY <1>9, RepeatMoves DEF At, Executes, OthersRest, SameRun
<1> QED
  BY <1>1, <1>2, <1>3, <1>4, <1>5, <1>6, <1>7, <1>8, <1>9 DEF CallStep, Progress

LEMMA InitNInv == ASSUME Init PROVE NInv
<1>1. ShownOK
  BY DEF Init, SagaInit, ShownOK, Shown, NotCalled, Silent
<1> QED
  BY <1>1, InitRInv DEF NInv

LEMMA CallStepShown ==
  ASSUME NInv, NEW c \in Calls, CallStep(c)
  PROVE  ShownOK'
<1>1. Shown(call[c], trail[c], audit[c]) /\ audit[c] \in AuditRecord
  BY DEF NInv, ShownOK, RInv, BInv, AuditOK
<1>2. ASSUME NEW d \in Calls PROVE Shown(call'[d], trail'[d], audit'[d])
  <2>1. CASE d # c
    BY <2>1, StepKinds DEF NInv, OthersRest, ShownOK
  <2>2. CASE Quiet(c) /\ d = c
    BY <1>1, <2>2 DEF Quiet, Shown, Entering
  <2>3. CASE Starts(c) /\ d = c
    BY <1>1, <2>3 DEF Starts, Shown, Entering, AuditRecord
  <2>4. CASE Executes(c) /\ d = c
    BY <1>1, <2>4 DEF Executes, Shown, Entering
  <2>5. CASE (Walks(c) \/ Ends(c)) /\ d = c
    BY <2>5 DEF Walks, Ends, Shown, Entering
  <2> QED
    BY <2>1, <2>2, <2>3, <2>4, <2>5, StepKinds DEF NInv
<1> QED
  BY <1>2 DEF ShownOK, Shown

LEMMA NextNInv == ASSUME NInv, [Next]_vars PROVE NInv'
<1>1. ASSUME UNCHANGED <<call, trail, audit>> PROVE ShownOK'
  BY <1>1 DEF NInv, ShownOK, Shown
<1>2. \/ UNCHANGED <<call, trail, audit>>
      \/ \E c \in Calls : CallStep(c)
  BY DEF Next, CallStep, vars, Refill, RegisterNode, sagaVars
<1> QED
  BY <1>1, <1>2, CallStepShown, NextRInv DEF NInv

-----------------------------------------------------------------------------
(***************************************************************************)
(* The types of the events, and the bus in the control plane.              *)
(***************************************************************************)
QuietEvents ==
  [type : {"RunStarted", "RunFinished"}, run : Nat] \cup
  [type : {"StepCompleted", "StepCompensated"}, run : Nat, action : Steps]

MoveEvents == [type : {"NodeStateChanged"}, node : Hosts, from : NodeStates, to : NodeStates]

Evaluations ==
  {[type |-> "HealthEvaluated", node |-> n, reading |-> r,
    status |-> Classify(r.snapshot, r.now, DefaultThresholds)] : n \in Hosts, r \in Readings}

CallEvents == QuietEvents \cup MoveEvents

PlaneEvents == CallEvents \cup Evaluations

\* The parts of Announced.
StartPart(c) == IF audit[c].started THEN <<RunEvent("RunStarted", c)>> ELSE << >>
StepPart(c)  == [i \in DOMAIN trail[c] |-> StepEvent(c, trail[c][i])]
MovePart(c)  == [i \in DOMAIN audit[c].moves |-> MoveEvent(c, audit[c].moves[i])]
EndPart(c)   == IF audit[c].finished = "Running" THEN << >> ELSE <<RunEvent("RunFinished", c)>>

LEMMA PartsOfAnnounced ==
  ASSUME NEW c \in Calls
  PROVE  Announced(c) = StartPart(c) \o StepPart(c) \o MovePart(c) \o EndPart(c)
BY DEF Announced, StartPart, StepPart, MovePart, EndPart

LEMMA PartTypes ==
  ASSUME NInv, NEW c \in Calls
  PROVE  /\ StartPart(c) \in Seq(QuietEvents) /\ StepPart(c) \in Seq(QuietEvents)
         /\ MovePart(c) \in Seq(MoveEvents) /\ EndPart(c) \in Seq(QuietEvents)
         /\ Len(MovePart(c)) = Len(audit[c].moves)
<1>1. trail[c] \in Seq(Event) /\ audit[c] \in AuditRecord
  BY DEF NInv, RInv, BInv, EInv, SagaTypeOK, AuditOK
<1>2. audit[c].moves \in Seq(NodeStates \X NodeStates) /\ audit[c].started \in BOOLEAN
  BY <1>1 DEF AuditRecord
<1>3. CASE At(c, "none")
  <2>1. trail[c] = << >> /\ ~audit[c].started /\ audit[c].moves = << >> /\ audit[c].finished = "Running"
    BY <1>3, NotFinished DEF NInv, ShownOK, Shown, At
  <2> QED
    BY <2>1 DEF StartPart, StepPart, MovePart, EndPart
<1>4. CASE ~At(c, "none")
  <2>1. call[c].run \in Nat /\ call[c].req.node \in Hosts
    <3>1. call[c] \in CallRecord
      BY <1>4, Called DEF NInv, RInv, BInv, EInv
    <3> QED
      BY <3>1, EngineAssumption DEF CallRecord, AllRequests
  <2>2. RunEvent("RunStarted", c) \in QuietEvents /\ RunEvent("RunFinished", c) \in QuietEvents
    BY <2>1 DEF RunEvent, QuietEvents
  <2>3. \A e \in Event : StepEvent(c, e) \in QuietEvents
    BY <2>1 DEF StepEvent, QuietEvents, Event
  <2>4. \A m \in NodeStates \X NodeStates : MoveEvent(c, m) \in MoveEvents
    BY <2>1 DEF MoveEvent, MoveEvents
  <2>5. StepPart(c) \in Seq(QuietEvents)
    <3>1. Len(trail[c]) \in Nat /\ DOMAIN trail[c] = 1..Len(trail[c])
          /\ \A i \in 1..Len(trail[c]) : trail[c][i] \in Event
      BY <1>1
    <3>2. \A i \in 1..Len(trail[c]) : StepEvent(c, trail[c][i]) \in QuietEvents
      BY <2>3, <3>1
    <3>3. [i \in 1..Len(trail[c]) |-> StepEvent(c, trail[c][i])] \in Seq(QuietEvents)
      BY <3>1, <3>2
    <3> QED
      BY <3>1, <3>3 DEF StepPart
  <2>6. MovePart(c) \in Seq(MoveEvents) /\ Len(MovePart(c)) = Len(audit[c].moves)
    <3> DEFINE m == audit[c].moves
    <3>1. Len(m) \in Nat /\ DOMAIN m = 1..Len(m) /\ \A i \in 1..Len(m) : m[i] \in NodeStates \X NodeStates
      BY <1>2
    <3>2. \A i \in 1..Len(m) : MoveEvent(c, m[i]) \in MoveEvents
      BY <2>4, <3>1
    <3> DEFINE s == [i \in 1..Len(m) |-> MoveEvent(c, m[i])]
    <3>3. s \in Seq(MoveEvents) /\ Len(s) = Len(m)
      BY <3>1, <3>2
    <3> QED
      BY <3>1, <3>3 DEF MovePart
  <2> QED
    BY <2>2, <2>5, <2>6 DEF StartPart, EndPart
<1> QED
  BY <1>3, <1>4

LEMMA AnnouncedType ==
  ASSUME NInv, NEW c \in Calls
  PROVE  /\ Announced(c) \in Seq(CallEvents)
         /\ audit[c].moves = << >> => Announced(c) \in Seq(QuietEvents)
<1> DEFINE s == StartPart(c)
           t == StepPart(c)
           m == MovePart(c)
           f == EndPart(c)
<1>1. /\ s \in Seq(QuietEvents) /\ t \in Seq(QuietEvents)
      /\ m \in Seq(MoveEvents) /\ f \in Seq(QuietEvents)
      /\ Len(m) = Len(audit[c].moves)
  BY PartTypes
<1>2. Announced(c) = s \o t \o m \o f
  BY PartsOfAnnounced
<1>3. audit[c].moves = << >> => m = << >>
  BY DEF MovePart
<1> HIDE DEF s, t, m, f
<1>4. s \o t \o m \o f \in Seq(CallEvents)
  <2>1. QuietEvents \subseteq CallEvents /\ MoveEvents \subseteq CallEvents
    BY DEF CallEvents
  <2>2. s \in Seq(CallEvents) /\ t \in Seq(CallEvents) /\ m \in Seq(CallEvents) /\ f \in Seq(CallEvents)
    BY <1>1, <2>1
  <2> QED
    BY <2>2
<1>5. ASSUME m = << >> PROVE s \o t \o m \o f \in Seq(QuietEvents)
  <2>1. m \in Seq(QuietEvents)
    BY <1>5
  <2> QED
    BY <1>1, <2>1
<1> QED
  BY <1>2, <1>3, <1>4, <1>5

\* What a step adds, when it is known what stood there and what stands there now.
LEMMA PiecesType ==
  ASSUME NEW S, NEW t \in Seq(S), NEW n \in Nat
  PROVE  SubSeq(t, n + 1, Len(t)) \in Seq(S)
<1>1. Len(t) \in Nat /\ \A i \in 1..Len(t) : t[i] \in S
  OBVIOUS
<1>2. \A i \in (n + 1)..Len(t) : t[i] \in S
  BY <1>1
<1> QED
  BY <1>1, <1>2

LEMMA SuffixIs ==
  ASSUME NEW S, NEW t \in Seq(S), NEW u \in Seq(S)
  PROVE  SubSeq(t \o u, Len(t) + 1, Len(t \o u)) = u
<1>1. Len(t) \in Nat /\ Len(u) \in Nat /\ Len(t \o u) = Len(t) + Len(u) /\ t \o u \in Seq(S)
  OBVIOUS
<1>2. \A i \in 1..Len(u) : (t \o u)[Len(t) + i] = u[i]
  BY <1>1
<1> QED
  BY <1>1, <1>2

Typed(c) ==
  /\ Announced(c) \in Seq(CallEvents)
  /\ audit[c].moves = << >> => Announced(c) \in Seq(QuietEvents)

LEMMA AnnouncedNext ==
  ASSUME NEW c \in Calls
  PROVE  NInv' => Typed(c)'
<1>1. NInv => Typed(c)
  BY AnnouncedType DEF Typed
<1> QED
  BY <1>1, PTL

LEMMA NewsType ==
  ASSUME NInv, NInv', NEW c \in Calls
  PROVE  News(c) \in Seq(CallEvents)
<1>1. Announced(c) \in Seq(CallEvents) /\ Announced(c)' \in Seq(CallEvents)
  BY AnnouncedType, AnnouncedNext DEF Typed
<1>2. Len(Announced(c)) \in Nat
  BY <1>1
<1> QED
  BY <1>1, <1>2, PiecesType DEF News

\* A step of the control plane is one of the engine with a publication, one of a
\* subscriber, or neither.
PInv == NInv /\ sent \in Seq(PlaneEvents)

LEMMA PlaneBusStep ==
  ASSUME PInv, NInv', [PlaneNext]_allVars
  PROVE  /\ [BusNext(PlaneEvents)]_busVars
         /\ sent' \in Seq(PlaneEvents)
<1>0. sent \in Seq(PlaneEvents)
  BY DEF PInv
<1>1. ASSUME NEW e \in Seq(PlaneEvents), Publish(e), UNCHANGED sub
      PROVE  [BusNext(PlaneEvents)]_busVars /\ sent' \in Seq(PlaneEvents)
  <2>1. sent' \in Seq(PlaneEvents)
    BY <1>0, <1>1 DEF Publish
  <2>2. CASE e = << >>
    <3>1. sent \o << >> = sent
      BY <1>0
    <3> QED
      BY <1>1, <2>1, <2>2, <3>1 DEF Publish, busVars
  <2>3. CASE e # << >>
    BY <1>1, <2>1, <2>3 DEF BusNext
  <2> QED
    BY <2>2, <2>3
<1>2. ASSUME UNCHANGED busVars
      PROVE  [BusNext(PlaneEvents)]_busVars /\ sent' \in Seq(PlaneEvents)
  BY <1>0, <1>2 DEF busVars
<1>3. ASSUME NEW s \in Subscribers, Watch(s)
      PROVE  [BusNext(PlaneEvents)]_busVars /\ sent' \in Seq(PlaneEvents)
  <2>1. SubscriberStep(s) /\ UNCHANGED sent
    BY <1>3 DEF Watch, SubscriberStep, Subscribe, Poll, Hear, Lag, Unsubscribe
  <2> QED
    BY <1>0, <2>1 DEF BusNext
<1>4. ASSUME NEW c \in Calls, Advance(c)
      PROVE  [BusNext(PlaneEvents)]_busVars /\ sent' \in Seq(PlaneEvents)
  <2>1. News(c) \in Seq(CallEvents)
    BY NewsType DEF PInv
  <2>2. CallEvents \subseteq PlaneEvents
    BY DEF PlaneEvents
  <2> HIDE DEF News
  <2>3. News(c) \in Seq(PlaneEvents)
    BY <2>1, <2>2
  <2> QED
    BY <1>1, <1>4, <2>3 DEF Advance
<1>5. ASSUME NEW n \in Hosts, NEW r \in Readings, EvaluateHealth(n, r)
      PROVE  [BusNext(PlaneEvents)]_busVars /\ sent' \in Seq(PlaneEvents)
  <2> DEFINE e == [type |-> "HealthEvaluated", node |-> n, reading |-> r,
                   status |-> Classify(r.snapshot, r.now, DefaultThresholds)]
  <2>1. e \in PlaneEvents
    BY DEF PlaneEvents, Evaluations
  <2>2. Publish(<<e>>) /\ UNCHANGED sub
    BY <1>5 DEF EvaluateHealth
  <2> HIDE DEF e
  <2>3. <<e>> \in Seq(PlaneEvents)
    BY <2>1
  <2> QED
    BY <1>1, <2>2, <2>3
<1>6. CASE Refill /\ UNCHANGED busVars
  BY <1>2, <1>6
<1>7. ASSUME NEW i \in RegisterInputs, Register(i) PROVE UNCHANGED busVars
  BY <1>7 DEF Register
<1>8. ASSUME NEW c \in Calls, NEW i \in DeployInputs, Deploy(c, i) PROVE UNCHANGED busVars
  BY <1>8 DEF Deploy
<1>9. CASE UNCHANGED allVars
  <2>1. UNCHANGED busVars
    BY <1>9 DEF allVars, busVars
  <2> QED
    BY <1>2, <2>1
<1> QED
  BY <1>2, <1>3, <1>4, <1>5, <1>6, <1>7, <1>8, <1>9 DEF PlaneNext

LEMMA PlaneTyped == PlaneSpec => []PInv
<1>1. PlaneInit => PInv
  <2> SUFFICES ASSUME PlaneInit PROVE PInv
    OBVIOUS
  <2>1. sent \in Seq(PlaneEvents)
    BY DEF PlaneInit, BusInit
  <2> QED
    BY <2>1, InitNInv DEF PlaneInit, PInv
<1>2. PInv /\ [PlaneNext]_allVars => PInv'
  <2> SUFFICES ASSUME PInv, [PlaneNext]_allVars PROVE PInv'
    OBVIOUS
  <2>1. [Next]_vars
    BY PlaneStepOfTheEngine
  <2>2. NInv'
    BY <2>1, NextNInv DEF PInv
  <2> QED
    BY <2>2, PlaneBusStep DEF PInv
<1> QED
  BY <1>1, <1>2, PTL DEF PlaneSpec

\* The engine and the executor are publishers of the bus: what BusSpec says of
\* publishers of any events holds of theirs (events.rs:58-62).
THEOREM PlaneIsABus == PlaneSpec => BusSpec(PlaneEvents)
<1>1. PlaneInit => BusInit
  BY DEF PlaneInit
<1>2. PInv /\ PInv' /\ [PlaneNext]_allVars => [BusNext(PlaneEvents)]_busVars
  BY PlaneBusStep DEF PInv
<1> QED
  BY <1>1, <1>2, PlaneTyped, PTL DEF PlaneSpec, BusSpec

\* So a client that follows the deployments loses overwritten events only
\* (OnlyOverwrittenAreLost) and hears the rest once and in order
\* (ImplementsLossyStream), whatever the engine publishes in one go.
THEOREM PlaneIsHeard ==
  PlaneSpec => [](BusTypeOK /\ OnlyOverwrittenAreLost) /\ ImplementsLossyStream
<1>1. /\ BusSpec(PlaneEvents) => []BusTypeOK
      /\ BusSpec(PlaneEvents) => []OnlyOverwrittenAreLost
      /\ BusSpec(PlaneEvents) => ImplementsLossyStream
  BY BusTypeCorrect, LossIsOverwriting, BusIsALossyStream
<1> QED
  BY <1>1, PlaneIsABus, PTL

-----------------------------------------------------------------------------
(***************************************************************************)
(* Verdicts on health.                                                     *)
(***************************************************************************)
LEMMA SecondsGrow ==
  ASSUME NEW d \in Int, NEW e \in Int, d <= e
  PROVE  Seconds(d) \in Int /\ Seconds(e) \in Int /\ Seconds(d) <= Seconds(e)
BY DEF Seconds, SecondHalves

\* Time changes the verdict on a snapshot in one way.
LEMMA VerdictsAge ==
  ASSUME NEW s, s.at \in Int, NEW now \in Int, NEW later \in Int, now <= later
  PROVE  LET t == DefaultThresholds
         IN  Classify(s, later, t) \in {Classify(s, now, t), "Unknown"}
<1> DEFINE d == Seconds(now - s.at)
           e == Seconds(later - s.at)
<1>1. d \in Int /\ e \in Int /\ d <= e
  BY SecondsGrow
<1>2. DefaultThresholds.freshness = 60
  BY DEF DefaultThresholds
<1> HIDE DEF d, e
<1>3. CASE e > 60
  BY <1>2, <1>3 DEF Classify, e
<1>4. CASE ~(e > 60)
  <2>1. ~(d > 60)
    BY <1>1, <1>4
  <2> QED
    BY <1>2, <1>4, <2>1 DEF Classify, d, e
<1> QED
  BY <1>3, <1>4

\* A published verdict is overtaken by nothing but the age of its snapshot
\* (AgeingOnlyBlinds), for any readings, snapshots stamped in the future included:
\* no event but a verdict has its type, and the truncated age only grows.
THEOREM VerdictsOnlyAge == PlaneSpec => []AgeingOnlyBlinds
<1>1. PInv => AgeingOnlyBlinds
  <2> SUFFICES ASSUME PInv, NEW p \in DOMAIN sent, NEW r \in Readings,
                      sent[p].type = "HealthEvaluated",
                      r.snapshot = sent[p].reading.snapshot, r.now >= sent[p].reading.now
               PROVE  Classify(r.snapshot, r.now, DefaultThresholds) \in {sent[p].status, "Unknown"}
    BY DEF AgeingOnlyBlinds
  <2>1. sent[p] \in PlaneEvents
    BY DEF PInv
  <2>2. sent[p] \in Evaluations
    BY <2>1 DEF PlaneEvents, CallEvents, QuietEvents, MoveEvents
  <2>3. PICK q \in Readings :
          /\ sent[p].reading = q
          /\ sent[p].status = Classify(q.snapshot, q.now, DefaultThresholds)
    BY <2>2 DEF Evaluations
  <2>4. q.now \in Int /\ r.now \in Int /\ r.snapshot.at \in Int
    BY InputAssumption
  <2> QED
    BY <2>3, <2>4, VerdictsAge
<1> QED
  BY <1>1, PlaneTyped, PTL

-----------------------------------------------------------------------------
(***************************************************************************)
(* The feed and the store.                                                 *)
(***************************************************************************)
\* A path that a node at rest does not complete is refused at its first move.
LEMMA AllOrNothing ==
  ASSUME NEW s \in AtRest, NEW kind \in Kinds, NEW status
  PROVE  Walked(s, Path(kind, status)) \in {0, Len(Path(kind, status))}
<1> DEFINE path == Path(kind, status)
           w == Walked(s, path)
<1>1. Len(path) \in 0..3
  BY PathType
<1>2. /\ w \in 0..Len(path) /\ Legal(s, path, w)
      /\ \A m \in (w + 1)..Len(path) : ~Legal(s, path, m)
  <2>1. \E n \in 0..Len(path) : Legal(s, path, n) /\ \A m \in (n + 1)..Len(path) : ~Legal(s, path, m)
    BY <1>1, LongestWalk
  <2> HIDE DEF path
  <2> QED
    BY <2>1 DEF w, Walked
<1>3. ASSUME w # 0 PROVE Legal(s, path, Len(path))
  <2>1. CanTransition(s, path[1]) /\ 1 \in 1..Len(path)
    BY <1>1, <1>2, <1>3 DEF Legal, Before
  <2>2. CASE status # "Succeeded"
    <3> DEFINE n == Len(path)
    <3>1. n = 0 \/ n = 1
      BY <2>2 DEF Path, FailurePath
    <3>2. w \in 0..n /\ w # 0 /\ Legal(s, path, w)
      BY <1>2, <1>3
    <3> HIDE DEF n, w, path
    <3>3. w = n
      BY <3>1, <3>2
    <3>4. Legal(s, path, n)
      BY <3>2, <3>3
    <3> QED
      BY <3>4 DEF n
  <2>3. CASE status = "Succeeded" /\ kind = "Provision"
    <3>1. path = <<"Bootstrapping", "CatchingUp", "Active">>
      BY <2>3 DEF Path, SuccessPath
    <3>2. path[1] = "Bootstrapping" /\ path[2] = "CatchingUp" /\ path[3] = "Active" /\ Len(path) = 3
      BY <3>1
    <3> HIDE DEF path
    <3>3. \A i \in 1..3 : CanTransition(Before(s, path, i), path[i])
      BY <2>1, <3>2 DEF Before, CanTransition, Edges
    <3> QED
      BY <3>2, <3>3 DEF Legal
  <2>4. CASE status = "Succeeded" /\ kind = "Upgrade"
    <3>1. path = <<"Draining", "CatchingUp", "Active">>
      BY <2>4 DEF Path, SuccessPath
    <3>2. path[1] = "Draining" /\ path[2] = "CatchingUp" /\ path[3] = "Active" /\ Len(path) = 3
      BY <3>1
    <3> HIDE DEF path
    <3>3. \A i \in 1..3 : CanTransition(Before(s, path, i), path[i])
      BY <2>1, <3>2 DEF Before, CanTransition, Edges
    <3> QED
      BY <3>2, <3>3 DEF Legal
  <2>5. CASE status = "Succeeded" /\ kind \in {"Failover", "Decommission"}
    <3>1. path = <<"Draining", "Decommissioned">>
      BY <2>5 DEF Path, SuccessPath
    <3>2. path[1] = "Draining" /\ path[2] = "Decommissioned" /\ Len(path) = 2
      BY <3>1
    <3> HIDE DEF path
    <3>3. \A i \in 1..2 : CanTransition(Before(s, path, i), path[i])
      BY <2>1, <3>2 DEF Before, CanTransition, Edges
    <3> QED
      BY <3>2, <3>3 DEF Legal
  <2> QED
    BY <2>2, <2>3, <2>4, <2>5 DEF Kinds
<1>4. ASSUME w # 0, w # Len(path) PROVE FALSE
  <2>1. Len(path) \in (w + 1)..Len(path)
    BY <1>1, <1>2, <1>4
  <2> QED
    BY <1>2, <1>3, <1>4, <2>1
<1> QED
  BY <1>4

\* The last move of a node in a sequence of events, and a state that agrees with
\* it.
Moving(e, n) == e.type = "NodeStateChanged" /\ e.node = n

LastIn(t, n, p) == Moving(t[p], n) /\ \A q \in (p + 1)..Len(t) : ~Moving(t[q], n)

Told(t, n, x) == \A p \in 1..Len(t) : LastIn(t, n, p) => x \in {t[p].to, "Provisioning"}

LEMMA QuietTold ==
  ASSUME NEW S, NEW t \in Seq(S), NEW s \in Seq(S), NEW n, NEW x,
         \A i \in 1..Len(s) : ~Moving(s[i], n), Told(t, n, x)
  PROVE  Told(t \o s, n, x)
<1> DEFINE u == t \o s
<1>1. /\ Len(t) \in Nat /\ Len(s) \in Nat /\ Len(u) = Len(t) + Len(s)
      /\ \A i \in 1..Len(t) : u[i] = t[i]
      /\ \A i \in 1..Len(s) : u[Len(t) + i] = s[i]
  OBVIOUS
<1> HIDE DEF u
<1> SUFFICES ASSUME NEW p \in 1..Len(u), LastIn(u, n, p) PROVE x \in {u[p].to, "Provisioning"}
  BY DEF Told, u
<1>2. p <= Len(t)
  <2>1. ASSUME p > Len(t) PROVE FALSE
    <3>1. p - Len(t) \in 1..Len(s) /\ Len(t) + (p - Len(t)) = p
      BY <1>1, <2>1
    <3>2. u[p] = s[p - Len(t)]
      BY <1>1, <3>1
    <3> QED
      BY <3>1, <3>2 DEF LastIn
  <2> QED
    BY <1>1, <2>1
<1>3. p \in 1..Len(t) /\ u[p] = t[p]
  BY <1>1, <1>2
<1>4. \A q \in (p + 1)..Len(t) : q \in (p + 1)..Len(u) /\ u[q] = t[q]
  BY <1>1, <1>3
<1>5. LastIn(t, n, p)
  BY <1>3, <1>4 DEF LastIn
<1> QED
  BY <1>3, <1>5 DEF Told

LEMMA MovedTold ==
  ASSUME NEW S, NEW t \in Seq(S), NEW s \in Seq(S), NEW n, NEW x,
         Len(s) > 0, Moving(s[Len(s)], n), s[Len(s)].to = x
  PROVE  Told(t \o s, n, x)
<1> DEFINE u == t \o s
<1>1. /\ Len(t) \in Nat /\ Len(s) \in Nat /\ Len(u) = Len(t) + Len(s)
      /\ Len(s) \in 1..Len(s) /\ u[Len(t) + Len(s)] = s[Len(s)]
  OBVIOUS
<1> HIDE DEF u
<1> SUFFICES ASSUME NEW p \in 1..Len(u), LastIn(u, n, p) PROVE x \in {u[p].to, "Provisioning"}
  BY DEF Told, u
<1>2. u[Len(u)] = s[Len(s)]
  BY <1>1
<1>3. p = Len(u)
  <2>1. ASSUME p # Len(u) PROVE FALSE
    <3>1. Len(u) \in (p + 1)..Len(u)
      BY <1>1, <2>1
    <3> QED
      BY <1>2, <3>1 DEF LastIn
  <2> QED
    BY <2>1
<1> QED
  BY <1>2, <1>3

-----------------------------------------------------------------------------
\* What a step of a call adds to the events: no move, or the moves of its path.
LEMMA NoNews ==
  ASSUME NInv, NEW c \in Calls, Announced(c)' = Announced(c)
  PROVE  News(c) = << >>
<1>1. Announced(c) \in Seq(CallEvents)
  BY AnnouncedType
<1>2. Announced(c) \o << >> = Announced(c) /\ << >> \in Seq(CallEvents)
  BY <1>1
<1> DEFINE a == Announced(c)
<1>3. SubSeq(a \o << >>, Len(a) + 1, Len(a \o << >>)) = << >>
  BY <1>1, <1>2, SuffixIs
<1> HIDE DEF a
<1> QED
  BY <1>2, <1>3 DEF News, a

LEMMA QuietNews ==
  ASSUME NInv, NInv', NEW c \in Calls, CallStep(c), ~Walks(c)
  PROVE  News(c) \in Seq(QuietEvents)
<1>1. /\ Shown(call[c], trail[c], audit[c]) /\ audit[c] \in AuditRecord
      /\ Announced(c) \in Seq(CallEvents)
  BY AnnouncedType DEF NInv, ShownOK, RInv, BInv, AuditOK
<1>2. ASSUME audit'[c].moves = << >> PROVE News(c) \in Seq(QuietEvents)
  <2>1. Announced(c)' \in Seq(QuietEvents)
    BY <1>2, AnnouncedNext DEF Typed
  <2>2. Len(Announced(c)) \in Nat
    BY <1>1
  <2> QED
    BY <2>1, <2>2, PiecesType DEF News
<1>3. CASE Quiet(c) /\ call[c].pc \in Entering \cup {"none"}
  BY <1>1, <1>2, <1>3 DEF Quiet, Shown
<1>4. CASE Quiet(c) /\ call[c].pc \notin Entering \cup {"none"}
  <2>1. SameRun(c)
    BY <1>4, StepKinds DEF NInv
  <2>2. Announced(c)' = Announced(c)
    BY <1>4, <2>1 DEF Quiet, SameRun, Announced, RunEvent, StepEvent, MoveEvent
  <2>3. News(c) = << >>
    BY <2>2, NoNews
  <2> QED
    BY <2>3
<1>5. CASE Starts(c)
  BY <1>1, <1>2, <1>5 DEF Starts, Shown, Entering, AuditRecord
<1>6. CASE Executes(c)
  BY <1>1, <1>2, <1>6 DEF Executes, Shown
<1>7. CASE Ends(c)
  <2>1. SameRun(c)
    BY <1>7, StepKinds DEF NInv, Ends, Entering
  <2>2. audit[c].finished = "Running"
    BY <1>7, NotFinished DEF NInv, Ends, At
  <2> DEFINE a == StartPart(c) \o StepPart(c) \o MovePart(c)
             f == IF saga[c].status = "Running" THEN << >>
                  ELSE <<RunEvent("RunFinished", c)>>
  <2>3. Announced(c) = a /\ a \in Seq(CallEvents)
    <3>1. EndPart(c) = << >>
      BY <2>2 DEF EndPart
    <3>2. /\ StartPart(c) \in Seq(CallEvents) /\ StepPart(c) \in Seq(CallEvents)
          /\ MovePart(c) \in Seq(CallEvents)
      <4>1. QuietEvents \subseteq CallEvents /\ MoveEvents \subseteq CallEvents
        BY DEF CallEvents
      <4>2. /\ StartPart(c) \in Seq(QuietEvents) /\ StepPart(c) \in Seq(QuietEvents)
            /\ MovePart(c) \in Seq(MoveEvents)
        BY PartTypes
      <4> HIDE DEF StartPart, StepPart, MovePart
      <4> QED
        BY <4>1, <4>2
    <3>3. a \in Seq(CallEvents)
      BY <3>2
    <3>4. Announced(c) = a \o << >>
      BY <3>1, PartsOfAnnounced
    <3> HIDE DEF a
    <3> QED
      BY <3>3, <3>4
  <2>4. f \in Seq(QuietEvents) /\ f \in Seq(CallEvents)
    <3>1. call[c].run \in Nat
      <4>1. ~At(c, "none")
        BY <1>7 DEF Ends, At
      <4> QED
        BY <4>1, Called DEF NInv, RInv, BInv, EInv, CallRecord
    <3>2. RunEvent("RunFinished", c) \in QuietEvents /\ RunEvent("RunFinished", c) \in CallEvents
      BY <3>1 DEF RunEvent, QuietEvents, CallEvents
    <3> QED
      BY <3>2
  <2>5. Announced(c)' = a \o f
    <3>1. /\ trail'[c] = trail[c] /\ audit'[c].started = audit[c].started
          /\ audit'[c].moves = audit[c].moves /\ audit'[c].finished = saga[c].status
      BY <1>1, <1>7 DEF Ends, AuditRecord
    <3> QED
      BY <2>1, <3>1 DEF SameRun, Announced, RunEvent, StepEvent, MoveEvent,
                        StartPart, StepPart, MovePart
  <2> HIDE DEF a, f
  <2>6. SubSeq(a \o f, Len(a) + 1, Len(a \o f)) = f
    BY <2>3, <2>4, SuffixIs
  <2> QED
    BY <2>3, <2>4, <2>5, <2>6 DEF News
<1> QED
  BY <1>3, <1>4, <1>5, <1>6, <1>7, StepKinds DEF NInv

LEMMA WalkNews ==
  ASSUME NInv, NEW c \in Calls, Walks(c), SameRun(c)
  PROVE  LET path == Path(call[c].req.kind, saga[c].status)
             m    == Moves(call[c].node.state, path)
         IN  News(c) = [i \in DOMAIN m |-> MoveEvent(c, m[i])]
<1> DEFINE path == Path(call[c].req.kind, saga[c].status)
           m == Moves(call[c].node.state, path)
           news == [i \in DOMAIN m |-> MoveEvent(c, m[i])]
           a == StartPart(c) \o StepPart(c)
<1>1. /\ audit[c] \in AuditRecord /\ audit[c].moves = << >> /\ audit[c].finished = "Running"
      /\ call[c].pc = "saga"
  <2>1. call[c].pc = "saga"
    BY DEF Walks
  <2>2. audit[c] \in AuditRecord /\ Shown(call[c], trail[c], audit[c])
    BY DEF NInv, ShownOK, RInv, BInv, AuditOK
  <2>3. audit[c].finished = "Running"
    BY <2>1, NotFinished DEF NInv, At
  <2> QED
    BY <2>1, <2>2, <2>3 DEF Shown
<1>2. call[c] \in CallRecord /\ call[c].node \in NodeRecord
  BY <1>1, Called DEF NInv, RInv, BInv, EInv, Local, Loaded, At
<1>3. call[c].req.node \in Hosts /\ call[c].req.kind \in Kinds /\ call[c].node.state \in NodeStates
  BY <1>2, EngineAssumption DEF CallRecord, AllRequests, NodeRecord
<1>4. news \in Seq(MoveEvents)
  <2>1. m \in Seq(NodeStates \X NodeStates)
    BY <1>3, MovesType
  <2> HIDE DEF m
  <2>2. Len(m) \in Nat /\ DOMAIN m = 1..Len(m) /\ \A i \in 1..Len(m) : m[i] \in NodeStates \X NodeStates
    BY <2>1
  <2>3. \A i \in 1..Len(m) : MoveEvent(c, m[i]) \in MoveEvents
    BY <1>3, <2>2 DEF MoveEvent, MoveEvents
  <2>4. [i \in 1..Len(m) |-> MoveEvent(c, m[i])] \in Seq(MoveEvents)
    BY <2>2, <2>3
  <2> QED
    BY <2>2, <2>4
<1>5. a \in Seq(QuietEvents)
  <2>1. StartPart(c) \in Seq(QuietEvents) /\ StepPart(c) \in Seq(QuietEvents)
    BY PartTypes
  <2> HIDE DEF StartPart, StepPart
  <2> QED
    BY <2>1
<1>6. Announced(c) = a
  <2>1. MovePart(c) = << >> /\ EndPart(c) = << >>
    BY <1>1 DEF MovePart, EndPart
  <2>2. Announced(c) = a \o << >> \o << >>
    BY <2>1, PartsOfAnnounced
  <2> HIDE DEF a
  <2> QED
    BY <1>5, <2>2
<1>7. Announced(c)' = a \o news
  <2>1. /\ trail'[c] = trail[c] /\ audit'[c].started = audit[c].started
        /\ audit'[c].moves = m /\ audit'[c].finished = audit[c].finished
    BY <1>1 DEF Walks, AuditRecord
  <2> HIDE DEF m
  <2>2. Announced(c)' = a \o news \o << >>
    BY <1>1, <2>1 DEF SameRun, Announced, RunEvent, StepEvent, MoveEvent, StartPart, StepPart
  <2> HIDE DEF a, news
  <2>3. a \o news \in Seq(QuietEvents \cup MoveEvents)
    <3>1. QuietEvents \subseteq QuietEvents \cup MoveEvents /\ MoveEvents \subseteq QuietEvents \cup MoveEvents
      OBVIOUS
    <3>2. a \in Seq(QuietEvents \cup MoveEvents) /\ news \in Seq(QuietEvents \cup MoveEvents)
      BY <1>4, <1>5, <3>1
    <3> QED
      BY <3>2
  <2> QED
    BY <2>2, <2>3
<1> HIDE DEF a, news
<1>8. SubSeq(a \o news, Len(a) + 1, Len(a \o news)) = news
  <2>1. QuietEvents \subseteq CallEvents /\ MoveEvents \subseteq CallEvents
    BY DEF CallEvents
  <2>2. a \in Seq(CallEvents) /\ news \in Seq(CallEvents)
    BY <1>4, <1>5, <2>1
  <2> QED
    BY <2>2, SuffixIs
<1> QED
  BY <1>6, <1>7, <1>8 DEF News, news

-----------------------------------------------------------------------------
(***************************************************************************)
(* The invariant.  One deployment at a time: while its copy of the node is *)
(* under way to the store, the feed is ahead of the store, and in step     *)
(* with the copy; otherwise it is in step with the store.                  *)
(***************************************************************************)
Carrying == {"get_spare", "fetch_add", "save_run", "saga", "save_node"}

Saving(n) == \E c \in Calls : call[c].pc = "save_node" /\ call[c].req.node = n

FeedOK ==
  /\ \A n \in DOMAIN nodes : ~Saving(n) => Told(sent, n, nodes[n].state)
  /\ \A c \in Calls : call[c].pc \in Carrying => Told(sent, call[c].req.node, call[c].node.state)

FInv == PInv /\ FeedOK

LEMMA NobodyHolds ==
  ASSUME EInv, slots = MaxDeploys, NEW c \in Calls
  PROVE  call[c].pc \notin Holding
<1> DEFINE H == {e \in Calls : call[e].pc \in Holding}
<1>1. slots \in Nat /\ slots + Cardinality(H) = MaxDeploys
  BY DEF EInv, SlotsOK, SlotsAreConserved
<1>2. IsFiniteSet(H) /\ Cardinality(H) \in Nat
  BY EngineAssumption, FS_Subset, FS_CardinalityType
<1>3. Cardinality(H) = 0
  <2> HIDE DEF H
  <2> QED
    BY <1>1, <1>2
<1>4. H = {}
  BY <1>2, <1>3, FS_EmptySet
<1> QED
  BY <1>4

\* What an event says of nodes that do not move, it says of all states.
LEMMA NoMovesTold ==
  ASSUME NEW S, sent \in Seq(S), NEW s \in Seq(S), \A i \in 1..Len(s) : s[i].type # "NodeStateChanged",
         Publish(s)
  PROVE  \A n, x : Told(sent, n, x) => Told(sent', n, x)
<1> TAKE n, x
<1> HAVE Told(sent, n, x)
<1>1. \A i \in 1..Len(s) : ~Moving(s[i], n)
  BY DEF Moving
<1> QED
  BY <1>1, QuietTold DEF Publish

\* Steps that save no node, and change at most one call.
LEMMA OneCallFeeds ==
  ASSUME FeedOK, nodes' = nodes, NEW c \in Calls, \A d \in Calls : d # c => call'[d] = call[d],
         call[c].pc # "save_node", call'[c].pc # "save_node",
         call'[c].pc \in Carrying => Told(sent, call'[c].req.node, call'[c].node.state),
         \A n, x : Told(sent, n, x) => Told(sent', n, x)
  PROVE  FeedOK'
<1>1. ASSUME NEW n \in DOMAIN nodes, ~Saving(n)' PROVE Told(sent', n, nodes'[n].state)
  <2>1. ~Saving(n)
    BY <1>1 DEF Saving
  <2> QED
    BY <2>1 DEF FeedOK
<1>2. ASSUME NEW d \in Calls, call'[d].pc \in Carrying
      PROVE  Told(sent', call'[d].req.node, call'[d].node.state)
  BY <1>2 DEF FeedOK
<1> QED
  BY <1>1, <1>2 DEF FeedOK

LEMMA NoCallFeeds ==
  ASSUME FeedOK, nodes' = nodes, call' = call, \A n, x : Told(sent, n, x) => Told(sent', n, x)
  PROVE  FeedOK'
BY DEF FeedOK, Saving

LEMMA QuietStepTold ==
  ASSUME PInv, NInv', NEW c \in Calls, CallStep(c), ~Walks(c), Publish(News(c))
  PROVE  \A n, x : Told(sent, n, x) => Told(sent', n, x)
<1> DEFINE s == News(c)
<1>1. s \in Seq(QuietEvents)
  BY QuietNews DEF PInv
<1>2. QuietEvents \subseteq PlaneEvents /\ \A e \in QuietEvents : e.type # "NodeStateChanged"
  BY DEF PlaneEvents, CallEvents, QuietEvents
<1>3. Publish(s)
  OBVIOUS
<1> HIDE DEF s
<1>4. s \in Seq(PlaneEvents) /\ \A i \in 1..Len(s) : s[i].type # "NodeStateChanged"
  BY <1>1, <1>2
<1>5. sent \in Seq(PlaneEvents)
  BY DEF PInv
<1> QED
  BY <1>3, <1>4, <1>5, NoMovesTold

LEMMA EntryFeeds ==
  ASSUME FInv, NInv', MaxDeploys = 1, RepoMayFail = FALSE, NEW c \in Calls,
         TakeToken(c) \/ TakeSlot(c) \/ GetNode(c) \/ GetSpare(c) \/ FetchAdd(c) \/ SaveRun(c),
         Publish(News(c))
  PROVE  FeedOK'
<1>0. RInv /\ EInv /\ CallsOK /\ FeedOK /\ PInv
  BY DEF FInv, PInv, NInv, RInv, BInv, EInv
<1>1. CallStep(c) /\ nodes' = nodes
  BY DEF CallStep, Progress, TakeToken, TakeSlot, GetNode, GetSpare, FetchAdd, SaveRun, repoVars
<1>2. ~At(c, "none") /\ call[c].pc \notin {"saga", "save_node", "finish_run"}
  BY DEF TakeToken, TakeSlot, GetNode, GetSpare, FetchAdd, SaveRun, At
<1>3. /\ OthersRest(c) /\ \A n, x : Told(sent, n, x) => Told(sent', n, x)
  BY <1>0, <1>1, <1>2, StepKinds, QuietStepTold DEF Walks
<1>4. call[c] \in CallRecord
  BY <1>0, <1>2, Called
<1>5. ASSUME call'[c].pc # "save_node",
             call'[c].pc \in Carrying => Told(sent, call'[c].req.node, call'[c].node.state)
      PROVE  FeedOK'
  <2>1. \A d \in Calls : d # c => call'[d] = call[d]
    BY <1>3 DEF OthersRest
  <2> QED
    BY <1>0, <1>1, <1>2, <1>3, <1>5, <2>1, OneCallFeeds
<1>6. ASSUME NEW e, Return(c, e) PROVE FeedOK'
  <2>1. call'[c].pc = "returned"
    BY <1>0, <1>2, <1>6, ReturnFields
  <2> QED
    BY <1>5, <2>1 DEF Carrying
<1>7. ASSUME NEW p, Goto(c, p), p # "save_node", p \in Carrying => call[c].pc \in Carrying
      PROVE  FeedOK'
  <2>1. call'[c].pc = p /\ call'[c].req = call[c].req /\ call'[c].node = call[c].node
    BY <1>0, <1>2, <1>7, GotoFields
  <2>2. call[c].pc \in Carrying => Told(sent, call[c].req.node, call[c].node.state)
    BY <1>0 DEF FeedOK
  <2> QED
    BY <1>5, <1>7, <2>1, <2>2
<1>8. CASE TakeToken(c) \/ TakeSlot(c) \/ GetSpare(c)
  <2>1. \/ \E e : Return(c, e)
        \/ Goto(c, "bulkhead") \/ Goto(c, "get_node")
        \/ Goto(c, "fetch_add") /\ call[c].pc = "get_spare"
    BY <1>8 DEF TakeToken, TakeSlot, GetSpare, RepoError, At
  <2> QED
    BY <1>6, <1>7, <2>1 DEF Carrying
<1>9. CASE GetNode(c)
  <2> DEFINE q == call[c].req
  <2>1. CASE Return(c, "NotFound") \/ RepoError(c)
    BY <1>6, <2>1 DEF RepoError
  <2>2. ASSUME q.node \in DOMAIN nodes, NEW p \in {"get_spare", "fetch_add"},
               call' = [call EXCEPT ![c].read = nodes[q.node], ![c].node = nodes[q.node], ![c].pc = p]
        PROVE  FeedOK'
    <3>1. call'[c].pc = p /\ call'[c].req = q /\ call'[c].node = nodes[q.node]
      BY <1>0, <1>4, <2>2 DEF CallsOK, CallRecord
    <3>2. ~Saving(q.node)
      <4>1. call[c].pc = "get_node"
        BY <1>9 DEF GetNode, At
      <4> QED
        BY <1>0, <4>1, OneAtATime DEF Saving, Holding, Suspended
    <3>3. Told(sent, q.node, nodes[q.node].state)
      BY <1>0, <2>2, <3>2 DEF FeedOK
    <3> QED
      BY <1>5, <2>2, <3>1, <3>3
  <2>3. \/ Return(c, "NotFound") \/ RepoError(c)
        \/ q.node \in DOMAIN nodes /\ \E p \in {"get_spare", "fetch_add"} :
             call' = [call EXCEPT ![c].read = nodes[q.node], ![c].node = nodes[q.node], ![c].pc = p]
    BY <1>9 DEF GetNode
  <2> QED
    BY <2>1, <2>2, <2>3
<1>10. CASE FetchAdd(c)
  <2>1. /\ call'[c].pc = "save_run" /\ call'[c].req = call[c].req /\ call'[c].node = call[c].node
        /\ call[c].pc = "fetch_add"
    BY <1>0, <1>4, <1>10 DEF FetchAdd, CallsOK, CallRecord, At
  <2>2. Told(sent, call[c].req.node, call[c].node.state)
    BY <1>0, <2>1 DEF FeedOK, Carrying
  <2> QED
    BY <1>5, <2>1, <2>2
<1>11. CASE SaveRun(c)
  <2>1. Goto(c, "saga") /\ call[c].pc = "save_run"
    BY <1>11 DEF SaveRun, RepoError, At
  <2> QED
    BY <1>7, <2>1 DEF Carrying
<1> QED
  BY <1>8, <1>9, <1>10, <1>11

LEMMA SaveNodeFeeds ==
  ASSUME FInv, NInv', MaxDeploys = 1, RepoMayFail = FALSE, NEW c \in Calls, SaveNode(c),
         Publish(News(c))
  PROVE  FeedOK'
<1> DEFINE q == call[c].req
           v == call[c].node
<1>0. RInv /\ EInv /\ CallsOK /\ FeedOK /\ PInv
  BY DEF FInv, PInv, NInv, RInv, BInv, EInv
<1>1. /\ CallStep(c) /\ ~At(c, "none") /\ call[c].pc = "save_node" /\ Goto(c, "finish_run")
      /\ nodes' = Upsert(nodes, q.node, v)
  BY DEF CallStep, Progress, SaveNode, RepoError, At
<1>2. OthersRest(c) /\ \A n, x : Told(sent, n, x) => Told(sent', n, x)
  BY <1>0, <1>1, StepKinds, QuietStepTold DEF Walks
<1>3. call'[c].pc = "finish_run" /\ \A d \in Calls : d # c => call'[d] = call[d]
  BY <1>0, <1>1, GotoFields
<1>4. Told(sent, q.node, v.state)
  BY <1>0, <1>1 DEF FeedOK, Carrying
<1>5. ASSUME NEW n \in DOMAIN nodes', ~Saving(n)' PROVE Told(sent', n, nodes'[n].state)
  <2>1. CASE n = q.node
    <3>1. nodes'[n] = v
      BY <1>1, <1>5, <2>1 DEF Upsert
    <3> QED
      BY <1>2, <1>4, <2>1, <3>1
  <2>2. CASE n # q.node
    <3>1. n \in DOMAIN nodes /\ nodes'[n] = nodes[n]
      BY <1>1, <1>5, <2>2 DEF Upsert
    <3>2. ~Saving(n)
      BY <1>3, <1>5, <2>2 DEF Saving
    <3> QED
      BY <1>0, <1>2, <3>1, <3>2 DEF FeedOK
  <2> QED
    BY <2>1, <2>2
<1>6. ASSUME NEW d \in Calls, call'[d].pc \in Carrying
      PROVE  Told(sent', call'[d].req.node, call'[d].node.state)
  <2>1. d # c /\ call'[d] = call[d]
    BY <1>3, <1>6 DEF Carrying
  <2> QED
    BY <1>0, <1>2, <1>6, <2>1 DEF FeedOK
<1> QED
  BY <1>5, <1>6 DEF FeedOK

\* The moves of a path that is walked to its end are about the node of the call,
\* and the last leads where the copy is then.
LEMMA WalkedNews ==
  ASSUME NInv, NEW c \in Calls, Walks(c), SameRun(c)
  PROVE  LET path == Path(call[c].req.kind, saga[c].status)
             s    == call[c].node.state
         IN  /\ News(c) \in Seq(MoveEvents)
             /\ \A i \in 1..Len(News(c)) : News(c)[i].node = call[c].req.node
             /\ Len(News(c)) = Walked(s, path)
             /\ Walked(s, path) # 0 => News(c)[Len(News(c))].to = StateAfter(s, path)
<1> DEFINE path == Path(call[c].req.kind, saga[c].status)
           s == call[c].node.state
           w == Walked(s, path)
           news == [i \in 1..w |-> MoveEvent(c, <<Before(s, path, i), path[i]>>)]
<1>1. call[c] \in CallRecord /\ call[c].node \in NodeRecord
  <2>1. ~At(c, "none") /\ call[c].pc = "saga"
    BY DEF Walks, At
  <2> QED
    BY <2>1, Called DEF NInv, RInv, BInv, EInv, Local, Loaded
<1>2. call[c].req.node \in Hosts /\ call[c].req.kind \in Kinds /\ s \in NodeStates
  BY <1>1, EngineAssumption DEF CallRecord, AllRequests, NodeRecord
<1>3. Len(path) \in 0..3 /\ (\A i \in 1..Len(path) : path[i] \in NodeStates) /\ w \in 0..Len(path)
  BY <1>2, PathType, WalkedType
<1>4. News(c) = news
  <2>1. News(c) = [i \in DOMAIN Moves(s, path) |-> MoveEvent(c, Moves(s, path)[i])]
    BY WalkNews
  <2>2. /\ DOMAIN Moves(s, path) = 1..w
        /\ \A i \in 1..w : Moves(s, path)[i] = <<Before(s, path, i), path[i]>>
    BY DEF Moves
  <2> QED
    BY <2>1, <2>2
<1>5. \A i \in 1..w : /\ MoveEvent(c, <<Before(s, path, i), path[i]>>) \in MoveEvents
                      /\ MoveEvent(c, <<Before(s, path, i), path[i]>>).node = call[c].req.node
                      /\ MoveEvent(c, <<Before(s, path, i), path[i]>>).to = path[i]
  <2> SUFFICES ASSUME NEW i \in 1..w
               PROVE  /\ MoveEvent(c, <<Before(s, path, i), path[i]>>) \in MoveEvents
                      /\ MoveEvent(c, <<Before(s, path, i), path[i]>>).node = call[c].req.node
                      /\ MoveEvent(c, <<Before(s, path, i), path[i]>>).to = path[i]
    OBVIOUS
  <2> HIDE DEF path, s, w
  <2>1. i \in 1..Len(path) /\ (i # 1 => i - 1 \in 1..Len(path))
    BY <1>3
  <2>2. Before(s, path, i) \in NodeStates /\ path[i] \in NodeStates
    BY <1>2, <1>3, <2>1 DEF Before
  <2> QED
    BY <1>2, <2>2 DEF MoveEvent, MoveEvents
<1>6. w # 0 => StateAfter(s, path) = path[w]
  BY DEF StateAfter
<1> HIDE DEF path, s, w
<1>7. w \in Nat
  BY <1>3
<1>8. news \in Seq(MoveEvents) /\ Len(news) = w
  BY <1>5, <1>7
<1>9. \A i \in 1..w : news[i] = MoveEvent(c, <<Before(s, path, i), path[i]>>)
  OBVIOUS
<1>10. w # 0 => w \in 1..w
  BY <1>7
<1> HIDE DEF news
<1>11. /\ news \in Seq(MoveEvents)
       /\ \A i \in 1..Len(news) : news[i].node = call[c].req.node
       /\ Len(news) = w
       /\ w # 0 => news[Len(news)].to = StateAfter(s, path)
  BY <1>5, <1>6, <1>8, <1>9, <1>10
<1> QED
  BY <1>4, <1>11 DEF path, s, w

LEMMA ApplyPathFeeds ==
  ASSUME FInv, NInv', MaxDeploys = 1, NEW c \in Calls, ApplyPath(c), Publish(News(c))
  PROVE  FeedOK'
<1> DEFINE path == Path(call[c].req.kind, saga[c].status)
           s == call[c].node.state
           h == call[c].req.node
           w == Walked(s, path)
           news == News(c)
<1>0. RInv /\ EInv /\ CallsOK /\ FeedOK /\ PInv /\ NInv /\ sent \in Seq(PlaneEvents)
  BY DEF FInv, PInv, NInv, RInv, BInv, EInv
<1>1. /\ ~At(c, "none") /\ call[c].pc = "saga" /\ nodes' = nodes
      /\ Walks(c) /\ SameRun(c) /\ \A d \in Calls : d # c => call'[d] = call[d]
  BY <1>0, ApplyPathWalks DEF ApplyPath, At, repoVars, OthersRest
<1>2. /\ call[c] \in CallRecord /\ call[c].req.kind \in Kinds /\ s \in AtRest
  <2>1. call[c] \in CallRecord /\ Local(call[c], nextRun)
    BY <1>0, <1>1, Called
  <2> QED
    BY <1>1, <2>1, EngineAssumption DEF Local, Loaded, CallRecord, AllRequests
<1>3. w \in {0, Len(path)} /\ Len(path) \in 0..3
  BY <1>2, AllOrNothing, PathType
<1>4. /\ news \in Seq(MoveEvents) /\ Len(news) = w
      /\ \A i \in 1..Len(news) : news[i].node = h
      /\ w # 0 => news[Len(news)].to = StateAfter(s, path)
  BY <1>0, <1>1, WalkedNews
<1>5. sent' = sent \o news
  BY DEF Publish
<1>6. w = 0 => StateAfter(s, path) = s
  BY DEF StateAfter
<1>7. \/ w # Len(path) /\ call'[c].pc = "returned"
      \/ /\ call'[c].pc = "save_node" /\ call'[c].req.node = h
         /\ call'[c].node.state = StateAfter(s, path)
  <2>1. CASE w # Len(path) /\ Return(c, "IllegalTransition")
    BY <1>0, <1>1, <2>1, ReturnFields
  <2>2. ASSUME call' = [call EXCEPT ![c].node = NodeAfter(c, path), ![c].pc = "save_node"]
        PROVE  /\ call'[c].pc = "save_node" /\ call'[c].req.node = h
               /\ call'[c].node.state = StateAfter(s, path)
    <3>1. call'[c].pc = "save_node" /\ call'[c].req = call[c].req /\ call'[c].node = NodeAfter(c, path)
      BY <1>0, <1>2, <2>2 DEF CallsOK, CallRecord
    <3> QED
      BY <3>1 DEF NodeAfter
  <2> QED
    BY <2>1, <2>2 DEF ApplyPath, Completes
<1> HIDE DEF path, s, w, news
<1>8. news \in Seq(PlaneEvents) /\ \A i \in 1..Len(news) : news[i].type = "NodeStateChanged"
  <2>1. MoveEvents \subseteq PlaneEvents /\ \A e \in MoveEvents : e.type = "NodeStateChanged"
    BY DEF MoveEvents, PlaneEvents, CallEvents
  <2> QED
    BY <1>4, <2>1
<1>9. ASSUME NEW n, NEW x, Told(sent, n, x), n # h \/ w = 0 PROVE Told(sent', n, x)
  <2>1. \A i \in 1..Len(news) : ~Moving(news[i], n)
    BY <1>4, <1>9 DEF Moving
  <2> QED
    BY <1>0, <1>5, <1>8, <1>9, <2>1, QuietTold
<1>10. Told(sent', h, StateAfter(s, path))
  <2>1. CASE w = 0
    <3>1. Told(sent, h, s)
      BY <1>0, <1>1 DEF FeedOK, Carrying, s
    <3> QED
      BY <1>6, <1>9, <2>1, <3>1
  <2>2. CASE w # 0
    <3>1. Len(news) > 0 /\ Len(news) \in 1..Len(news)
      BY <1>3, <1>4, <2>2
    <3>2. Moving(news[Len(news)], h)
      BY <1>4, <1>8, <3>1 DEF Moving
    <3> QED
      BY <1>0, <1>4, <1>5, <1>8, <2>2, <3>1, <3>2, MovedTold
  <2> QED
    BY <2>1, <2>2
<1>11. CASE w # Len(path) /\ call'[c].pc = "returned"
  <2>1. \A n, x : Told(sent, n, x) => Told(sent', n, x)
    BY <1>3, <1>9, <1>11
  <2> QED
    BY <1>0, <1>1, <1>11, <2>1, OneCallFeeds DEF Carrying
<1>12. CASE /\ call'[c].pc = "save_node" /\ call'[c].req.node = h
            /\ call'[c].node.state = StateAfter(s, path)
  <2>1. ASSUME NEW n \in DOMAIN nodes, ~Saving(n)' PROVE Told(sent', n, nodes'[n].state)
    <3>1. n # h
      BY <1>12, <2>1 DEF Saving
    <3>2. ~Saving(n)
      BY <1>1, <2>1 DEF Saving
    <3> QED
      BY <1>0, <1>1, <1>9, <2>1, <3>1, <3>2 DEF FeedOK
  <2>2. ASSUME NEW d \in Calls, call'[d].pc \in Carrying
        PROVE  Told(sent', call'[d].req.node, call'[d].node.state)
    <3>1. CASE d = c
      BY <1>10, <1>12, <3>1
    <3>2. CASE d # c
      <4>1. call[c].pc \in Holding /\ call[d].pc \in Holding
        BY <1>1, <2>2, <3>2 DEF Carrying, Holding, Suspended
      <4> QED
        BY <1>0, <3>2, <4>1, OneAtATime
    <3> QED
      BY <3>1, <3>2
  <2> QED
    BY <1>1, <2>1, <2>2 DEF FeedOK
<1> QED
  BY <1>7, <1>11, <1>12

LEMMA AdvanceFeeds ==
  ASSUME FInv, NInv', MaxDeploys = 1, RepoMayFail = FALSE, MayCancel = FALSE,
         NEW c \in Calls, Advance(c)
  PROVE  FeedOK'
<1>0. RInv /\ EInv /\ CallsOK /\ FeedOK /\ PInv
  BY DEF FInv, PInv, NInv, RInv, BInv, EInv
<1>1. (Progress(c) \/ RepeatAttempt(c)) /\ Publish(News(c)) /\ CallStep(c)
  BY DEF Advance, Cancel, CallStep
<1>2. CASE SagaStep(c) \/ RepeatAttempt(c)
  <2>1. call' = call /\ nodes' = nodes /\ call[c].pc = "saga"
    BY <1>2, RepeatMoves DEF SagaStep, engineVars, At
  <2>2. \A n, x : Told(sent, n, x) => Told(sent', n, x)
    BY <1>0, <1>1, <2>1, QuietStepTold DEF Walks
  <2> QED
    BY <1>0, <2>1, <2>2, NoCallFeeds
<1>3. CASE FinishRun(c)
  <2>1. /\ ~At(c, "none") /\ call[c].pc = "finish_run" /\ nodes' = nodes /\ \E e : Return(c, e)
    BY <1>3 DEF FinishRun, RepoError, At
  <2>2. /\ call'[c].pc = "returned" /\ \A d \in Calls : d # c => call'[d] = call[d]
    BY <1>0, <2>1, ReturnFields
  <2>3. \A n, x : Told(sent, n, x) => Told(sent', n, x)
    BY <1>0, <1>1, <2>1, QuietStepTold DEF Walks
  <2> QED
    BY <1>0, <2>1, <2>2, <2>3, OneCallFeeds DEF Carrying
<1> QED
  BY <1>1, <1>2, <1>3, EntryFeeds, ApplyPathFeeds, SaveNodeFeeds DEF Progress

LEMMA NextFeeds ==
  ASSUME FInv, NInv', MaxDeploys = 1, RepoMayFail = FALSE, MayCancel = FALSE, [PlaneNext]_allVars
  PROVE  FeedOK'
<1>0. FeedOK /\ CallsOK /\ sent \in Seq(PlaneEvents)
  BY DEF FInv, PInv, NInv, RInv, BInv, EInv
<1>1. ASSUME nodes' = nodes, call' = call, sent' = sent PROVE FeedOK'
  BY <1>0, <1>1, NoCallFeeds
<1>2. CASE Refill /\ UNCHANGED busVars
  BY <1>1, <1>2 DEF Refill, repoVars, busVars
<1>3. ASSUME NEW i \in RegisterInputs, Register(i) PROVE FeedOK'
  <2> DEFINE k == i.id.names
             v == NewNode(i.version.names)
  <2>1. nodes' = Upsert(nodes, k, v) /\ call' = call /\ sent' = sent
    BY <1>3 DEF Register, RegisterNode, busVars
  <2>2. v.state = "Provisioning"
    BY DEF NewNode
  <2> HIDE DEF k, v
  <2>3. ASSUME NEW n \in DOMAIN nodes', ~Saving(n)' PROVE Told(sent', n, nodes'[n].state)
    <3>1. CASE n = k
      BY <2>1, <2>2, <2>3, <3>1 DEF Upsert, Told
    <3>2. CASE n # k
      <4>1. n \in DOMAIN nodes /\ nodes'[n] = nodes[n]
        BY <2>1, <2>3, <3>2 DEF Upsert
      <4> QED
        BY <1>0, <2>1, <2>3, <4>1 DEF FeedOK, Saving
    <3> QED
      BY <3>1, <3>2
  <2> QED
    BY <1>0, <2>1, <2>3 DEF FeedOK
<1>4. ASSUME NEW c \in Calls, NEW i \in DeployInputs, Deploy(c, i) PROVE FeedOK'
  <2>1. PICK q : StartDeployment(c, q) /\ sent' = sent
    BY <1>4 DEF Deploy, busVars
  <2>2. /\ nodes' = nodes /\ call[c].pc = "none" /\ call'[c].pc = "start"
        /\ \A d \in Calls : d # c => call'[d] = call[d]
    BY <1>0, <2>1 DEF StartDeployment, repoVars, At, CallsOK
  <2> QED
    BY <1>0, <2>1, <2>2, OneCallFeeds DEF Carrying
<1>5. ASSUME NEW c \in Calls, Advance(c) PROVE FeedOK'
  BY <1>5, AdvanceFeeds
<1>6. ASSUME NEW n \in Hosts, NEW r \in Readings, EvaluateHealth(n, r) PROVE FeedOK'
  <2> DEFINE e == [type |-> "HealthEvaluated", node |-> n, reading |-> r,
                   status |-> Classify(r.snapshot, r.now, DefaultThresholds)]
  <2>1. Publish(<<e>>) /\ nodes' = nodes /\ call' = call
    BY <1>6 DEF EvaluateHealth, vars
  <2>2. e \in PlaneEvents /\ e.type # "NodeStateChanged"
    BY DEF PlaneEvents, Evaluations
  <2> HIDE DEF e
  <2>3. <<e>> \in Seq(PlaneEvents) /\ \A i \in 1..Len(<<e>>) : <<e>>[i].type # "NodeStateChanged"
    BY <2>2
  <2>4. \A m, x : Told(sent, m, x) => Told(sent', m, x)
    BY <1>0, <2>1, <2>3, NoMovesTold
  <2> QED
    BY <1>0, <2>1, <2>4, NoCallFeeds
<1>7. ASSUME NEW s \in Subscribers, Watch(s) PROVE FeedOK'
  BY <1>1, <1>7 DEF Watch, SubscriberStep, Subscribe, Poll, Hear, Lag, Unsubscribe, vars
<1>8. CASE UNCHANGED allVars
  BY <1>1, <1>8 DEF allVars
<1> QED
  BY <1>2, <1>3, <1>4, <1>5, <1>6, <1>7, <1>8 DEF PlaneNext

\* With deployments one at a time, a repository that works and clients that stay,
\* a subscriber that has heard everything since the last move of a node knows its
\* stored state (FeedAgreesWithStore), for any number of deployments, nodes,
\* registrations and subscribers: the moves are announced for the copy that is
\* saved next (engine.rs:141-158), and a path is announced whole or not at all.
THEOREM FeedFollowsTheStore ==
  ASSUME MaxDeploys = 1, RepoMayFail = FALSE, MayCancel = FALSE
  PROVE  PlaneSpec => []FeedAgreesWithStore
<1>1. PlaneInit => FeedOK
  BY DEF PlaneInit, BusInit, Init, FeedOK, Told, NotCalled, Carrying
<1>2. PInv /\ PInv' /\ FeedOK /\ [PlaneNext]_allVars => FeedOK'
  BY NextFeeds DEF FInv, PInv
<1>3. PInv /\ BusTypeOK /\ FeedOK => FeedAgreesWithStore
  <2> SUFFICES ASSUME PInv, BusTypeOK, FeedOK, NEW s \in Subscribers, NEW n \in DOMAIN nodes,
                      slots = MaxDeploys, NEW p \in sub[s].from..Len(sent), MoveOf(n, p),
                      \A q \in (p + 1)..Len(sent) : ~MoveOf(n, q)
               PROVE  nodes[n].state \in {sent[p].to, "Provisioning"}
    BY DEF FeedAgreesWithStore
  <2>1. EInv
    BY DEF PInv, NInv, RInv, BInv
  <2>2. ~Saving(n)
    BY <2>1, NobodyHolds DEF Saving, Holding, Suspended
  <2>3. Told(sent, n, nodes[n].state)
    BY <2>2 DEF FeedOK
  <2>4. p \in 1..Len(sent)
    <3>1. sub[s].from \in Nat \ {0}
      BY DEF BusTypeOK, SubRecord
    <3>2. Len(sent) \in Nat
      BY DEF PInv
    <3> QED
      BY <3>1, <3>2
  <2>5. LastIn(sent, n, p)
    BY DEF LastIn, Moving, MoveOf
  <2> QED
    BY <2>3, <2>4, <2>5 DEF Told
<1> QED
  BY <1>1, <1>2, <1>3, PlaneTyped, PlaneIsHeard, PTL DEF PlaneSpec

-----------------------------------------------------------------------------
(***************************************************************************)
(* What remains without those hypotheses.  A state that a node has in the  *)
(* store, or in the copy of a call, was announced, unless the node was     *)
(* stored in it from the start or it is the one of a registration.         *)
(***************************************************************************)
Stored(n, x) == n \in DOMAIN nodes /\ nodes[n].state = x

Carries(c, n, x) ==
  call[c].pc \in Carrying /\ call[c].req.node = n /\ call[c].node.state = x

Heralded(t, n, x) == \E p \in 1..Len(t) : Moving(t[p], n) /\ t[p].to = x

HeraldOK(n, x) ==
  Stored(n, x) \/ (\E c \in Calls : Carries(c, n, x)) => Heralded(sent, n, x)

LEMMA HeraldsStay ==
  ASSUME NEW S, NEW t \in Seq(S), NEW s \in Seq(S), NEW n, NEW x, Heralded(t, n, x)
  PROVE  Heralded(t \o s, n, x)
<1> DEFINE u == t \o s
<1>1. Len(u) = Len(t) + Len(s) /\ Len(t) \in Nat /\ Len(s) \in Nat /\ \A i \in 1..Len(t) : u[i] = t[i]
  OBVIOUS
<1> HIDE DEF u
<1>2. PICK p \in 1..Len(t) : Moving(t[p], n) /\ t[p].to = x
  BY DEF Heralded
<1>3. p \in 1..Len(u) /\ u[p] = t[p]
  BY <1>1
<1> QED
  BY <1>2, <1>3 DEF Heralded, u

LEMMA LastHeralds ==
  ASSUME NEW S, NEW t \in Seq(S), NEW s \in Seq(S), NEW n, NEW x,
         Len(s) > 0, Moving(s[Len(s)], n), s[Len(s)].to = x
  PROVE  Heralded(t \o s, n, x)
<1> DEFINE u == t \o s
<1>1. /\ Len(u) = Len(t) + Len(s) /\ Len(t) \in Nat /\ Len(s) \in Nat
      /\ u[Len(t) + Len(s)] = s[Len(s)]
  OBVIOUS
<1> HIDE DEF u
<1>2. Len(u) \in 1..Len(u) /\ u[Len(u)] = s[Len(s)]
  BY <1>1
<1> QED
  BY <1>2 DEF Heralded, u

\* Where the copy that a call carries comes from: it had it, it was read from the
\* store, or it has just walked its path.
LEMMA CopyOrigin ==
  ASSUME EInv, [Next]_vars, NEW c \in Calls, call'[c].pc \in Carrying
  PROVE  /\ call'[c].req = call[c].req
         /\ \/ call[c].pc \in Carrying /\ call'[c].node = call[c].node
            \/ call[c].req.node \in DOMAIN nodes /\ call'[c].node = nodes[call[c].req.node]
            \/ ApplyPath(c) /\ call'[c].node.state =
                 StateAfter(call[c].node.state, Path(call[c].req.kind, saga[c].status))
<1>1. CASE call'[c] = call[c]
  BY <1>1
<1>2. CASE call'[c].pc \in Found
  BY <1>2, FoundStep DEF Found, Carrying
<1>3. CASE call'[c] # call[c] /\ call'[c].pc \in {"saga", "save_node"}
  <2>1. Progress(c) \/ Cancel(c) \/ \E q \in Requests : StartDeployment(c, q)
    <3>1. ASSUME NEW d \in Calls, d # c, Progress(d) \/ Cancel(d) \/ \E q \in Requests : StartDeployment(d, q)
          PROVE  FALSE
      BY <1>3, <3>1, OwnStep
    <3> QED
      BY <1>3, <3>1, RepeatMoves DEF Next, vars, Refill, RegisterNode
  <2>2. EntersSaga(c) \/ LeavesSaga(c)
    BY <1>3, <2>1, OwnStep DEF Failing, Closing, Entering
  <2>3. CASE EntersSaga(c)
    BY <2>3 DEF EntersSaga, Carrying
  <2>4. CASE LeavesSaga(c)
    <3>1. call[c].pc = "saga" /\ call'[c].pc = "save_node" /\ call'[c].req = call[c].req
      BY <2>4 DEF LeavesSaga
    <3>2. ApplyPath(c)
      <4>1. ~SagaStep(c)
        BY <1>3 DEF SagaStep, engineVars
      <4>2. ASSUME Return(c, "Cancelled") PROVE FALSE
        BY <3>1, <4>2, ReturnFields DEF EInv, At
      <4> QED
        BY <2>1, <3>1, <4>1, <4>2
        DEF Progress, TakeToken, TakeSlot, GetNode, GetSpare, FetchAdd, SaveRun, SaveNode,
            FinishRun, Cancel, StartDeployment, At
    <3>3. call'[c].node = NodeAfter(c, Path(call[c].req.kind, saga[c].status))
      <4>1. call[c] \in CallRecord
        BY <3>1, Called DEF EInv, At
      <4>2. ~Return(c, "IllegalTransition")
        BY <3>1, ReturnFields DEF EInv, At
      <4> QED
        BY <3>2, <4>1, <4>2 DEF ApplyPath, EInv, CallsOK, CallRecord
    <3> QED
      BY <3>1, <3>2, <3>3 DEF NodeAfter
  <2> QED
    BY <2>2, <2>3, <2>4
<1> QED
  BY <1>1, <1>2, <1>3 DEF Carrying, Found

\* Where a stored record comes from.
LEMMA RecordOrigin ==
  ASSUME EInv, [Next]_vars, NEW n \in DOMAIN nodes'
  PROVE  \/ n \in DOMAIN nodes /\ nodes'[n] = nodes[n]
         \/ nodes'[n].state = "Provisioning"
         \/ \E c \in Calls : call[c].pc = "save_node" /\ call[c].req.node = n /\ nodes'[n] = call[c].node
<1>1. ASSUME NEW m \in Hosts, NEW v \in Versions, RegisterNode(m, v)
      PROVE  nodes'[n].state = "Provisioning" \/ (n \in DOMAIN nodes /\ nodes'[n] = nodes[n])
  BY <1>1 DEF RegisterNode, Upsert, NewNode
<1>2. ASSUME NEW c \in Calls, SaveNode(c)
      PROVE  \/ n \in DOMAIN nodes /\ nodes'[n] = nodes[n]
             \/ call[c].pc = "save_node" /\ call[c].req.node = n /\ nodes'[n] = call[c].node
  <2>1. /\ call[c].pc = "save_node"
        /\ nodes' \in {nodes, Upsert(nodes, call[c].req.node, call[c].node)}
    BY <1>2 DEF SaveNode, At
  <2> QED
    BY <2>1 DEF Upsert
<1>3. nodes' = nodes \/ (\E m \in Hosts, v \in Versions : RegisterNode(m, v)) \/ \E c \in Calls : SaveNode(c)
  BY DEF Next, Progress, vars, repoVars, engineVars, Refill, StartDeployment, TakeToken,
     TakeSlot, GetNode, GetSpare, FetchAdd, SaveRun, SagaStep, ApplyPath, FinishRun,
     RepeatAttempt, Cancel
<1> QED
  BY <1>1, <1>2, <1>3

\* Only the step of c itself can be its walk, so that the walk is published.
LEMMA ApplyPathPublishes ==
  ASSUME EInv, [PlaneNext]_allVars, NEW c \in Calls, ApplyPath(c)
  PROVE  Publish(News(c))
<1>1. call[c] \in CallRecord /\ call[c].pc = "saga" /\ call \in [Calls -> {NotCalled} \cup CallRecord]
  BY Called DEF ApplyPath, At, EInv, CallsOK
<1>2. call'[c].pc # "saga"
  <2>1. CASE Return(c, "IllegalTransition")
    BY <1>1, <2>1, ReturnFields DEF EInv, At
  <2>2. CASE \E r : call' = [call EXCEPT ![c].node = r, ![c].pc = "save_node"]
    <3>1. PICK r : call' = [call EXCEPT ![c].node = r, ![c].pc = "save_node"]
      BY <2>2
    <3> QED
      BY <1>1, <3>1 DEF CallRecord
  <2> QED
    BY <2>1, <2>2 DEF ApplyPath
<1>3. ASSUME NEW d \in Calls, d # c,
             Progress(d) \/ RepeatAttempt(d) \/ Cancel(d) \/ \E q \in Requests : StartDeployment(d, q)
      PROVE  FALSE
  BY <1>1, <1>2, <1>3, OwnStep DEF RepeatAttempt, engineVars
<1>4. call' # call
  BY <1>1, <1>2
<1>5. ASSUME NEW i \in DeployInputs, Deploy(c, i) PROVE FALSE
  BY <1>1, <1>5 DEF Deploy, StartDeployment, At
<1>6. ASSUME NEW d \in Calls, NEW i \in DeployInputs, Deploy(d, i)
      PROVE  \E q \in Requests : StartDeployment(d, q)
  BY <1>6, InputAssumption DEF Deploy
<1> QED
  BY <1>3, <1>4, <1>5, <1>6
  DEF PlaneNext, allVars, Refill, Register, RegisterNode, Advance, EvaluateHealth, Watch, vars, engineVars

\* A copy that has just walked is announced by then.
LEMMA WalkIsHeralded ==
  ASSUME PInv, NInv', NEW c \in Calls, ApplyPath(c), Publish(News(c)), NEW x,
         x = StateAfter(call[c].node.state, Path(call[c].req.kind, saga[c].status)),
         HeraldOK(call[c].req.node, x)
  PROVE  Heralded(sent', call[c].req.node, x)
<1> DEFINE path == Path(call[c].req.kind, saga[c].status)
           s == call[c].node.state
           h == call[c].req.node
           w == Walked(s, path)
           news == News(c)
<1>1. /\ RInv /\ NInv /\ sent \in Seq(PlaneEvents)
      /\ Walks(c) /\ SameRun(c) /\ call[c].pc = "saga"
  BY ApplyPathWalks DEF PInv, NInv, ApplyPath, At
<1>2. /\ news \in Seq(MoveEvents) /\ Len(news) = w
      /\ \A i \in 1..Len(news) : news[i].node = h
      /\ w # 0 => news[Len(news)].to = StateAfter(s, path)
  BY <1>1, WalkedNews
<1>3. sent' = sent \o news
  BY DEF Publish
<1>4. MoveEvents \subseteq PlaneEvents /\ \A e \in MoveEvents : e.type = "NodeStateChanged"
  BY DEF MoveEvents, PlaneEvents, CallEvents
<1>5. w = 0 => StateAfter(s, path) = s
  BY DEF StateAfter
<1>6. x = StateAfter(s, path)
  OBVIOUS
<1>7. w = 0 => Heralded(sent, h, x)
  BY <1>1, <1>5, <1>6 DEF HeraldOK, Carries, Carrying
<1> HIDE DEF path, s, w, news, h
<1>8. news \in Seq(PlaneEvents)
  BY <1>2, <1>4
<1>9. CASE w = 0
  BY <1>1, <1>3, <1>7, <1>8, <1>9, HeraldsStay DEF h
<1>10. CASE w # 0
  <2>1. Len(news) > 0 /\ Len(news) \in 1..Len(news)
    BY <1>2, <1>10
  <2>2. Moving(news[Len(news)], h) /\ news[Len(news)].to = x
    BY <1>2, <1>4, <1>6, <1>10, <2>1 DEF Moving
  <2> QED
    BY <1>1, <1>3, <1>8, <2>1, <2>2, LastHeralds DEF h
<1> QED
  BY <1>9, <1>10

LEMMA NextHeralds ==
  ASSUME PInv, PInv', NEW n \in Hosts, NEW x, x # "Provisioning",
         HeraldOK(n, x), [PlaneNext]_allVars
  PROVE  HeraldOK(n, x)'
<1>0. EInv /\ NInv' /\ [Next]_vars /\ sent \in Seq(PlaneEvents)
  BY PlaneStepOfTheEngine DEF PInv, NInv, RInv, BInv
<1>1. ASSUME Heralded(sent, n, x) PROVE Heralded(sent', n, x)
  <2>1. sent' = sent \/ \E e \in Seq(PlaneEvents) : sent' = sent \o e
    BY <1>0, PlaneBusStep
    DEF BusNext, busVars, Publish, SubscriberStep, Subscribe, Poll, Hear, Lag, Unsubscribe
  <2> QED
    BY <1>0, <1>1, <2>1, HeraldsStay
<1>2. ASSUME Stored(n, x)' PROVE Stored(n, x) \/ \E c \in Calls : Carries(c, n, x)
  <2>1. n \in DOMAIN nodes' /\ nodes'[n].state = x
    BY <1>2 DEF Stored
  <2> QED
    BY <1>0, <2>1, RecordOrigin DEF Stored, Carries, Carrying
<1>3. ASSUME NEW c \in Calls, Carries(c, n, x)'
      PROVE  \/ Stored(n, x) \/ \E d \in Calls : Carries(d, n, x)
             \/ Heralded(sent', n, x)
  <2>1. call'[c].pc \in Carrying /\ call'[c].req.node = n /\ call'[c].node.state = x
    BY <1>3 DEF Carries
  <2>2. CASE ApplyPath(c) /\ x = StateAfter(call[c].node.state, Path(call[c].req.kind, saga[c].status))
    <3>1. Publish(News(c))
      BY <1>0, <2>2, ApplyPathPublishes
    <3>2. n = call[c].req.node
      BY <1>0, <2>1, CopyOrigin
    <3> QED
      BY <1>0, <2>2, <3>1, <3>2, WalkIsHeralded
  <2> QED
    BY <1>0, <2>1, <2>2, CopyOrigin DEF Stored, Carries
<1> QED
  BY <1>1, <1>2, <1>3 DEF HeraldOK

\* engine.rs:141-158, for any number of deployments at a time, with stores that
\* fail, clients that hang up and subscribers that come and go: the store never
\* shows a node in a state that was not announced before, but for the one it
\* had from the start and the one of a registration (engine.rs:68-71).
THEOREM NothingIsStoredUnannounced ==
  ASSUME NEW n \in Hosts, NEW x \in NodeStates \ {"Provisioning"}
  PROVE  PlaneSpec /\ ~Stored(n, x) => [](Stored(n, x) => Heralded(sent, n, x))
<1>1. PlaneInit /\ ~Stored(n, x) => HeraldOK(n, x)
  BY DEF PlaneInit, Init, HeraldOK, Carries, NotCalled, Carrying
<1>2. PInv /\ PInv' /\ HeraldOK(n, x) /\ [PlaneNext]_allVars => HeraldOK(n, x)'
  BY NextHeralds
<1>3. HeraldOK(n, x) => (Stored(n, x) => Heralded(sent, n, x))
  BY DEF HeraldOK
<1> QED
  BY <1>1, <1>2, <1>3, PlaneTyped, PTL DEF PlaneSpec
=============================================================================
