-------------------------- MODULE OpsEngine_proofs --------------------------
(***************************************************************************)
(* Proofs about OpsEngine, for any number of concurrent deployments of any *)
(* nodes, with failing stores, lossy agents and clients that hang up.      *)
(***************************************************************************)
EXTENDS OpsEngine, SagaExecutor_proofs, FiniteSetTheorems

-----------------------------------------------------------------------------
(***************************************************************************)
(* The first inductive invariant.  Local is what the locals of one call    *)
(* say of themselves: the copy of the node was at rest when it was loaded, *)
(* and is replaced only by one that has walked a whole path; the run id is *)
(* there from the fetch_add on.                                            *)
(***************************************************************************)
Loaded == {"get_spare", "fetch_add", "save_run", "saga", "save_node", "finish_run"}
Numbered == {"save_run", "saga", "save_node", "finish_run"}
Unnumbered == {"start", "bulkhead", "get_node", "get_spare", "fetch_add"}

Local(r, next) ==
  /\ r.node # NoNode => r.node \in NodeRecord /\ r.node.state \in AtRest
  /\ r.pc \in Loaded => r.node # NoNode
  /\ r.pc \in Unnumbered => r.run = 0
  /\ r.pc \in Numbered => r.run # 0
  /\ r.run < next

StoreOK ==
  /\ DOMAIN nodes \subseteq Hosts /\ nodes \in [DOMAIN nodes -> NodeRecord]
  /\ OnlyNodesAtRestAreStored

SharedOK == tokens \in 0..RateCapacity /\ nextRun \in Nat \ {0}

CallsOK ==
  /\ call \in [Calls -> {NotCalled} \cup CallRecord]
  /\ \A c \in Calls : ~At(c, "none") => Local(call[c], nextRun)

SlotsOK == slots \in Nat /\ SlotsAreConserved

EInv == SagaTypeOK /\ StoreOK /\ SharedOK /\ CallsOK /\ SlotsOK

Held(r) == IF r.pc \in Holding THEN 1 ELSE 0

LEMMA Called ==
  ASSUME CallsOK, NEW c \in Calls, ~At(c, "none")
  PROVE  call[c] \in CallRecord /\ Local(call[c], nextRun)
  BY DEF CallsOK, At, NotCalled

\* The permits, when one call moves.
LEMMA PermitsMove ==
  ASSUME CallsOK, SlotsOK, NEW c \in Calls, NEW r, call' = [call EXCEPT ![c] = r],
         slots' \in Nat, slots' = (slots + Held(call[c])) - Held(r)
  PROVE  SlotsOK'
<1> DEFINE H == {d \in Calls : call[d].pc \in Holding}
           G == {d \in Calls : call'[d].pc \in Holding}
<1>1. \A d \in Calls : call'[d] = IF d = c THEN r ELSE call[d]
  BY DEF CallsOK
<1>2. IsFiniteSet(H) /\ Cardinality(H) \in Nat
  BY EngineAssumption, FS_Subset, FS_CardinalityType
<1>3. slots + Cardinality(H) = MaxDeploys /\ slots \in Nat
  BY DEF SlotsOK, SlotsAreConserved
<1>4. SUFFICES slots' + Cardinality(G) = MaxDeploys
  BY DEF SlotsOK, SlotsAreConserved
<1>5. \A d : d \in H <=> d \in Calls /\ call[d].pc \in Holding
  OBVIOUS
<1>6. \A d : d \in G <=> d \in Calls /\ (IF d = c THEN r ELSE call[d]).pc \in Holding
  BY <1>1
<1>7. Held(r) = (IF c \in G THEN 1 ELSE 0) /\ Held(call[c]) = (IF c \in H THEN 1 ELSE 0)
  BY <1>5, <1>6 DEF Held
<1> HIDE DEF H, G
<1>8. CASE c \in G <=> c \in H
  <2>1. G = H
    BY <1>5, <1>6, <1>8
  <2>2. Held(r) = Held(call[c]) /\ Held(r) \in Int
    BY <1>7, <1>8
  <2>3. slots' = slots
    BY <1>3, <2>2
  <2> QED
    BY <1>3, <2>1, <2>3
<1>9. CASE c \notin G /\ c \in H
  <2>1. G = H \ {c}
    BY <1>5, <1>6, <1>9
  <2>2. Cardinality(G) = Cardinality(H) - 1
    BY <1>2, <1>9, <2>1, FS_RemoveElement
  <2>3. Held(r) = 0 /\ Held(call[c]) = 1
    BY <1>7, <1>9
  <2>4. slots' = slots + 1
    BY <1>3, <2>3
  <2> QED
    BY <1>2, <1>3, <2>2, <2>4
<1>10. CASE c \in G /\ c \notin H
  <2>1. G = H \cup {c}
    BY <1>5, <1>6, <1>10
  <2>2. Cardinality(G) = Cardinality(H) + 1
    BY <1>2, <1>10, <2>1, FS_AddElement
  <2>3. Held(r) = 1 /\ Held(call[c]) = 0
    BY <1>7, <1>10
  <2>4. slots' = slots - 1
    BY <1>3, <2>3
  <2> QED
    BY <1>2, <1>3, <2>2, <2>4
<1> QED
  BY <1>8, <1>9, <1>10

\* What a step of one call has to keep.
LEMMA OneCallMoves ==
  ASSUME EInv, NEW c \in Calls, NEW r \in CallRecord, call' = [call EXCEPT ![c] = r],
         Local(r, nextRun'), slots' \in Nat, slots' = (slots + Held(call[c])) - Held(r),
         nextRun' \in Nat, nextRun' >= nextRun,
         SagaTypeOK', StoreOK', SharedOK'
  PROVE  EInv'
<1>1. SlotsOK'
  BY PermitsMove DEF EInv
<1>2. call' \in [Calls -> {NotCalled} \cup CallRecord]
  BY DEF EInv, CallsOK
<1>3. ASSUME NEW d \in Calls, ~At(d, "none")'
      PROVE  Local(call[d], nextRun)'
  <2>1. CASE d = c
    BY <2>1 DEF EInv, CallsOK
  <2>2. CASE d # c
    <3>1. call'[d] = call[d] /\ ~At(d, "none")
      BY <1>3, <2>2 DEF EInv, CallsOK, At
    <3>2. call[d] \in CallRecord /\ Local(call[d], nextRun)
      BY <3>1, Called DEF EInv
    <3>3. call[d].run \in Nat /\ nextRun \in Nat
      BY <3>2 DEF CallRecord, EInv, SharedOK
    <3> QED
      BY <3>1, <3>2, <3>3 DEF Local
  <2> QED
    BY <2>1, <2>2
<1> QED
  BY <1>1, <1>2, <1>3 DEF EInv, CallsOK

\* Return: the permit comes back if the call holds one.
LEMMA ReturnKeeps ==
  ASSUME EInv, NEW c \in Calls, ~At(c, "none"), NEW e \in {"Ok"} \cup Errors, Return(c, e),
         nextRun' = nextRun, SagaTypeOK', StoreOK', SharedOK'
  PROVE  EInv'
<1> DEFINE r == [call[c] EXCEPT !.pc = "returned", !.result = e]
<1>1. call[c] \in CallRecord /\ Local(call[c], nextRun)
  BY Called DEF EInv
<1>2. r \in CallRecord
  BY <1>1 DEF CallRecord
<1>3. r.pc = "returned" /\ r.node = call[c].node /\ r.run = call[c].run
  BY <1>1 DEF CallRecord
<1>4. call' = [call EXCEPT ![c] = r]
  BY DEF Return, EInv, CallsOK
<1>5. nextRun \in Nat /\ nextRun' \in Nat /\ nextRun' >= nextRun
  BY DEF EInv, SharedOK
<1>6. slots \in Nat
  BY DEF EInv, SlotsOK
<1> HIDE DEF r
<1>7. Held(r) = 0
  BY <1>3 DEF Held, Holding, Suspended
<1>8. slots' \in Nat /\ slots' = (slots + Held(call[c])) - Held(r)
  <2>1. CASE call[c].pc \in Holding
    BY <1>6, <1>7, <2>1 DEF Return, Release, Held
  <2>2. CASE call[c].pc \notin Holding
    BY <1>6, <1>7, <2>2 DEF Return, Release, Held
  <2> QED
    BY <2>1, <2>2
<1>9. Local(r, nextRun')
  BY <1>1, <1>3 DEF Local, Loaded, Numbered, Unnumbered, Holding, Suspended
<1> QED
  BY <1>2, <1>4, <1>5, <1>8, <1>9, OneCallMoves

\* A call goes on to the next await, with the slot it had.
LEMMA GoOn ==
  ASSUME EInv, NEW c \in Calls, NEW r \in CallRecord, call' = [call EXCEPT ![c] = r],
         Local(r, nextRun), Held(r) = Held(call[c]), slots' = slots, nextRun' = nextRun,
         SagaTypeOK', StoreOK', SharedOK'
  PROVE  EInv'
<1>1. slots \in Nat /\ nextRun \in Nat
  BY DEF EInv, SlotsOK, SharedOK
<1>2. Held(r) \in Int
  BY DEF Held
<1>3. slots' \in Nat /\ slots' = (slots + Held(call[c])) - Held(r)
  BY <1>1, <1>2
<1>4. nextRun' \in Nat /\ nextRun' >= nextRun
  BY <1>1
<1> QED
  BY <1>3, <1>4, OneCallMoves

LEMMA SagaStays == ASSUME SagaTypeOK, UNCHANGED sagaVars PROVE SagaTypeOK'
  BY DEF SagaTypeOK, sagaVars, InPhase, WithinPlan

LEMMA StoreStays == ASSUME StoreOK, UNCHANGED nodes PROVE StoreOK'
  BY DEF StoreOK, OnlyNodesAtRestAreStored

LEMMA SharedStays ==
  ASSUME SharedOK, UNCHANGED <<tokens, nextRun>> PROVE SharedOK'
  BY DEF SharedOK

-----------------------------------------------------------------------------
(* The steps that touch neither the store nor the fleet.                   *)

LEMMA StartKeeps ==
  ASSUME EInv, NEW c \in Calls, NEW q \in Requests, StartDeployment(c, q)
  PROVE  EInv'
<1> DEFINE r == [pc |-> "start", req |-> q, read |-> NoNode, node |-> NoNode, run |-> 0,
                 result |-> "pending"]
<1>1. r \in CallRecord
  BY DEF CallRecord
<1>2. call' = [call EXCEPT ![c] = r]
  BY DEF StartDeployment
<1>3. Local(r, nextRun)
  BY DEF Local, Loaded, Numbered, Unnumbered, EInv, SharedOK
<1>4. Held(r) = 0 /\ Held(call[c]) = 0
  BY DEF Held, Holding, Suspended, StartDeployment, At
<1>5. SagaTypeOK' /\ StoreOK' /\ SharedOK'
  BY SagaStays, StoreStays, SharedStays DEF EInv, repoVars, StartDeployment
<1>6. slots' = slots /\ nextRun' = nextRun
  BY DEF StartDeployment
<1> HIDE DEF r
<1> QED
  BY <1>1, <1>2, <1>3, <1>4, <1>5, <1>6, GoOn

LEMMA TakeTokenKeeps ==
  ASSUME EInv, NEW c \in Calls, TakeToken(c)
  PROVE  EInv'
<1>0. call[c] \in CallRecord /\ Local(call[c], nextRun) /\ ~At(c, "none")
  BY Called DEF EInv, TakeToken, At
<1>1. SagaTypeOK' /\ StoreOK'
  BY SagaStays, StoreStays DEF EInv, repoVars, TakeToken
<1>2. CASE tokens = 0 /\ Return(c, "Throttled") /\ UNCHANGED tokens
  <2>1. SharedOK' /\ nextRun' = nextRun
    BY <1>2, SharedStays DEF EInv, TakeToken
  <2> QED
    BY <1>0, <1>1, <1>2, <2>1, ReturnKeeps DEF Errors
<1>3. CASE tokens > 0 /\ tokens' = tokens - 1 /\ Goto(c, "bulkhead") /\ UNCHANGED slots
  <2> DEFINE r == [call[c] EXCEPT !.pc = "bulkhead"]
  <2>1. SharedOK' /\ nextRun' = nextRun
    BY <1>3, EngineAssumption DEF EInv, TakeToken, SharedOK
  <2>2. call' = [call EXCEPT ![c] = r]
    BY <1>3 DEF Goto, EInv, CallsOK
  <2>3. r \in CallRecord /\ r.pc = "bulkhead" /\ r.node = call[c].node /\ r.run = call[c].run
    BY <1>0 DEF CallRecord
  <2>4. call[c].pc = "start"
    BY DEF TakeToken, At
  <2> HIDE DEF r
  <2>5. Local(r, nextRun) /\ Held(r) = Held(call[c])
    BY <1>0, <2>3, <2>4 DEF Local, Loaded, Numbered, Unnumbered, Held, Holding, Suspended
  <2> QED
    BY <1>1, <1>3, <2>1, <2>2, <2>3, <2>5, GoOn
<1> QED
  BY <1>2, <1>3 DEF TakeToken

LEMMA TakeSlotKeeps ==
  ASSUME EInv, NEW c \in Calls, TakeSlot(c)
  PROVE  EInv'
<1>0. call[c] \in CallRecord /\ Local(call[c], nextRun) /\ ~At(c, "none")
  BY Called DEF EInv, TakeSlot, At
<1>1. SagaTypeOK' /\ StoreOK' /\ SharedOK' /\ nextRun' = nextRun
  BY SagaStays, StoreStays, SharedStays DEF EInv, repoVars, TakeSlot
<1>2. CASE slots = 0 /\ Return(c, "Throttled")
  BY <1>0, <1>1, <1>2, ReturnKeeps DEF Errors
<1>3. CASE slots > 0 /\ slots' = slots - 1 /\ Goto(c, "get_node")
  <2> DEFINE r == [call[c] EXCEPT !.pc = "get_node"]
  <2>2. call' = [call EXCEPT ![c] = r]
    BY <1>3 DEF Goto, EInv, CallsOK
  <2>3. r \in CallRecord /\ r.pc = "get_node" /\ r.node = call[c].node /\ r.run = call[c].run
    BY <1>0 DEF CallRecord, Holding, Suspended
  <2>4. call[c].pc = "bulkhead"
    BY DEF TakeSlot, At
  <2> HIDE DEF r
  <2>5. Local(r, nextRun) /\ Held(r) = 1 /\ Held(call[c]) = 0
    BY <1>0, <2>3, <2>4 DEF Local, Loaded, Numbered, Unnumbered, Held, Holding, Suspended
  <2>6. slots \in Nat /\ nextRun \in Nat
    BY DEF EInv, SlotsOK, SharedOK
  <2>7. slots' \in Nat /\ slots' = (slots + Held(call[c])) - Held(r)
    BY <1>3, <2>5, <2>6
  <2>8. nextRun' \in Nat /\ nextRun' >= nextRun /\ Local(r, nextRun')
    BY <1>1, <2>5, <2>6
  <2> QED
    BY <1>1, <2>2, <2>3, <2>7, <2>8, OneCallMoves
<1> QED
  BY <1>2, <1>3 DEF TakeSlot

LEMMA RepoErrorKeeps ==
  ASSUME EInv, NEW c \in Calls, ~At(c, "none"), RepoError(c), nextRun' = nextRun,
         SagaTypeOK', StoreOK', SharedOK'
  PROVE  EInv'
  BY ReturnKeeps DEF RepoError, Errors

LEMMA GetNodeKeeps ==
  ASSUME EInv, NEW c \in Calls, GetNode(c)
  PROVE  EInv'
<1>0. call[c] \in CallRecord /\ Local(call[c], nextRun) /\ ~At(c, "none") /\ call[c].pc = "get_node"
  BY Called DEF EInv, GetNode, At
<1>1. SagaTypeOK' /\ StoreOK' /\ SharedOK' /\ nextRun' = nextRun
  BY SagaStays, StoreStays, SharedStays DEF EInv, repoVars, GetNode
<1>2. CASE RepoError(c)
  BY <1>0, <1>1, <1>2, RepoErrorKeeps
<1>3. CASE Return(c, "NotFound")
  BY <1>0, <1>1, <1>3, ReturnKeeps DEF Errors
<1>4. ASSUME NEW p \in {"get_spare", "fetch_add"}, call[c].req.node \in DOMAIN nodes,
             call' = [call EXCEPT ![c].read = nodes[call[c].req.node],
                                  ![c].node = nodes[call[c].req.node], ![c].pc = p],
             UNCHANGED slots
      PROVE  EInv'
  <2> DEFINE n == nodes[call[c].req.node]
             r == [call[c] EXCEPT !.read = n, !.node = n, !.pc = p]
  <2>1. n \in NodeRecord /\ n.state \in AtRest
    BY <1>4 DEF EInv, StoreOK, OnlyNodesAtRestAreStored
  <2>2. call' = [call EXCEPT ![c] = r]
    BY <1>4 DEF EInv, CallsOK
  <2> HIDE DEF n
  <2>3. r \in CallRecord /\ r.pc = p /\ r.node = n /\ r.run = call[c].run
    BY <1>0, <2>1 DEF CallRecord, Holding, Suspended
  <2> HIDE DEF r
  <2>4. n # NoNode
    BY <2>1 DEF NoNode, NodeRecord, NodeStates, AtRest
  <2>5. Local(r, nextRun) /\ Held(r) = Held(call[c])
    BY <1>0, <2>1, <2>3, <2>4 DEF Local, Loaded, Numbered, Unnumbered, Held, Holding, Suspended
  <2> QED
    BY <1>1, <1>4, <2>2, <2>3, <2>5, GoOn
<1>5. (IF call[c].req.kind = "Failover" THEN "get_spare" ELSE "fetch_add")
        \in {"get_spare", "fetch_add"}
  OBVIOUS
<1> QED
  BY <1>2, <1>3, <1>4, <1>5 DEF GetNode

LEMMA GetSpareKeeps ==
  ASSUME EInv, NEW c \in Calls, GetSpare(c)
  PROVE  EInv'
<1>0. call[c] \in CallRecord /\ Local(call[c], nextRun) /\ ~At(c, "none") /\ call[c].pc = "get_spare"
  BY Called DEF EInv, GetSpare, At
<1>1. SagaTypeOK' /\ StoreOK' /\ SharedOK' /\ nextRun' = nextRun
  BY SagaStays, StoreStays, SharedStays DEF EInv, repoVars, GetSpare
<1>2. CASE RepoError(c)
  BY <1>0, <1>1, <1>2, RepoErrorKeeps
<1>3. CASE Return(c, "NotFound")
  BY <1>0, <1>1, <1>3, ReturnKeeps DEF Errors
<1>4. CASE Goto(c, "fetch_add") /\ UNCHANGED slots
  <2> DEFINE r == [call[c] EXCEPT !.pc = "fetch_add"]
  <2>2. call' = [call EXCEPT ![c] = r]
    BY <1>4 DEF Goto, EInv, CallsOK
  <2>3. r \in CallRecord /\ r.pc = "fetch_add" /\ r.node = call[c].node /\ r.run = call[c].run
    BY <1>0 DEF CallRecord, Holding
  <2> HIDE DEF r
  <2>4. Local(r, nextRun) /\ Held(r) = Held(call[c])
    BY <1>0, <2>3 DEF Local, Loaded, Numbered, Unnumbered, Held, Holding, Suspended
  <2> QED
    BY <1>1, <1>4, <2>2, <2>3, <2>4, GoOn
<1> QED
  BY <1>2, <1>3, <1>4 DEF GetSpare

LEMMA FetchAddKeeps ==
  ASSUME EInv, NEW c \in Calls, FetchAdd(c)
  PROVE  EInv'
<1> DEFINE r == [call[c] EXCEPT !.run = nextRun, !.pc = "save_run"]
<1>0. call[c] \in CallRecord /\ Local(call[c], nextRun) /\ call[c].pc = "fetch_add"
  BY Called DEF EInv, FetchAdd, At
<1>1. nextRun \in Nat \ {0} /\ nextRun' = nextRun + 1 /\ slots' = slots /\ slots \in Nat
  BY DEF EInv, SharedOK, SlotsOK, FetchAdd
<1>2. SagaTypeOK' /\ StoreOK' /\ SharedOK'
  BY <1>1, SagaStays, StoreStays DEF EInv, SharedOK, repoVars, FetchAdd
<1>3. call' = [call EXCEPT ![c] = r]
  BY DEF FetchAdd, EInv, CallsOK
<1>4. r \in CallRecord /\ r.pc = "save_run" /\ r.node = call[c].node /\ r.run = nextRun
  BY <1>0, <1>1 DEF CallRecord, Holding, Suspended
<1> HIDE DEF r
<1>5. Local(r, nextRun')
  BY <1>0, <1>1, <1>4 DEF Local, Loaded, Numbered, Unnumbered
<1>6. Held(r) = 1 /\ Held(call[c]) = 1
  BY <1>0, <1>4 DEF Held, Holding, Suspended
<1>7. slots' \in Nat /\ slots' = (slots + Held(call[c])) - Held(r)
  BY <1>1, <1>6
<1>8. nextRun' \in Nat /\ nextRun' >= nextRun
  BY <1>1
<1> QED
  BY <1>2, <1>3, <1>4, <1>5, <1>7, <1>8, OneCallMoves

-----------------------------------------------------------------------------
(* The run: the saga, the path of its verdict, the saves.                  *)

LEMMA JobOK ==
  ASSUME EInv, NEW c \in Calls, At(c, "save_run")
  PROVE  JobOf(c) \in Jobs
<1>1. call[c] \in CallRecord /\ call[c].node \in NodeRecord
  BY Called DEF EInv, At, Local, Loaded
<1>2. call[c].req \in AllRequests
  BY <1>1, EngineAssumption DEF CallRecord
<1>3. call[c].node.version \in Versions
  BY <1>1 DEF NodeRecord
<1> QED
  BY <1>2, <1>3 DEF JobOf, Jobs, AllRequests

LEMMA SaveRunKeeps ==
  ASSUME EInv, NEW c \in Calls, SaveRun(c)
  PROVE  EInv'
<1>0. call[c] \in CallRecord /\ Local(call[c], nextRun) /\ ~At(c, "none") /\ call[c].pc = "save_run"
  BY Called DEF EInv, SaveRun, At
<1>1. StoreOK' /\ SharedOK' /\ nextRun' = nextRun
  BY StoreStays, SharedStays DEF EInv, SaveRun
<1>2. CASE RepoError(c) /\ UNCHANGED sagaVars
  BY <1>0, <1>1, <1>2, SagaStays, RepoErrorKeeps DEF EInv
<1>3. CASE Begin(c, JobOf(c)) /\ Goto(c, "saga") /\ UNCHANGED slots
  <2> DEFINE r == [call[c] EXCEPT !.pc = "saga"]
  <2>1. SagaTypeOK'
    BY <1>3, JobOK, BeginType DEF EInv, SaveRun
  <2>2. call' = [call EXCEPT ![c] = r]
    BY <1>3 DEF Goto, EInv, CallsOK
  <2>3. r \in CallRecord /\ r.pc = "saga" /\ r.node = call[c].node /\ r.run = call[c].run
    BY <1>0 DEF CallRecord, Holding, Suspended
  <2> HIDE DEF r
  <2>4. Local(r, nextRun) /\ Held(r) = Held(call[c])
    BY <1>0, <2>3 DEF Local, Loaded, Numbered, Unnumbered, Held, Holding, Suspended
  <2> QED
    BY <1>1, <1>3, <2>1, <2>2, <2>3, <2>4, GoOn
<1> QED
  BY <1>2, <1>3 DEF SaveRun

\* A step that leaves the calls and the permits alone.
LEMMA OthersMove ==
  ASSUME EInv, UNCHANGED <<call, slots, nextRun>>, SagaTypeOK', StoreOK', SharedOK'
  PROVE  EInv'
  BY DEF EInv, CallsOK, SlotsOK, SlotsAreConserved, At

LEMMA SagaStepKeeps ==
  ASSUME EInv, NEW c \in Calls, SagaStep(c)
  PROVE  EInv'
<1>1. SagaTypeOK'
  BY StepType DEF EInv, SagaStep
<1>2. StoreOK' /\ SharedOK' /\ UNCHANGED <<call, slots, nextRun>>
  BY StoreStays, SharedStays DEF EInv, SagaStep, engineVars
<1> QED
  BY <1>1, <1>2, OthersMove

\* A path that was walked to its end leads from rest to rest.
LEMMA PathsEndAtRest ==
  ASSUME NEW kind \in Kinds, NEW status, NEW s \in AtRest,
         Completes(s, Path(kind, status))
  PROVE  StateAfter(s, Path(kind, status)) \in AtRest
<1> DEFINE path == Path(kind, status)
<1>1. StateAfter(s, path) = IF Len(path) = 0 THEN s ELSE path[Len(path)]
  BY DEF StateAfter, Completes
<1>2. Len(path) = 0 \/ path[Len(path)] \in AtRest
  BY DEF Path, SuccessPath, FailurePath, Kinds, AtRest
<1> QED
  BY <1>1, <1>2

LEMMA ApplyPathKeeps ==
  ASSUME EInv, NEW c \in Calls, ApplyPath(c)
  PROVE  EInv'
<1> DEFINE path == Path(call[c].req.kind, saga[c].status)
<1>0. call[c] \in CallRecord /\ Local(call[c], nextRun) /\ ~At(c, "none") /\ call[c].pc = "saga"
  BY Called DEF EInv, ApplyPath, At
<1>1. SagaTypeOK' /\ StoreOK' /\ SharedOK' /\ nextRun' = nextRun
  BY SagaStays, StoreStays, SharedStays DEF EInv, repoVars, ApplyPath
<1>2. CASE Return(c, "IllegalTransition")
  BY <1>0, <1>1, <1>2, ReturnKeeps DEF Errors
<1>3. CASE /\ Completes(call[c].node.state, path)
           /\ call' = [call EXCEPT ![c].node = NodeAfter(c, path), ![c].pc = "save_node"]
           /\ UNCHANGED slots
  <2> DEFINE n == NodeAfter(c, path)
             r == [call[c] EXCEPT !.node = n, !.pc = "save_node"]
  <2>1. n \in NodeRecord /\ n.state \in AtRest
    <3>1. call[c].req \in AllRequests
      BY <1>0, EngineAssumption DEF CallRecord
    <3>2. call[c].req.kind \in Kinds /\ call[c].req.target \in Versions
      BY <3>1 DEF AllRequests
    <3>3. call[c].node \in NodeRecord /\ call[c].node.state \in AtRest
      BY <1>0 DEF Local, Loaded
    <3>4. StateAfter(call[c].node.state, path) \in AtRest
      BY <1>3, <3>2, <3>3, PathsEndAtRest
    <3>5. call[c].node.version \in Versions
      BY <3>3 DEF NodeRecord
    <3> HIDE DEF path
    <3> QED
      BY <3>2, <3>4, <3>5 DEF NodeAfter, NodeRecord, AtRest, NodeStates
  <2>2. call' = [call EXCEPT ![c] = r]
    BY <1>3 DEF EInv, CallsOK
  <2> HIDE DEF n
  <2>3. r \in CallRecord /\ r.pc = "save_node" /\ r.node = n /\ r.run = call[c].run
    BY <1>0, <2>1 DEF CallRecord, Holding, Suspended
  <2> HIDE DEF r
  <2>4. n # NoNode
    BY <2>1 DEF NoNode, NodeRecord, NodeStates, AtRest
  <2>5. Local(r, nextRun) /\ Held(r) = Held(call[c])
    BY <1>0, <2>1, <2>3, <2>4 DEF Local, Loaded, Numbered, Unnumbered, Held, Holding, Suspended
  <2> QED
    BY <1>1, <1>3, <2>2, <2>3, <2>5, GoOn
<1> QED
  BY <1>2, <1>3 DEF ApplyPath

LEMMA UpsertOK ==
  ASSUME StoreOK, NEW n \in Hosts, NEW v \in NodeRecord, v.state \in AtRest,
         nodes' = Upsert(nodes, n, v)
  PROVE  StoreOK'
<1>1. DOMAIN nodes' = DOMAIN nodes \cup {n}
      /\ \A m \in DOMAIN nodes' : nodes'[m] = IF m = n THEN v ELSE nodes[m]
  BY DEF Upsert
<1>2. nodes' = [m \in DOMAIN nodes' |-> nodes'[m]]
  BY DEF Upsert
<1> QED
  BY <1>1, <1>2 DEF StoreOK, OnlyNodesAtRestAreStored

LEMMA SaveNodeKeeps ==
  ASSUME EInv, NEW c \in Calls, SaveNode(c)
  PROVE  EInv'
<1>0. call[c] \in CallRecord /\ Local(call[c], nextRun) /\ ~At(c, "none") /\ call[c].pc = "save_node"
  BY Called DEF EInv, SaveNode, At
<1>1. SagaTypeOK' /\ SharedOK' /\ nextRun' = nextRun
  BY SagaStays, SharedStays DEF EInv, SaveNode
<1>2. StoreOK'
  <2>1. CASE nodes' = nodes
    BY <2>1, StoreStays DEF EInv
  <2>2. CASE nodes' = Upsert(nodes, call[c].req.node, call[c].node)
    <3>1. call[c].req.node \in Hosts
      BY <1>0, EngineAssumption DEF CallRecord, AllRequests
    <3>2. call[c].node \in NodeRecord /\ call[c].node.state \in AtRest
      BY <1>0 DEF Local, Loaded
    <3> QED
      BY <2>2, <3>1, <3>2, UpsertOK DEF EInv
  <2> QED
    BY <2>1, <2>2 DEF SaveNode
<1>3. CASE RepoError(c)
  BY <1>0, <1>1, <1>2, <1>3, RepoErrorKeeps
<1>4. CASE Goto(c, "finish_run") /\ UNCHANGED slots
  <2> DEFINE r == [call[c] EXCEPT !.pc = "finish_run"]
  <2>2. call' = [call EXCEPT ![c] = r]
    BY <1>4 DEF Goto, EInv, CallsOK
  <2>3. r \in CallRecord /\ r.pc = "finish_run" /\ r.node = call[c].node /\ r.run = call[c].run
    BY <1>0 DEF CallRecord, Holding, Suspended
  <2> HIDE DEF r
  <2>4. Local(r, nextRun) /\ Held(r) = Held(call[c])
    BY <1>0, <2>3 DEF Local, Loaded, Numbered, Unnumbered, Held, Holding, Suspended
  <2> QED
    BY <1>1, <1>2, <1>4, <2>2, <2>3, <2>4, GoOn
<1> QED
  BY <1>3, <1>4 DEF SaveNode

LEMMA FinishRunKeeps ==
  ASSUME EInv, NEW c \in Calls, FinishRun(c)
  PROVE  EInv'
<1>0. ~At(c, "none")
  BY DEF FinishRun, At
<1>1. SagaTypeOK' /\ StoreOK' /\ SharedOK' /\ nextRun' = nextRun
  BY SagaStays, StoreStays, SharedStays DEF EInv, FinishRun
<1>2. RepoError(c) \/ Return(c, "Ok")
  BY DEF FinishRun
<1> QED
  BY <1>0, <1>1, <1>2, RepoErrorKeeps, ReturnKeeps

\* The future is dropped: whatever the agent call under way has done, the types
\* stand.
LEMMA CancelKeeps ==
  ASSUME EInv, NEW c \in Calls, Cancel(c)
  PROVE  EInv'
<1>0. ~At(c, "none")
  BY DEF Cancel, At, Suspended
<1>1. StoreOK' /\ SharedOK' /\ nextRun' = nextRun
  BY StoreStays, SharedStays DEF EInv, repoVars, Cancel
<1>2. SagaTypeOK'
  <2>1. SagaTypeOK
    BY DEF EInv
  <2>2. fleet' \in Fleets
    <3>1. CASE Awaiting(c) /\ fleet' \in AfterFailure(c)
      BY <2>1, <3>1, EffectTypes DEF Awaiting
    <3>2. CASE UNCHANGED fleet
      BY <2>1, <3>2 DEF SagaTypeOK, Fleets
    <3> QED
      BY <3>1, <3>2 DEF Cancel
  <2> QED
    BY <2>1, <2>2 DEF Cancel, SagaTypeOK, Fleets, InPhase, WithinPlan
<1> QED
  BY <1>0, <1>1, <1>2, ReturnKeeps DEF Cancel, Errors

\* An attempt that is repeated moves the hosts and nothing of the engine.
LEMMA RepeatMoves ==
  ASSUME NEW c \in Calls, RepeatAttempt(c)
  PROVE  /\ At(c, "saga") /\ Awaiting(c) /\ fleet' \in AfterFailure(c)
         /\ UNCHANGED <<saga, trail, nodes, runs, tokens, slots, nextRun, call, audit>>
BY DEF RepeatAttempt, engineVars

LEMMA RepeatKeeps ==
  ASSUME EInv, NEW c \in Calls, RepeatAttempt(c)
  PROVE  EInv'
<1>1. SagaTypeOK'
  BY RepeatMoves, AttemptType DEF EInv
<1>2. StoreOK' /\ SharedOK' /\ UNCHANGED <<call, slots, nextRun>>
  BY RepeatMoves, StoreStays, SharedStays DEF EInv
<1> QED
  BY <1>1, <1>2, OthersMove

LEMMA RefillKeeps == ASSUME EInv, Refill PROVE EInv'
<1>1. SagaTypeOK' /\ StoreOK' /\ UNCHANGED <<call, slots, nextRun>>
  BY SagaStays, StoreStays DEF EInv, repoVars, Refill
<1>2. SharedOK'
  BY EngineAssumption DEF EInv, SharedOK, Refill
<1> QED
  BY <1>1, <1>2, OthersMove

LEMMA RegisterKeeps ==
  ASSUME EInv, NEW n \in Hosts, NEW v \in Versions, RegisterNode(n, v)
  PROVE  EInv'
<1>1. SagaTypeOK' /\ SharedOK' /\ UNCHANGED <<call, slots, nextRun>>
  BY SagaStays, SharedStays DEF EInv, RegisterNode
<1>2. NewNode(v) \in NodeRecord /\ NewNode(v).state \in AtRest
  BY DEF NewNode, NodeRecord, NodeStates, AtRest
<1>3. StoreOK'
  BY <1>2, UpsertOK DEF EInv, RegisterNode
<1> QED
  BY <1>1, <1>3, OthersMove

-----------------------------------------------------------------------------
LEMMA InitEInv == ASSUME Init PROVE EInv
<1>1. SagaTypeOK
  BY InitType DEF Init
<1>2. StoreOK
  <2>1. PICK known \in SUBSET Hosts : nodes \in [known -> NodeRecord]
    BY DEF Init
  <2>2. \A n \in DOMAIN nodes : nodes[n].state \in {"Provisioning", "Active"}
    BY <2>1 DEF Init, Agrees
  <2> QED
    BY <2>1, <2>2 DEF StoreOK, OnlyNodesAtRestAreStored, AtRest
<1>3. SharedOK
  BY EngineAssumption DEF Init, SharedOK
<1>4. CallsOK
  BY DEF Init, CallsOK, At, NotCalled
<1>5. SlotsOK
  <2>1. {c \in Calls : call[c].pc \in Holding} = {}
    BY DEF Init, NotCalled, Holding, Suspended
  <2>2. slots = MaxDeploys /\ MaxDeploys \in Nat
    BY EngineAssumption DEF Init
  <2> QED
    BY <2>1, <2>2, FS_EmptySet DEF SlotsOK, SlotsAreConserved
<1> QED
  BY <1>1, <1>2, <1>3, <1>4, <1>5 DEF EInv

LEMMA NextEInv == ASSUME EInv, [Next]_vars PROVE EInv'
<1>1. ASSUME NEW c \in Calls, Progress(c)
      PROVE  EInv'
  BY <1>1, TakeTokenKeeps, TakeSlotKeeps, GetNodeKeeps, GetSpareKeeps, FetchAddKeeps,
     SaveRunKeeps, SagaStepKeeps, ApplyPathKeeps, SaveNodeKeeps, FinishRunKeeps DEF Progress
<1>2. CASE UNCHANGED vars
  <2>1. SagaTypeOK' /\ StoreOK' /\ SharedOK' /\ UNCHANGED <<call, slots, nextRun>>
    BY <1>2, SagaStays, StoreStays, SharedStays DEF EInv, vars, sagaVars
  <2> QED
    BY <2>1, OthersMove
<1> QED
  BY <1>1, <1>2, RefillKeeps, RegisterKeeps, StartKeeps, RepeatKeeps, CancelKeeps DEF Next

\* The bulkhead's permits are conserved over every way out of start_deployment,
\* for any number of calls (SlotsAreConserved); with it the permits stay within
\* the capacity.
THEOREM PermitsConserved == Spec => [](SlotsAreConserved /\ slots \in 0..MaxDeploys)
<1>1. ASSUME EInv PROVE SlotsAreConserved /\ slots \in 0..MaxDeploys
  <2> DEFINE H == {c \in Calls : call[c].pc \in Holding}
  <2>1. slots + Cardinality(H) = MaxDeploys /\ slots \in Nat
    BY <1>1 DEF EInv, SlotsOK, SlotsAreConserved
  <2>2. Cardinality(H) \in Nat
    BY EngineAssumption, FS_Subset, FS_CardinalityType
  <2> HIDE DEF H
  <2>3. slots \in 0..MaxDeploys
    BY <2>1, <2>2
  <2> QED
    BY <1>1, <2>3 DEF EInv, SlotsOK
<1> QED
  BY <1>1, InitEInv, NextEInv, PTL DEF Spec

\* No crash, error or hang-up leaves a node stored in the middle of a path
\* (OnlyNodesAtRestAreStored).
THEOREM NodesAtRest == Spec => []OnlyNodesAtRestAreStored
<1>1. ASSUME EInv PROVE OnlyNodesAtRestAreStored
  BY <1>1 DEF EInv, StoreOK
<1> QED
  BY <1>1, InitEInv, NextEInv, PTL DEF Spec

-----------------------------------------------------------------------------
(***************************************************************************)
(* The second inductive invariant.  Owns is what the store knows of the    *)
(* run of a call: nothing before save_run, Running until finish_run.       *)
(***************************************************************************)
Owns(r, phase, stored) ==
  /\ r.pc = "save_run" => r.run \notin DOMAIN stored
  /\ r.pc \in {"saga", "save_node", "finish_run"} =>
       phase # "idle" /\ r.run \in DOMAIN stored /\ stored[r.run].status = "Running"

RunsOK == DOMAIN runs \subseteq Nat /\ runs \in [DOMAIN runs -> RunRecord]

AuditOK == audit \in [Calls -> AuditRecord]

OwnersOK == \A c \in Calls : ~At(c, "none") => Owns(call[c], saga[c].phase, runs)

BInv == EInv /\ RunsOK /\ AuditOK /\ OwnersOK /\ RunsBelongToOneCall

\* What the call at c may do to the store of runs: nothing, or save its own run.
Writes(c) ==
  \/ runs' = runs
  \/ \E status \in RunStatuses, steps \in Nat :
       runs' = Upsert(runs, call[c].run, RunOf(c, status, steps))

LEMMA WritesOwn ==
  ASSUME BInv, NEW c \in Calls, HasRun(c), Writes(c)
  PROVE  /\ RunsOK'
         /\ DOMAIN runs \subseteq DOMAIN runs' /\ DOMAIN runs' \subseteq DOMAIN runs \cup {call[c].run}
         /\ \A id \in DOMAIN runs : id # call[c].run => runs'[id] = runs[id]
         /\ call[c].run \in DOMAIN runs' =>
              \/ runs' = runs
              \/ /\ runs'[call[c].run].node = call[c].req.node
                 /\ runs'[call[c].run].kind = call[c].req.kind
<1>1. CASE runs' = runs
  BY <1>1 DEF BInv, RunsOK
<1>2. ASSUME NEW status \in RunStatuses, NEW steps \in Nat,
             runs' = Upsert(runs, call[c].run, RunOf(c, status, steps))
      PROVE  /\ RunsOK'
             /\ DOMAIN runs' = DOMAIN runs \cup {call[c].run}
             /\ \A id \in DOMAIN runs : id # call[c].run => runs'[id] = runs[id]
             /\ runs'[call[c].run].node = call[c].req.node
             /\ runs'[call[c].run].kind = call[c].req.kind
  <2> DEFINE v == RunOf(c, status, steps)
             id == call[c].run
  <2>1. call[c] \in CallRecord
    BY Called DEF BInv, EInv, HasRun
  <2>2. id \in Nat /\ call[c].req \in AllRequests
    BY <2>1, EngineAssumption DEF CallRecord
  <2>3. v \in RunRecord /\ v.node = call[c].req.node /\ v.kind = call[c].req.kind
    BY <2>2 DEF RunOf, RunRecord, AllRequests
  <2> HIDE DEF v, id
  <2>4. runs' = [x \in DOMAIN runs \cup {id} |-> IF x = id THEN v ELSE runs[x]]
    BY <1>2 DEF Upsert, v, id
  <2>5. RunsOK'
    BY <2>2, <2>3, <2>4 DEF BInv, RunsOK
  <2>6. DOMAIN runs' = DOMAIN runs \cup {id} /\ runs'[id] = v
        /\ \A x \in DOMAIN runs : x # id => runs'[x] = runs[x]
    BY <2>4
  <2> QED
    BY <2>3, <2>5, <2>6 DEF id
<1> QED
  BY <1>1, <1>2 DEF Writes

\* A step of a call that keeps its request and its run.
LEMMA OneOwnerMoves ==
  ASSUME BInv, EInv', NEW c \in Calls, ~At(c, "none"), NEW r \in CallRecord,
         call' = [call EXCEPT ![c] = r], r.req = call[c].req, r.run = call[c].run,
         runs' = runs \/ (HasRun(c) /\ Writes(c)), AuditOK',
         Owns(r, saga'[c].phase, runs'),
         \A d \in Calls : d # c => saga'[d] = saga[d]
  PROVE  BInv'
<1>1. \A d \in Calls : call'[d] = IF d = c THEN r ELSE call[d]
  BY DEF BInv, EInv, CallsOK
<1>2. \A d \in Calls : HasRun(d)' => HasRun(d) /\ call'[d].run = call[d].run
                                      /\ call'[d].req = call[d].req
  BY <1>1 DEF HasRun, At
<1>3. r.pc # "none"
  BY DEF CallRecord, Holding, Suspended
<1>4. \A d \in Calls : HasRun(d) => HasRun(d)'
  BY <1>1, <1>3 DEF HasRun, At
<1>5. RunsOK'
  BY WritesOwn DEF BInv, RunsOK
<1>6. RunsBelongToOneCall'
  <2>1. \A d, e \in Calls : d # e /\ HasRun(d)' /\ HasRun(e)' => call'[d].run # call'[e].run
    BY <1>2 DEF BInv, RunsBelongToOneCall
  <2>2. ASSUME NEW id \in DOMAIN runs'
        PROVE  \E d \in Calls : /\ HasRun(d)' /\ call'[d].run = id
                                /\ runs'[id].node = call'[d].req.node
                                /\ runs'[id].kind = call'[d].req.kind
    <3>1. CASE id \in DOMAIN runs /\ runs'[id] = runs[id]
      <4>1. PICK d \in Calls : /\ HasRun(d) /\ call[d].run = id
                               /\ runs[id].node = call[d].req.node
                               /\ runs[id].kind = call[d].req.kind
        BY <3>1 DEF BInv, RunsBelongToOneCall
      <4>2. call'[d].run = id /\ call'[d].req = call[d].req /\ HasRun(d)'
        BY <1>2, <1>4, <4>1
      <4> QED
        BY <3>1, <4>1, <4>2
    <3>2. CASE HasRun(c) /\ Writes(c) /\ id = call[c].run /\ runs' # runs
      <4>1. runs'[id].node = call[c].req.node /\ runs'[id].kind = call[c].req.kind
        BY <2>2, <3>2, WritesOwn
      <4> QED
        BY <1>2, <1>4, <3>2, <4>1
    <3>3. CASE runs' = runs
      BY <2>2, <3>1, <3>3
    <3>4. CASE runs' # runs
      BY <2>2, <3>1, <3>2, <3>4, WritesOwn
    <3> QED
      BY <3>3, <3>4
  <2> QED
    BY <2>1, <2>2 DEF RunsBelongToOneCall
<1>7. ASSUME NEW d \in Calls, ~At(d, "none")'
      PROVE  Owns(call[d], saga[d].phase, runs)'
  <2>1. CASE d = c
    BY <1>1, <2>1
  <2>2. CASE d # c
    <3>1. call'[d] = call[d] /\ saga'[d] = saga[d] /\ ~At(d, "none")
      BY <1>1, <1>7, <2>2 DEF At
    <3>2. Owns(call[d], saga[d].phase, runs)
      BY <3>1 DEF BInv, OwnersOK
    <3>3. CASE runs' = runs
      BY <3>1, <3>2, <3>3
    <3>4. CASE HasRun(c) /\ Writes(c) /\ call[d].pc \in Numbered
      <4>1. HasRun(d)
        BY <3>1, <3>4, Called DEF BInv, EInv, Local, HasRun
      <4>2. call[d].run # call[c].run
        BY <2>2, <3>4, <4>1 DEF BInv, RunsBelongToOneCall
      <4> QED
        BY <3>1, <3>2, <3>4, <4>2, WritesOwn DEF Owns
    <3>5. CASE call[d].pc \notin Numbered
      BY <3>1, <3>5 DEF Owns, Numbered
    <3> QED
      BY <3>3, <3>4, <3>5
  <2> QED
    BY <2>1, <2>2
<1> QED
  BY <1>5, <1>6, <1>7 DEF BInv, OwnersOK

LEMMA ReturnOwns ==
  ASSUME BInv, EInv', NEW c \in Calls, ~At(c, "none"), NEW e \in {"Ok"} \cup Errors, Return(c, e),
         runs' = runs \/ (HasRun(c) /\ Writes(c)), AuditOK', saga' = saga
  PROVE  BInv'
<1> DEFINE r == [call[c] EXCEPT !.pc = "returned", !.result = e]
<1>1. call[c] \in CallRecord
  BY Called DEF BInv, EInv
<1>2. r \in CallRecord /\ r.pc = "returned" /\ r.req = call[c].req /\ r.run = call[c].run
  BY <1>1 DEF CallRecord
<1>3. call' = [call EXCEPT ![c] = r]
  BY DEF Return, BInv, EInv, CallsOK
<1> HIDE DEF r
<1>4. Owns(r, saga'[c].phase, runs')
  BY <1>2 DEF Owns
<1> QED
  BY <1>2, <1>3, <1>4, OneOwnerMoves

LEMMA GotoOwns ==
  ASSUME BInv, EInv', NEW c \in Calls, ~At(c, "none"), NEW p \in Holding \cup {"bulkhead"}, Goto(c, p),
         runs' = runs \/ (HasRun(c) /\ Writes(c)), AuditOK',
         \A d \in Calls : d # c => saga'[d] = saga[d],
         p = "save_run" => call[c].run \notin DOMAIN runs',
         p \in {"saga", "save_node", "finish_run"} =>
           saga'[c].phase # "idle" /\ call[c].run \in DOMAIN runs' /\ runs'[call[c].run].status = "Running"
  PROVE  BInv'
<1> DEFINE r == [call[c] EXCEPT !.pc = p]
<1>1. call[c] \in CallRecord
  BY Called DEF BInv, EInv
<1>2. r \in CallRecord /\ r.pc = p /\ r.req = call[c].req /\ r.run = call[c].run
  BY <1>1 DEF CallRecord
<1>3. call' = [call EXCEPT ![c] = r]
  BY DEF Goto, BInv, EInv, CallsOK
<1> HIDE DEF r
<1>4. Owns(r, saga'[c].phase, runs')
  BY <1>2 DEF Owns
<1> QED
  BY <1>2, <1>3, <1>4, OneOwnerMoves

\* Steps in which no call moves and no run is saved.
LEMMA NobodyMoves ==
  ASSUME BInv, EInv', UNCHANGED <<runs, call, audit>>,
         \A d \in Calls : saga[d].phase # "idle" => saga'[d].phase # "idle"
  PROVE  BInv'
<1>1. RunsOK' /\ AuditOK' /\ RunsBelongToOneCall'
  BY DEF BInv, RunsOK, AuditOK, RunsBelongToOneCall, HasRun, At
<1>2. OwnersOK'
  BY DEF BInv, OwnersOK, Owns, At
<1> QED
  BY <1>1, <1>2 DEF BInv

LEMMA StartOwns ==
  ASSUME BInv, EInv', NEW c \in Calls, NEW q \in Requests, StartDeployment(c, q)
  PROVE  BInv'
<1> DEFINE r == [pc |-> "start", req |-> q, read |-> NoNode, node |-> NoNode, run |-> 0,
                 result |-> "pending"]
<1>1. \A d \in Calls : call'[d] = IF d = c THEN r ELSE call[d]
  BY DEF StartDeployment, BInv, EInv, CallsOK
<1>2. r.pc = "start" /\ r.run = 0
  OBVIOUS
<1> HIDE DEF r
<1>3. \A d \in Calls : /\ HasRun(d)' <=> HasRun(d)
                       /\ HasRun(d) => call'[d] = call[d]
  BY <1>1, <1>2 DEF HasRun, At, StartDeployment
<1>4. UNCHANGED <<runs, audit, saga>>
  BY DEF StartDeployment, sagaVars, repoVars
<1>5. RunsOK' /\ AuditOK' /\ RunsBelongToOneCall'
  BY <1>3, <1>4 DEF BInv, RunsOK, AuditOK, RunsBelongToOneCall
<1>6. OwnersOK'
  BY <1>1, <1>2, <1>4 DEF BInv, OwnersOK, Owns, At
<1> QED
  BY <1>5, <1>6 DEF BInv

\* The counter is ahead of every id that was handed out, and the store only
\* knows those.
LEMMA FetchAddOwns ==
  ASSUME BInv, EInv', NEW c \in Calls, FetchAdd(c)
  PROVE  BInv'
<1> DEFINE r == [call[c] EXCEPT !.run = nextRun, !.pc = "save_run"]
<1>1. call[c] \in CallRecord /\ call[c].run = 0 /\ call[c].pc = "fetch_add"
  BY Called DEF BInv, EInv, FetchAdd, At, Local, Unnumbered
<1>2. r.pc = "save_run" /\ r.run = nextRun /\ r.req = call[c].req
  BY <1>1 DEF CallRecord
<1>3. \A d \in Calls : call'[d] = IF d = c THEN r ELSE call[d]
  BY DEF FetchAdd, BInv, EInv, CallsOK
<1> HIDE DEF r
<1>4. nextRun \in Nat \ {0} /\ UNCHANGED <<runs, audit, saga>>
  BY DEF BInv, EInv, SharedOK, FetchAdd, repoVars, sagaVars
<1>5. \A d \in Calls : HasRun(d) => d # c /\ call[d].run < nextRun /\ call'[d] = call[d] /\ HasRun(d)'
  BY <1>1, <1>3, Called DEF HasRun, BInv, EInv, Local, At
<1>6. \A d \in Calls : HasRun(d)' /\ d # c => HasRun(d)
  BY <1>3 DEF HasRun, At
<1>7. \A d \in Calls : HasRun(d) => call[d].run \in Nat
  BY Called DEF HasRun, BInv, EInv, CallRecord
<1>8. nextRun \notin DOMAIN runs
  BY <1>4, <1>5, <1>7 DEF BInv, RunsBelongToOneCall
<1>9. RunsBelongToOneCall'
  <2>1. \A d \in Calls : HasRun(d) => call[d].run # nextRun
    BY <1>4, <1>5, <1>7
  <2>2. call'[c].run = nextRun
    BY <1>2, <1>3
  <2>3. \A d, e \in Calls : d # e /\ HasRun(d)' /\ HasRun(e)' => call'[d].run # call'[e].run
    BY <1>5, <1>6, <2>1, <2>2 DEF BInv, RunsBelongToOneCall
  <2> QED
    BY <1>4, <1>5, <2>3 DEF BInv, RunsBelongToOneCall
<1>10. OwnersOK'
  BY <1>2, <1>3, <1>4, <1>8 DEF BInv, OwnersOK, Owns, At
<1> QED
  BY <1>4, <1>9, <1>10 DEF BInv, RunsOK, AuditOK

-----------------------------------------------------------------------------
(* The steps, with respect to the runs.                                    *)

LEMMA GuardsOwn ==
  ASSUME BInv, EInv', NEW c \in Calls, TakeToken(c) \/ TakeSlot(c) \/ GetSpare(c)
  PROVE  BInv'
<1>1. ~At(c, "none") /\ runs' = runs /\ saga' = saga /\ AuditOK'
  BY DEF TakeToken, TakeSlot, GetSpare, At, sagaVars, repoVars, BInv, AuditOK
<1>2. ASSUME NEW e \in {"Throttled", "NotFound", "PortError"}, Return(c, e) PROVE BInv'
  BY <1>1, <1>2, ReturnOwns DEF Errors
<1>3. ASSUME NEW p \in {"bulkhead", "get_node", "fetch_add"}, Goto(c, p) PROVE BInv'
  BY <1>1, <1>3, GotoOwns DEF Holding, Suspended
<1> QED
  BY <1>2, <1>3 DEF TakeToken, TakeSlot, GetSpare, RepoError

LEMMA GetNodeOwns ==
  ASSUME BInv, EInv', NEW c \in Calls, GetNode(c)
  PROVE  BInv'
<1>1. ~At(c, "none") /\ runs' = runs /\ saga' = saga /\ AuditOK'
  BY DEF GetNode, At, sagaVars, repoVars, BInv, AuditOK
<1>2. call[c] \in CallRecord
  BY <1>1, Called DEF BInv, EInv
<1>3. ASSUME NEW e \in {"NotFound", "PortError"}, Return(c, e) PROVE BInv'
  BY <1>1, <1>3, ReturnOwns DEF Errors
<1>4. ASSUME NEW p \in {"get_spare", "fetch_add"}, call[c].req.node \in DOMAIN nodes,
             call' = [call EXCEPT ![c].read = nodes[call[c].req.node],
                                  ![c].node = nodes[call[c].req.node], ![c].pc = p]
      PROVE  BInv'
  <2> DEFINE n == nodes[call[c].req.node]
             r == [call[c] EXCEPT !.read = n, !.node = n, !.pc = p]
  <2>1. n \in NodeRecord
    BY <1>4 DEF BInv, EInv, StoreOK
  <2>2. call' = [call EXCEPT ![c] = r]
    BY <1>4 DEF BInv, EInv, CallsOK
  <2> HIDE DEF n
  <2>3. r \in CallRecord /\ r.pc = p /\ r.req = call[c].req /\ r.run = call[c].run
    BY <1>2, <2>1 DEF CallRecord, Holding, Suspended
  <2> HIDE DEF r
  <2>4. Owns(r, saga'[c].phase, runs')
    BY <2>3 DEF Owns
  <2> QED
    BY <1>1, <2>2, <2>3, <2>4, OneOwnerMoves
<1>5. (IF call[c].req.kind = "Failover" THEN "get_spare" ELSE "fetch_add")
        \in {"get_spare", "fetch_add"}
  OBVIOUS
<1> QED
  BY <1>3, <1>4, <1>5 DEF GetNode, RepoError

LEMMA SaveRunOwns ==
  ASSUME BInv, EInv', NEW c \in Calls, SaveRun(c)
  PROVE  BInv'
<1>1. ~At(c, "none") /\ call[c].pc = "save_run"
  BY DEF SaveRun, At
<1>2. HasRun(c)
  BY <1>1, Called DEF BInv, EInv, Local, Numbered, HasRun
<1> DEFINE stored == Upsert(runs, call[c].run, RunOf(c, "Running", 0))
<1>3. runs' \in {runs, stored}
  BY DEF SaveRun
<1>4. Writes(c)
  BY <1>3 DEF Writes, RunStatuses
<1>5. CASE RepoError(c) /\ UNCHANGED <<sagaVars, audit>>
  <2>1. AuditOK' /\ saga' = saga
    BY <1>5 DEF BInv, AuditOK, sagaVars
  <2> QED
    BY <1>1, <1>2, <1>4, <1>5, <2>1, ReturnOwns DEF RepoError, Errors
<1>6. CASE /\ runs' = stored
           /\ audit' = [audit EXCEPT ![c].started = TRUE]
           /\ Begin(c, JobOf(c))
           /\ Goto(c, "saga")
  <2>1. AuditOK'
    <3>1. [audit[c] EXCEPT !.started = TRUE] \in AuditRecord
      BY DEF BInv, AuditOK, AuditRecord
    <3> QED
      BY <1>6, <3>1 DEF BInv, AuditOK
  <2>2. saga' = [saga EXCEPT ![c] = Entered(JobOf(c))]
    BY <1>6 DEF Begin
  <2>3. saga'[c].phase # "idle" /\ \A d \in Calls : d # c => saga'[d] = saga[d]
    BY <2>2 DEF BInv, EInv, SagaTypeOK, Entered
  <2>4. call[c].run \in DOMAIN runs' /\ runs'[call[c].run].status = "Running"
    BY <1>6 DEF Upsert, RunOf
  <2> QED
    BY <1>1, <1>2, <1>4, <1>6, <2>1, <2>3, <2>4, GotoOwns DEF Holding, Suspended
<1> QED
  BY <1>5, <1>6 DEF SaveRun

\* No statement of the loops makes a saga idle again.
LEMMA LoopsStay ==
  ASSUME NEW s \in SagaRecord, NEW b
  PROVE  /\ AfterStep(s, b).phase # "idle" /\ StartUndo(s).phase # "idle"
         /\ AfterUndo(s, b).phase # "idle"
  BY DEF AfterStep, StartUndo, AfterUndo, SagaRecord

LEMMA SagaStepOwns ==
  ASSUME BInv, EInv', NEW c \in Calls, SagaStep(c)
  PROVE  BInv'
<1>1. UNCHANGED <<runs, call, audit>> /\ RunStep(c)
  BY DEF SagaStep, engineVars
<1>2. saga[c] \in SagaRecord /\ saga[c].phase \in {"forward", "undo"}
  BY <1>1, BusyCall DEF BInv, EInv, RunStep, StepSucceeds, StepFails, UndoSucceeds, UndoFails, InPhase
<1>3. \/ \E last : saga' = [saga EXCEPT ![c] = AfterStep(saga[c], last)]
      \/ saga' = [saga EXCEPT ![c] = StartUndo(saga[c])]
      \/ \E ok : saga' = [saga EXCEPT ![c] = AfterUndo(saga[c], ok)]
  BY <1>1 DEF RunStep, StepSucceeds, StepFails, UndoSucceeds, UndoFails
<1>4. \A d \in Calls : saga[d].phase # "idle" => saga'[d].phase # "idle"
  BY <1>2, <1>3, LoopsStay DEF BInv, EInv, SagaTypeOK
<1> QED
  BY <1>1, <1>4, NobodyMoves

LEMMA PathType ==
  ASSUME NEW kind \in Kinds, NEW status
  PROVE  /\ Len(Path(kind, status)) \in 0..3
         /\ \A i \in 1..Len(Path(kind, status)) : Path(kind, status)[i] \in NodeStates
<1>1. CASE status = "Succeeded"
  BY <1>1 DEF Path, SuccessPath, Kinds, NodeStates
<1>2. CASE status # "Succeeded"
  BY <1>2 DEF Path, FailurePath, Kinds, NodeStates
<1> QED
  BY <1>1, <1>2

\* There is a longest legal prefix: the loop of transition_to stops at one place.
LEMMA LongestWalk ==
  ASSUME NEW s, NEW path, Len(path) \in 0..3
  PROVE  \E n \in 0..Len(path) : Legal(s, path, n) /\ \A m \in (n + 1)..Len(path) : ~Legal(s, path, m)
<1> DEFINE L(n) == Legal(s, path, n)
<1>1. L(0)
  BY DEF Legal
<1> HIDE DEF L
<1>2. \E n \in 0..Len(path) : L(n) /\ \A m \in (n + 1)..Len(path) : ~L(m)
  <2>1. CASE Len(path) = 0
    BY <1>1, <2>1
  <2>2. CASE Len(path) = 1
    BY <1>1, <2>2
  <2>3. CASE Len(path) = 2
    BY <1>1, <2>3
  <2>4. CASE Len(path) = 3
    BY <1>1, <2>4
  <2> QED
    BY <2>1, <2>2, <2>3, <2>4
<1> QED
  BY <1>2 DEF L

\* What the loop of transition_to takes is that prefix.
LEMMA WalkedType ==
  ASSUME NEW s, NEW path, Len(path) \in 0..3
  PROVE  Walked(s, path) \in 0..Len(path) /\ Legal(s, path, Walked(s, path))
<1> DEFINE Longest(n) == Legal(s, path, n) /\ \A m \in (n + 1)..Len(path) : ~Legal(s, path, m)
<1>1. \E n \in 0..Len(path) : Longest(n)
  BY LongestWalk
<1>2. Walked(s, path) \in 0..Len(path) /\ Longest(Walked(s, path))
  BY <1>1 DEF Walked
<1> QED
  BY <1>2

LEMMA MovesType ==
  ASSUME NEW s \in NodeStates, NEW kind \in Kinds, NEW status
  PROVE  Moves(s, Path(kind, status)) \in Seq(NodeStates \X NodeStates)
<1> DEFINE path == Path(kind, status)
           n == Walked(s, path)
<1>1. Len(path) \in 0..3 /\ \A i \in 1..Len(path) : path[i] \in NodeStates
  BY PathType
<1>2. n \in 0..Len(path)
  BY <1>1, WalkedType
<1> HIDE DEF path, n
<1>3. n \in Nat /\ \A i \in 1..n : i \in 1..Len(path) /\ (i # 1 => i - 1 \in 1..Len(path))
  BY <1>1, <1>2
<1>4. \A i \in 1..n : <<Before(s, path, i), path[i]>> \in NodeStates \X NodeStates
  BY <1>1, <1>3 DEF Before
<1>5. [i \in 1..n |-> <<Before(s, path, i), path[i]>>] \in Seq(NodeStates \X NodeStates)
  BY <1>3, <1>4
<1> QED
  BY <1>5 DEF Moves, path, n

LEMMA ApplyPathOwns ==
  ASSUME BInv, EInv', NEW c \in Calls, ApplyPath(c)
  PROVE  BInv'
<1> DEFINE path == Path(call[c].req.kind, saga[c].status)
<1>1. ~At(c, "none") /\ call[c].pc = "saga" /\ runs' = runs /\ saga' = saga
  BY DEF ApplyPath, At, sagaVars, repoVars
<1>2. call[c] \in CallRecord /\ call[c].node \in NodeRecord
  BY <1>1, Called DEF BInv, EInv, Local, Loaded
<1>3. AuditOK'
  <2>1. call[c].node.state \in NodeStates /\ call[c].req.kind \in Kinds
    BY <1>2, EngineAssumption DEF NodeRecord, CallRecord, AllRequests
  <2> DEFINE m == Moves(call[c].node.state, path)
  <2>2. m \in Seq(NodeStates \X NodeStates)
    BY <2>1, MovesType
  <2>3. audit' = [audit EXCEPT ![c].moves = m]
    BY DEF ApplyPath
  <2> HIDE DEF m
  <2>4. [audit[c] EXCEPT !.moves = m] \in AuditRecord
    BY <2>2 DEF BInv, AuditOK, AuditRecord
  <2> QED
    BY <2>3, <2>4 DEF BInv, AuditOK
<1>4. CASE Return(c, "IllegalTransition")
  BY <1>1, <1>3, <1>4, ReturnOwns DEF Errors
<1>5. CASE call' = [call EXCEPT ![c].node = NodeAfter(c, path), ![c].pc = "save_node"]
  <2> DEFINE n == NodeAfter(c, path)
             r == [call[c] EXCEPT !.node = n, !.pc = "save_node"]
  <2>1. call' = [call EXCEPT ![c] = r]
    BY <1>5 DEF BInv, EInv, CallsOK
  <2>2. r.pc = "save_node" /\ r.req = call[c].req /\ r.run = call[c].run
    BY <1>2 DEF CallRecord
  <2> HIDE DEF n, r
  <2>3. r \in CallRecord
    <3>1. call'[c] = r
      BY <2>1 DEF BInv, EInv, CallsOK
    <3> QED
      BY <2>2, <3>1 DEF EInv, CallsOK, NotCalled
  <2>4. Owns(call[c], saga[c].phase, runs)
    BY <1>1 DEF BInv, OwnersOK
  <2>5. Owns(r, saga'[c].phase, runs')
    BY <1>1, <2>2, <2>4 DEF Owns
  <2> QED
    BY <1>1, <1>3, <2>1, <2>2, <2>3, <2>5, OneOwnerMoves
<1> QED
  BY <1>4, <1>5 DEF ApplyPath

LEMMA SaveNodeOwns ==
  ASSUME BInv, EInv', NEW c \in Calls, SaveNode(c)
  PROVE  BInv'
<1>1. ~At(c, "none") /\ call[c].pc = "save_node" /\ runs' = runs /\ saga' = saga /\ AuditOK'
  BY DEF SaveNode, At, sagaVars, BInv, AuditOK
<1>2. Owns(call[c], saga[c].phase, runs)
  BY <1>1 DEF BInv, OwnersOK
<1>3. CASE Return(c, "PortError")
  BY <1>1, <1>3, ReturnOwns DEF Errors
<1>4. CASE Goto(c, "finish_run")
  BY <1>1, <1>2, <1>4, GotoOwns DEF Owns, Holding, Suspended
<1> QED
  BY <1>3, <1>4 DEF SaveNode, RepoError

\* What FinishRun stores is the verdict of a saga that was entered.
LEMMA FinishRunWrites ==
  ASSUME BInv, NEW c \in Calls, FinishRun(c)
  PROVE  /\ HasRun(c) /\ Writes(c) /\ saga[c].status \in RunStatuses
         /\ runs[call[c].run].status = "Running"
<1>1. ~At(c, "none") /\ call[c].pc = "finish_run"
  BY DEF FinishRun, At
<1>2. HasRun(c)
  BY <1>1, Called DEF BInv, EInv, Local, Numbered, HasRun
<1>3. Owns(call[c], saga[c].phase, runs)
  BY <1>1 DEF BInv, OwnersOK
<1>4. saga[c] \in SagaRecord
  BY <1>1, <1>3, BusyCall DEF Owns, BInv, EInv
<1>5. saga[c].status \in RunStatuses /\ saga[c].done \in Nat
  BY <1>4 DEF SagaRecord
<1>6. runs' \in {runs, Upsert(runs, call[c].run, RunOf(c, saga[c].status, saga[c].done))}
  BY DEF FinishRun
<1> QED
  BY <1>1, <1>2, <1>3, <1>5, <1>6 DEF Writes, Owns

LEMMA FinishRunOwns ==
  ASSUME BInv, EInv', NEW c \in Calls, FinishRun(c)
  PROVE  BInv'
<1>1. ~At(c, "none") /\ saga' = saga
  BY DEF FinishRun, At, sagaVars
<1>2. HasRun(c) /\ Writes(c) /\ saga[c].status \in RunStatuses
  BY FinishRunWrites
<1>3. AuditOK'
  <2>1. [audit[c] EXCEPT !.finished = saga[c].status] \in AuditRecord
    BY <1>2 DEF BInv, AuditOK, AuditRecord
  <2>2. UNCHANGED audit \/ audit' = [audit EXCEPT ![c].finished = saga[c].status]
    BY DEF FinishRun
  <2> QED
    BY <2>1, <2>2 DEF BInv, AuditOK
<1>4. Return(c, "PortError") \/ Return(c, "Ok")
  BY DEF FinishRun, RepoError
<1> QED
  BY <1>1, <1>2, <1>3, <1>4, ReturnOwns DEF Errors

LEMMA CancelOwns ==
  ASSUME BInv, EInv', NEW c \in Calls, Cancel(c)
  PROVE  BInv'
<1>1. ~At(c, "none") /\ saga' = saga /\ runs' = runs /\ AuditOK' /\ Return(c, "Cancelled")
  BY DEF Cancel, At, Suspended, repoVars, BInv, AuditOK
<1> QED
  BY <1>1, ReturnOwns DEF Errors

LEMMA InitBInv == ASSUME Init PROVE BInv
<1>1. EInv
  BY InitEInv
<1>2. RunsOK
  BY DEF Init, RunsOK
<1>3. AuditOK
  BY DEF Init, AuditOK, AuditRecord, Silent, RunStatuses
<1>4. OwnersOK /\ RunsBelongToOneCall
  BY DEF Init, OwnersOK, At, NotCalled, RunsBelongToOneCall, HasRun
<1> QED
  BY <1>1, <1>2, <1>3, <1>4 DEF BInv

LEMMA NextBInv == ASSUME BInv, [Next]_vars PROVE BInv'
<1>0. EInv'
  BY NextEInv DEF BInv
<1>1. ASSUME NEW c \in Calls, Progress(c)
      PROVE  BInv'
  BY <1>0, <1>1, GuardsOwn, GetNodeOwns, FetchAddOwns, SaveRunOwns, SagaStepOwns, ApplyPathOwns,
     SaveNodeOwns, FinishRunOwns DEF Progress
<1>2. CASE Refill
  BY <1>0, <1>2, NobodyMoves DEF Refill, sagaVars, repoVars
<1>3. ASSUME NEW n \in Hosts, NEW v \in Versions, RegisterNode(n, v)
      PROVE  BInv'
  BY <1>0, <1>3, NobodyMoves DEF RegisterNode, sagaVars
<1>4. CASE UNCHANGED vars
  BY <1>0, <1>4, NobodyMoves DEF vars
<1>5. ASSUME NEW c \in Calls, RepeatAttempt(c)
      PROVE  BInv'
  BY <1>0, <1>5, RepeatMoves, NobodyMoves
<1> QED
  BY <1>0, <1>1, <1>2, <1>3, <1>4, <1>5, StartOwns, CancelOwns DEF Next

\* Two calls never share a run id, and a stored run is about the node and the
\* kind of the call that owns it (RunsBelongToOneCall): the counter is ahead of
\* every id that was handed out.
THEOREM RunsAreOwned == Spec => []RunsBelongToOneCall
<1>1. BInv => RunsBelongToOneCall
  BY DEF BInv
<1> QED
  BY <1>1, InitBInv, NextBInv, PTL DEF Spec

\* The types of everything the engine, the saga, the store and the guards keep
\* (TypeOK).
THEOREM EngineTypes == Spec => []TypeOK
<1>1. ASSUME BInv, SlotsAreConserved /\ slots \in 0..MaxDeploys PROVE TypeOK
  BY <1>1 DEF BInv, EInv, StoreOK, SharedOK, CallsOK, RunsOK, AuditOK, TypeOK
<1> QED
  BY <1>1, PermitsConserved, InitBInv, NextBInv, PTL DEF Spec

\* The only steps that write a run are the two saves of its own call.
LEMMA RunsMove ==
  ASSUME [Next]_vars
  PROVE  runs' = runs \/ \E c \in Calls : SaveRun(c) \/ FinishRun(c)
BY DEF Next, Progress, vars, repoVars, engineVars, Refill, RegisterNode, StartDeployment,
   TakeToken, TakeSlot, GetNode, GetSpare, FetchAdd, SagaStep, ApplyPath, SaveNode,
   RepeatAttempt, Cancel

LEMMA VerdictStep ==
  ASSUME BInv, [Next]_vars, NEW id \in DOMAIN runs
  PROVE  /\ id \in DOMAIN runs'
         /\ runs[id].status # "Running" => runs'[id] = runs[id]
<1>1. CASE runs' = runs
  BY <1>1
<1>2. ASSUME NEW c \in Calls, SaveRun(c)
      PROVE  id \in DOMAIN runs' /\ runs'[id] = runs[id]
  <2>1. ~At(c, "none") /\ call[c].pc = "save_run"
    BY <1>2 DEF SaveRun, At
  <2>2. call[c].run \notin DOMAIN runs
    BY <2>1 DEF BInv, OwnersOK, Owns
  <2>3. runs' \in {runs, Upsert(runs, call[c].run, RunOf(c, "Running", 0))}
    BY <1>2 DEF SaveRun
  <2> QED
    BY <2>2, <2>3 DEF Upsert
<1>3. ASSUME NEW c \in Calls, FinishRun(c)
      PROVE  /\ id \in DOMAIN runs'
             /\ runs[id].status # "Running" => runs'[id] = runs[id]
  <2>1. runs[call[c].run].status = "Running" /\ HasRun(c) /\ Writes(c)
    BY <1>3, FinishRunWrites
  <2> QED
    BY <2>1, WritesOwn
<1>4. runs' = runs \/ \E c \in Calls : SaveRun(c) \/ FinishRun(c)
  BY RunsMove
<1> QED
  BY <1>1, <1>2, <1>3, <1>4

\* The stored status of a run moves from Running to its verdict, once, and no run
\* is ever lost (VerdictIsFinal).
THEOREM VerdictsStand == Spec => VerdictIsFinal
<1>1. BInv /\ [Next]_vars =>
        [\A id \in DOMAIN runs :
           /\ id \in DOMAIN runs'
           /\ runs[id].status # "Running" => runs'[id] = runs[id]]_vars
  BY VerdictStep
<1> QED
  BY <1>1, InitBInv, NextBInv, PTL DEF Spec, VerdictIsFinal

-----------------------------------------------------------------------------
(***************************************************************************)
(* The third inductive invariant.  Copy is how the local copy of a call    *)
(* differs from what it read: not before the path is applied, and then not *)
(* when it was read in a terminal state, because no path completes there.  *)
(***************************************************************************)
Unmoved == {"get_spare", "fetch_add", "save_run", "saga"}

Copy(r) ==
  /\ r.pc \in Unmoved => r.node = r.read
  /\ r.pc = "save_node" /\ IsTerminal(r.read.state) => r.node = r.read

CopiesOK == \A c \in Calls : Copy(call[c])

LEMMA ReturnFields ==
  ASSUME CallsOK, NEW c \in Calls, ~At(c, "none"), NEW e, Return(c, e)
  PROVE  /\ call'[c].pc = "returned" /\ call'[c].run = call[c].run /\ call'[c].req = call[c].req
         /\ call'[c].read = call[c].read /\ call'[c].node = call[c].node
         /\ call'[c].result = e
         /\ \A d \in Calls : d # c => call'[d] = call[d]
<1>1. call[c] \in CallRecord /\ call \in [Calls -> {NotCalled} \cup CallRecord]
  BY Called DEF CallsOK
<1> QED
  BY <1>1 DEF Return, CallRecord

LEMMA GotoFields ==
  ASSUME CallsOK, NEW c \in Calls, ~At(c, "none"), NEW p, Goto(c, p)
  PROVE  /\ call'[c].pc = p /\ call'[c].run = call[c].run /\ call'[c].req = call[c].req
         /\ call'[c].read = call[c].read /\ call'[c].node = call[c].node
         /\ call'[c].result = call[c].result
         /\ \A d \in Calls : d # c => call'[d] = call[d]
<1>1. call[c] \in CallRecord /\ call \in [Calls -> {NotCalled} \cup CallRecord]
  BY Called DEF CallsOK
<1> QED
  BY <1>1 DEF Goto, CallRecord

LEMMA OneCopyMoves ==
  ASSUME CopiesOK, NEW c \in Calls, Copy(call'[c]), \A d \in Calls : d # c => call'[d] = call[d]
  PROVE  CopiesOK'
<1>1. \A d \in Calls : Copy(call'[d])
  BY DEF CopiesOK
<1> QED
  BY <1>1 DEF CopiesOK, Copy

LEMMA ReturnCopies ==
  ASSUME CallsOK, CopiesOK, NEW c \in Calls, ~At(c, "none"), NEW e, Return(c, e)
  PROVE  CopiesOK'
<1>1. Copy(call'[c])
  BY ReturnFields DEF Copy, Unmoved
<1> QED
  BY <1>1, ReturnFields, OneCopyMoves

LEMMA GotoCopies ==
  ASSUME CallsOK, CopiesOK, NEW c \in Calls, ~At(c, "none"), NEW p, Goto(c, p),
         \/ p \in {"bulkhead", "get_node", "finish_run"}
         \/ p \in Unmoved /\ call[c].pc \in Unmoved
  PROVE  CopiesOK'
<1>1. Copy(call[c])
  BY DEF CopiesOK
<1>2. Copy(call'[c])
  BY <1>1, GotoFields DEF Copy, Unmoved
<1> QED
  BY <1>2, GotoFields, OneCopyMoves

\* A terminal state has no way out: the only path that completes there is empty.
LEMMA NoPathOutOfTerminal ==
  ASSUME NEW s, IsTerminal(s), NEW kind \in Kinds, NEW status, Completes(s, Path(kind, status))
  PROVE  Len(Path(kind, status)) = 0 /\ status # "Succeeded" /\ StateAfter(s, Path(kind, status)) = s
<1> DEFINE path == Path(kind, status)
<1>1. Len(path) \in 0..3
  BY PathType
<1>2. Legal(s, path, Len(path))
  BY <1>1, WalkedType DEF Completes
<1>3. Len(path) = 0
  <2>1. ASSUME Len(path) # 0 PROVE FALSE
    <3>1. 1 \in 1..Len(path)
      BY <1>1, <2>1
    <3>2. <<s, path[1]>> \in Edges
      BY <1>2, <3>1 DEF Legal, Before, CanTransition
    <3> QED
      BY <3>2 DEF Edges, IsTerminal
  <2> QED
    BY <2>1
<1>4. status # "Succeeded"
  <2>1. Len(SuccessPath(kind)) # 0
    BY DEF SuccessPath, Kinds
  <2> QED
    BY <1>3, <2>1 DEF Path
<1> QED
  BY <1>3, <1>4 DEF StateAfter, Completes

LEMMA ApplyPathCopies ==
  ASSUME EInv, CopiesOK, NEW c \in Calls, ApplyPath(c)
  PROVE  CopiesOK'
<1> DEFINE path == Path(call[c].req.kind, saga[c].status)
           n == NodeAfter(c, path)
<1>0. CallsOK /\ ~At(c, "none") /\ call[c].pc = "saga" /\ call[c] \in CallRecord
  BY Called DEF EInv, ApplyPath, At
<1>1. CASE Return(c, "IllegalTransition")
  BY <1>0, <1>1, ReturnCopies
<1>2. CASE /\ Completes(call[c].node.state, path)
           /\ call' = [call EXCEPT ![c].node = n, ![c].pc = "save_node"]
  <2>1. /\ call'[c].pc = "save_node" /\ call'[c].node = n /\ call'[c].read = call[c].read
        /\ \A d \in Calls : d # c => call'[d] = call[d]
    <3> HIDE DEF n
    <3> QED
      BY <1>0, <1>2 DEF CallsOK, CallRecord
  <2>2. call[c].node = call[c].read /\ call[c].node \in NodeRecord
    BY <1>0, Called DEF CopiesOK, Copy, Unmoved, Local, Loaded
  <2>3. call[c].req.kind \in Kinds
    BY <1>0, EngineAssumption DEF CallRecord, AllRequests
  <2>4. ASSUME IsTerminal(call[c].read.state) PROVE n = call[c].read
    <3>1. saga[c].status # "Succeeded" /\ StateAfter(call[c].node.state, path) = call[c].node.state
      BY <1>2, <2>2, <2>3, <2>4, NoPathOutOfTerminal
    <3>2. n = [state |-> call[c].node.state, version |-> call[c].node.version]
      BY <3>1 DEF NodeAfter
    <3> HIDE DEF n
    <3> QED
      BY <2>2, <3>2 DEF NodeRecord
  <2> HIDE DEF n
  <2>5. Copy(call'[c])
    BY <2>1, <2>4 DEF Copy, Unmoved
  <2> QED
    BY <2>1, <2>5, OneCopyMoves
<1> QED
  BY <1>1, <1>2 DEF ApplyPath

LEMMA NextCopies == ASSUME EInv, CopiesOK, [Next]_vars PROVE CopiesOK'
<1>0. CallsOK
  BY DEF EInv
<1>1. CASE UNCHANGED call
  BY <1>1 DEF CopiesOK, Copy
<1>2. ASSUME NEW c \in Calls, NEW e, Return(c, e), ~At(c, "none") PROVE CopiesOK'
  BY <1>0, <1>2, ReturnCopies
<1>3. ASSUME NEW c \in Calls, NEW q \in Requests, StartDeployment(c, q)
      PROVE  CopiesOK'
  <2>1. call'[c].pc = "start" /\ \A d \in Calls : d # c => call'[d] = call[d]
    BY <1>0, <1>3 DEF StartDeployment, CallsOK
  <2>2. Copy(call'[c])
    BY <2>1 DEF Copy, Unmoved
  <2> QED
    BY <2>1, <2>2, OneCopyMoves
<1>4. ASSUME NEW c \in Calls, TakeToken(c) \/ TakeSlot(c)
      PROVE  CopiesOK'
  <2>1. ~At(c, "none")
    BY <1>4 DEF TakeToken, TakeSlot, At
  <2>2. Return(c, "Throttled") \/ Goto(c, "bulkhead") \/ Goto(c, "get_node")
    BY <1>4 DEF TakeToken, TakeSlot
  <2> QED
    BY <1>0, <1>2, <2>1, <2>2, GotoCopies
<1>5. ASSUME NEW c \in Calls, GetNode(c)
      PROVE  CopiesOK'
  <2>1. ~At(c, "none") /\ call[c] \in CallRecord
    BY <1>0, <1>5, Called DEF GetNode, At
  <2>2. ASSUME NEW p, NEW n, call' = [call EXCEPT ![c].read = n, ![c].node = n, ![c].pc = p]
        PROVE  CopiesOK'
    <3>1. call'[c].read = call'[c].node /\ \A d \in Calls : d # c => call'[d] = call[d]
      BY <1>0, <2>1, <2>2 DEF CallsOK, CallRecord
    <3>2. Copy(call'[c])
      BY <3>1 DEF Copy
    <3> QED
      BY <3>1, <3>2, OneCopyMoves
  <2> QED
    BY <1>2, <1>5, <2>1, <2>2 DEF GetNode, RepoError
<1>6. ASSUME NEW c \in Calls, GetSpare(c)
      PROVE  CopiesOK'
  <2>1. ~At(c, "none") /\ call[c].pc = "get_spare"
    BY <1>6 DEF GetSpare, At
  <2> QED
    BY <1>0, <1>2, <1>6, <2>1, GotoCopies DEF GetSpare, RepoError, Unmoved
<1>7. ASSUME NEW c \in Calls, FetchAdd(c)
      PROVE  CopiesOK'
  <2>1. ~At(c, "none") /\ call[c].pc = "fetch_add" /\ call[c] \in CallRecord
    BY <1>0, <1>7, Called DEF FetchAdd, At
  <2>2. /\ call'[c].node = call[c].node /\ call'[c].read = call[c].read /\ call'[c].pc = "save_run"
        /\ \A d \in Calls : d # c => call'[d] = call[d]
    BY <1>0, <1>7, <2>1 DEF FetchAdd, CallsOK, CallRecord
  <2>3. Copy(call'[c])
    BY <2>1, <2>2 DEF CopiesOK, Copy, Unmoved
  <2> QED
    BY <2>2, <2>3, OneCopyMoves
<1>8. ASSUME NEW c \in Calls, SaveRun(c)
      PROVE  CopiesOK'
  <2>1. ~At(c, "none") /\ call[c].pc = "save_run"
    BY <1>8 DEF SaveRun, At
  <2>2. Return(c, "PortError") \/ Goto(c, "saga")
    BY <1>8 DEF SaveRun, RepoError
  <2> QED
    BY <1>0, <1>2, <2>1, <2>2, GotoCopies DEF Unmoved
<1>9. ASSUME NEW c \in Calls, SaveNode(c) \/ FinishRun(c) \/ Cancel(c)
      PROVE  CopiesOK'
  <2>1. ~At(c, "none")
    BY <1>9 DEF SaveNode, FinishRun, Cancel, At, Suspended
  <2>2. Goto(c, "finish_run") \/ \E e : Return(c, e)
    BY <1>9 DEF SaveNode, FinishRun, Cancel, RepoError
  <2> QED
    BY <1>0, <1>2, <2>1, <2>2, GotoCopies
<1>10. ASSUME NEW c \in Calls, SagaStep(c) PROVE UNCHANGED call
  BY <1>10 DEF SagaStep, engineVars
<1>11. ASSUME NEW c \in Calls, Progress(c) PROVE CopiesOK'
  BY <1>1, <1>4, <1>5, <1>6, <1>7, <1>8, <1>9, <1>10, <1>11, ApplyPathCopies DEF Progress
<1>12. CASE Refill \/ (\E n \in Hosts, v \in Versions : RegisterNode(n, v)) \/ UNCHANGED vars
  BY <1>1, <1>12 DEF Refill, RegisterNode, vars
<1>13. ASSUME NEW c \in Calls, RepeatAttempt(c) PROVE CopiesOK'
  BY <1>1, <1>13, RepeatMoves
<1> QED
  BY <1>3, <1>9, <1>11, <1>12, <1>13 DEF Next

LEMMA InitCopies == Init => CopiesOK
BY DEF Init, CopiesOK, Copy, NotCalled, Unmoved

\* The only steps that write a node are the registration and the save of a copy.
LEMMA TerminalStep ==
  ASSUME EInv, CopiesOK, [Next]_vars, NEW n \in DOMAIN nodes,
         IsTerminal(nodes[n].state), nodes'[n] # nodes[n]
  PROVE  \/ \E v \in Versions : RegisterNode(n, v)
         \/ \E c \in Calls : SaveNode(c) /\ call[c].req.node = n /\ call[c].read # nodes[n]
<1>1. nodes' # nodes
  OBVIOUS
<1>2. (\E c \in Calls : SaveNode(c)) \/ \E m \in Hosts, v \in Versions : RegisterNode(m, v)
  BY <1>1 DEF Next, Progress, vars, repoVars, engineVars, Refill, StartDeployment, TakeToken,
     TakeSlot, GetNode, GetSpare, FetchAdd, SaveRun, SagaStep, ApplyPath, FinishRun,
     RepeatAttempt, Cancel
<1>3. ASSUME NEW m \in Hosts, NEW v \in Versions, RegisterNode(m, v)
      PROVE  m = n
  BY <1>3 DEF RegisterNode, Upsert
<1>4. ASSUME NEW c \in Calls, SaveNode(c)
      PROVE  call[c].req.node = n /\ call[c].read # nodes[n]
  <2>1. nodes' \in {nodes, Upsert(nodes, call[c].req.node, call[c].node)} /\ call[c].pc = "save_node"
    BY <1>4 DEF SaveNode, At
  <2>2. call[c].req.node = n /\ nodes'[n] = call[c].node
    BY <1>1, <2>1 DEF Upsert
  <2>3. Copy(call[c])
    BY DEF CopiesOK
  <2> QED
    BY <2>1, <2>2, <2>3 DEF Copy
<1> QED
  BY <1>2, <1>3, <1>4

\* engine.rs:93, 143, 158: the record of a Failed or Decommissioned node is
\* overwritten only by a registration, or by a call that had read another
\* record: transition_to guards the copy, and no path leaves a terminal state
\* (TerminalLeftOnlyByStaleCopy).
THEOREM TerminalIsLeftByStaleCopies == Spec => TerminalLeftOnlyByStaleCopy
<1>1. EInv /\ CopiesOK /\ [Next]_vars =>
        [\A n \in DOMAIN nodes :
           IsTerminal(nodes[n].state) /\ nodes'[n] # nodes[n] =>
             \/ \E v \in Versions : RegisterNode(n, v)
             \/ \E c \in Calls : SaveNode(c) /\ call[c].req.node = n /\ call[c].read # nodes[n]]_vars
  BY TerminalStep
<1> QED
  BY <1>1, InitEInv, NextEInv, InitCopies, NextCopies, PTL DEF Spec, TerminalLeftOnlyByStaleCopy

-----------------------------------------------------------------------------
(***************************************************************************)
(* The fourth inductive invariant.  Report is what was announced of a call *)
(* and what the store holds by then: RunStarted before the saga is         *)
(* entered, RunFinished only after the verdict and the number of steps of  *)
(* a saga that has returned were saved.  Books (SagaExecutor_proofs) is the   *)
(* rest of it: how many steps such a saga has published.                   *)
(***************************************************************************)
Report(r, s, a, stored) ==
  /\ r.pc \in {"saga", "save_node", "finish_run"} => a.started
  /\ r.pc \in {"save_node", "finish_run"} => s.phase = "returned"
  /\ a.finished # "Running" =>
       /\ r.pc = "returned" /\ r.run # 0 /\ a.started
       /\ s.phase = "returned" /\ s.status = a.finished
       /\ r.run \in DOMAIN stored
       /\ stored[r.run].status = a.finished /\ stored[r.run].steps = s.done

ReportsOK == \A c \in Calls : Report(call[c], saga[c], audit[c], runs)

RInv == BInv /\ Books /\ ReportsOK

\* A step of one call that saves nothing but its own run.
LEMMA OneReportMoves ==
  ASSUME RInv, NEW c \in Calls, Report(call'[c], saga'[c], audit'[c], runs'),
         \A d \in Calls : d # c => call'[d] = call[d] /\ saga'[d] = saga[d] /\ audit'[d] = audit[d],
         runs' = runs \/ (HasRun(c) /\ Writes(c))
  PROVE  ReportsOK'
<1>1. ASSUME NEW d \in Calls PROVE Report(call'[d], saga'[d], audit'[d], runs')
  <2>1. CASE d = c
    BY <2>1
  <2>2. CASE d # c
    <3>1. Report(call[d], saga[d], audit[d], runs)
      BY DEF RInv, ReportsOK
    <3>2. call'[d] = call[d] /\ saga'[d] = saga[d] /\ audit'[d] = audit[d]
      BY <2>2
    <3>3. CASE runs' = runs
      BY <3>1, <3>2, <3>3
    <3>4. CASE HasRun(c) /\ Writes(c) /\ audit[d].finished # "Running"
      <4>1. HasRun(d) /\ call[d].run \in DOMAIN runs
        BY <3>1, <3>4 DEF Report, HasRun, At
      <4>2. call[d].run # call[c].run
        BY <2>2, <3>4, <4>1 DEF RInv, BInv, RunsBelongToOneCall
      <4>3. call[d].run \in DOMAIN runs' /\ runs'[call[d].run] = runs[call[d].run]
        BY <3>4, <4>1, <4>2, WritesOwn DEF RInv
      <4> QED
        BY <3>1, <3>2, <4>3 DEF Report
    <3>5. CASE audit[d].finished = "Running"
      BY <3>1, <3>2, <3>5 DEF Report
    <3> QED
      BY <3>3, <3>4, <3>5
  <2> QED
    BY <2>1, <2>2
<1> QED
  BY <1>1 DEF ReportsOK, Report

\* RunFinished is the last event of a call.
LEMMA NotFinished ==
  ASSUME RInv, NEW c \in Calls, ~At(c, "returned")
  PROVE  audit[c].finished = "Running"
BY DEF RInv, ReportsOK, Report, At

LEMMA ReturnReports ==
  ASSUME RInv, NEW c \in Calls, ~At(c, "none"), NEW e, Return(c, e), ~At(c, "returned"),
         UNCHANGED <<saga, audit>>, runs' = runs \/ (HasRun(c) /\ Writes(c))
  PROVE  ReportsOK'
<1>1. audit[c].finished = "Running"
  BY NotFinished
<1>2. /\ call'[c].pc = "returned"
      /\ \A d \in Calls : d # c => call'[d] = call[d]
  BY ReturnFields DEF RInv, BInv, EInv
<1>3. Report(call'[c], saga'[c], audit'[c], runs')
  BY <1>1, <1>2 DEF Report
<1> QED
  BY <1>2, <1>3, OneReportMoves

LEMMA QuietReports ==
  ASSUME RInv, NEW c \in Calls, NEW r, call' = [call EXCEPT ![c] = r],
         r.pc \in {"start", "bulkhead", "get_node", "get_spare", "fetch_add", "save_run"},
         ~At(c, "returned"), UNCHANGED <<saga, audit, runs>>
  PROVE  ReportsOK'
<1>1. audit[c].finished = "Running"
  BY NotFinished
<1>2. call'[c] = r /\ \A d \in Calls : d # c => call'[d] = call[d]
  BY DEF RInv, BInv, EInv, CallsOK
<1>3. Report(call'[c], saga'[c], audit'[c], runs')
  BY <1>1, <1>2 DEF Report
<1> QED
  BY <1>2, <1>3, OneReportMoves

LEMMA SaveRunReports ==
  ASSUME RInv, NEW c \in Calls, SaveRun(c)
  PROVE  ReportsOK'
<1>1. ~At(c, "none") /\ ~At(c, "returned") /\ call[c].pc = "save_run"
  BY DEF SaveRun, At
<1>2. HasRun(c)
  BY <1>1, Called DEF RInv, BInv, EInv, Local, Numbered, HasRun
<1>3. Writes(c)
  BY DEF SaveRun, Writes, RunStatuses
<1>4. CASE RepoError(c) /\ UNCHANGED <<sagaVars, audit>>
  BY <1>1, <1>2, <1>3, <1>4, ReturnReports DEF RepoError, sagaVars
<1>5. CASE /\ audit' = [audit EXCEPT ![c].started = TRUE]
           /\ Begin(c, JobOf(c)) /\ Goto(c, "saga")
  <2>1. /\ call'[c].pc = "saga" /\ \A d \in Calls : d # c => call'[d] = call[d]
    BY <1>1, <1>5, GotoFields DEF RInv, BInv, EInv
  <2>2. \A d \in Calls : d # c => saga'[d] = saga[d]
    BY <1>5 DEF Begin, RInv, BInv, EInv, SagaTypeOK
  <2>3. /\ audit'[c].started /\ audit'[c].finished = "Running"
        /\ \A d \in Calls : d # c => audit'[d] = audit[d]
    BY <1>1, <1>5, NotFinished DEF RInv, BInv, AuditOK, AuditRecord
  <2>4. Report(call'[c], saga'[c], audit'[c], runs')
    BY <2>1, <2>3 DEF Report
  <2> QED
    BY <1>2, <1>3, <2>1, <2>2, <2>3, <2>4, OneReportMoves
<1> QED
  BY <1>4, <1>5 DEF SaveRun

LEMMA SagaStepReports ==
  ASSUME RInv, NEW c \in Calls, SagaStep(c)
  PROVE  ReportsOK'
<1>1. UNCHANGED <<runs, call, audit>> /\ RunStep(c) /\ call[c].pc = "saga"
  BY DEF SagaStep, engineVars, At
<1>2. \A d \in Calls : d # c => saga'[d] = saga[d]
  BY <1>1 DEF RunStep, StepSucceeds, StepFails, UndoSucceeds, UndoFails, RInv, BInv, EInv, SagaTypeOK
<1>3. Report(call[c], saga[c], audit[c], runs)
  BY DEF RInv, ReportsOK
<1>4. Report(call'[c], saga'[c], audit'[c], runs')
  BY <1>1, <1>3 DEF Report
<1> QED
  BY <1>1, <1>2, <1>4, OneReportMoves

LEMMA ApplyPathReports ==
  ASSUME RInv, NEW c \in Calls, ApplyPath(c)
  PROVE  ReportsOK'
<1> DEFINE path == Path(call[c].req.kind, saga[c].status)
           m == Moves(call[c].node.state, path)
           n == NodeAfter(c, path)
<1>1. /\ ~At(c, "none") /\ call[c].pc = "saga" /\ runs' = runs /\ saga' = saga
      /\ saga[c].phase = "returned" /\ audit' = [audit EXCEPT ![c].moves = m]
  BY DEF ApplyPath, At, sagaVars, repoVars, InPhase
<1>2. Report(call[c], saga[c], audit[c], runs)
  BY DEF RInv, ReportsOK
<1> HIDE DEF m, n
<1>3. /\ audit'[c].started = audit[c].started /\ audit'[c].finished = audit[c].finished
      /\ \A d \in Calls : d # c => audit'[d] = audit[d]
  BY <1>1 DEF RInv, BInv, AuditOK, AuditRecord
<1>4. call'[c].pc \in {"returned", "save_node"} /\ \A d \in Calls : d # c => call'[d] = call[d]
  <2>1. CASE Return(c, "IllegalTransition")
    BY <1>1, <2>1, ReturnFields DEF RInv, BInv, EInv
  <2>2. CASE call' = [call EXCEPT ![c].node = n, ![c].pc = "save_node"]
    <3>1. call[c] \in CallRecord /\ call \in [Calls -> {NotCalled} \cup CallRecord]
      BY <1>1, Called DEF RInv, BInv, EInv, CallsOK
    <3> QED
      BY <2>2, <3>1 DEF CallRecord
  <2> QED
    BY <2>1, <2>2 DEF ApplyPath, n
<1>5. Report(call'[c], saga'[c], audit'[c], runs')
  BY <1>1, <1>2, <1>3, <1>4 DEF Report
<1> QED
  BY <1>1, <1>3, <1>4, <1>5, OneReportMoves

LEMMA SaveNodeReports ==
  ASSUME RInv, NEW c \in Calls, SaveNode(c)
  PROVE  ReportsOK'
<1>1. /\ ~At(c, "none") /\ ~At(c, "returned") /\ call[c].pc = "save_node"
      /\ UNCHANGED <<saga, audit, runs>>
  BY DEF SaveNode, At, sagaVars
<1>2. Report(call[c], saga[c], audit[c], runs)
  BY DEF RInv, ReportsOK
<1>3. CASE RepoError(c)
  BY <1>1, <1>3, ReturnReports DEF RepoError
<1>4. CASE Goto(c, "finish_run")
  <2>1. call'[c].pc = "finish_run" /\ \A d \in Calls : d # c => call'[d] = call[d]
    BY <1>1, <1>4, GotoFields DEF RInv, BInv, EInv
  <2>2. Report(call'[c], saga'[c], audit'[c], runs')
    BY <1>1, <1>2, <2>1 DEF Report
  <2> QED
    BY <1>1, <2>1, <2>2, OneReportMoves
<1> QED
  BY <1>3, <1>4 DEF SaveNode

\* The save comes before the event.
LEMMA FinishRunReports ==
  ASSUME RInv, NEW c \in Calls, FinishRun(c)
  PROVE  ReportsOK'
<1>1. ~At(c, "none") /\ ~At(c, "returned") /\ call[c].pc = "finish_run" /\ saga' = saga
  BY DEF FinishRun, At, sagaVars
<1>2. Report(call[c], saga[c], audit[c], runs)
  BY DEF RInv, ReportsOK
<1>3. HasRun(c) /\ Writes(c)
  BY FinishRunWrites DEF RInv
<1>4. CASE RepoError(c) /\ UNCHANGED audit
  BY <1>1, <1>3, <1>4, ReturnReports DEF RepoError
<1>5. CASE /\ runs' = Upsert(runs, call[c].run, RunOf(c, saga[c].status, saga[c].done))
           /\ audit' = [audit EXCEPT ![c].finished = saga[c].status]
           /\ Return(c, "Ok")
  <2>1. /\ call'[c].pc = "returned" /\ call'[c].run = call[c].run
        /\ \A d \in Calls : d # c => call'[d] = call[d]
    BY <1>1, <1>5, ReturnFields DEF RInv, BInv, EInv
  <2>2. /\ audit'[c].started = audit[c].started /\ audit'[c].finished = saga[c].status
        /\ \A d \in Calls : d # c => audit'[d] = audit[d]
    BY <1>5 DEF RInv, BInv, AuditOK, AuditRecord
  <2>3. /\ call[c].run \in DOMAIN runs'
        /\ runs'[call[c].run].status = saga[c].status /\ runs'[call[c].run].steps = saga[c].done
    BY <1>5 DEF Upsert, RunOf
  <2>4. Report(call'[c], saga'[c], audit'[c], runs')
    BY <1>1, <1>2, <1>3, <2>1, <2>2, <2>3 DEF Report, HasRun
  <2> QED
    BY <1>1, <1>3, <2>1, <2>2, <2>4, OneReportMoves
<1> QED
  BY <1>4, <1>5 DEF FinishRun

LEMMA GuardsReport ==
  ASSUME RInv, NEW c \in Calls,
         \/ TakeToken(c) \/ TakeSlot(c) \/ GetNode(c) \/ GetSpare(c) \/ FetchAdd(c)
         \/ \E q \in Requests : StartDeployment(c, q)
  PROVE  ReportsOK'
<1>1. ~At(c, "returned") /\ UNCHANGED <<saga, audit, runs>>
  BY DEF TakeToken, TakeSlot, GetNode, GetSpare, FetchAdd, StartDeployment, At, sagaVars, repoVars
<1>2. (\E q \in Requests : StartDeployment(c, q)) \/ (call[c] \in CallRecord /\ ~At(c, "none"))
  BY Called DEF TakeToken, TakeSlot, GetNode, GetSpare, FetchAdd, At, RInv, BInv, EInv
<1>3. \/ ~At(c, "none") /\ \E e : Return(c, e)
      \/ \E r : /\ call' = [call EXCEPT ![c] = r]
                /\ r.pc \in {"start", "bulkhead", "get_node", "get_spare", "fetch_add", "save_run"}
  <2>0. call \in [Calls -> {NotCalled} \cup CallRecord]
    BY DEF RInv, BInv, EInv, CallsOK
  <2>1. CASE \E q \in Requests : StartDeployment(c, q)
    <3>1. PICK q \in Requests : StartDeployment(c, q)
      BY <2>1
    <3> DEFINE r == [pc |-> "start", req |-> q, read |-> NoNode, node |-> NoNode, run |-> 0,
                     result |-> "pending"]
    <3>2. call' = [call EXCEPT ![c] = r] /\ r.pc = "start"
      BY <3>1 DEF StartDeployment
    <3> QED
      BY <3>2
  <2>2. ASSUME NEW p \in {"bulkhead", "get_node", "fetch_add"}, Goto(c, p), call[c] \in CallRecord
        PROVE  \E r : call' = [call EXCEPT ![c] = r] /\ r.pc = p
    <3>1. [call[c] EXCEPT !.pc = p].pc = p
      BY <2>2 DEF CallRecord
    <3> QED
      BY <2>2, <3>1 DEF Goto
  <2>3. ASSUME NEW p, NEW n, call' = [call EXCEPT ![c].read = n, ![c].node = n, ![c].pc = p],
               call[c] \in CallRecord
        PROVE  \E r : call' = [call EXCEPT ![c] = r] /\ r.pc = p
    <3>1. [call[c] EXCEPT !.read = n, !.node = n, !.pc = p].pc = p
      BY <2>3 DEF CallRecord
    <3> QED
      BY <2>0, <2>3, <3>1
  <2>4. ASSUME FetchAdd(c), call[c] \in CallRecord
        PROVE  \E r : call' = [call EXCEPT ![c] = r] /\ r.pc = "save_run"
    <3>1. [call[c] EXCEPT !.run = nextRun, !.pc = "save_run"].pc = "save_run"
      BY <2>4 DEF CallRecord
    <3> QED
      BY <2>0, <2>4, <3>1 DEF FetchAdd
  <2>5. ASSUME GetNode(c), call[c] \in CallRecord
        PROVE  \/ \E e : Return(c, e)
               \/ \E p \in {"get_spare", "fetch_add"} : \E n :
                    call' = [call EXCEPT ![c].read = n, ![c].node = n, ![c].pc = p]
    BY <2>5 DEF GetNode, RepoError
  <2> QED
    BY <1>2, <2>1, <2>2, <2>3, <2>4, <2>5 DEF TakeToken, TakeSlot, GetSpare, RepoError
<1> QED
  BY <1>1, <1>3, ReturnReports, QuietReports

\* Only the run of a deployment moves its saga.
LEMMA SagasRest ==
  ASSUME [Next]_vars
  PROVE  UNCHANGED <<saga, trail>> \/ \E c \in Calls : SaveRun(c) \/ SagaStep(c)
<1>1. ASSUME NEW c \in Calls, Progress(c)
      PROVE  UNCHANGED <<saga, trail>> \/ SaveRun(c) \/ SagaStep(c)
  BY <1>1 DEF Progress, sagaVars, TakeToken, TakeSlot, GetNode, GetSpare, FetchAdd, ApplyPath,
     SaveNode, FinishRun
<1>2. ASSUME NEW c \in Calls, (\E q \in Requests : StartDeployment(c, q)) \/ RepeatAttempt(c) \/ Cancel(c)
      PROVE  UNCHANGED <<saga, trail>>
  BY <1>2 DEF StartDeployment, RepeatAttempt, Cancel, sagaVars
<1>3. ASSUME Refill \/ (\E n \in Hosts, v \in Versions : RegisterNode(n, v)) \/ UNCHANGED vars
      PROVE  UNCHANGED <<saga, trail>>
  BY <1>3 DEF Refill, RegisterNode, vars, sagaVars
<1> QED
  BY <1>1, <1>2, <1>3 DEF Next

LEMMA NextRInv == ASSUME RInv, [Next]_vars PROVE RInv'
<1>1. BInv'
  BY NextBInv DEF RInv
<1>2. Books'
  <2>1. SagaTypeOK /\ Books
    BY DEF RInv, BInv, EInv
  <2>2. ASSUME NEW c \in Calls, SaveRun(c) PROVE Books'
    <3>1. At(c, "save_run") /\ EInv
      BY <2>2 DEF SaveRun, RInv, BInv
    <3>2. (UNCHANGED sagaVars) \/ Begin(c, JobOf(c))
      BY <2>2 DEF SaveRun
    <3> QED
      BY <2>1, <3>1, <3>2, JobOK, BeginBooks DEF sagaVars, Books
  <2>3. ASSUME NEW c \in Calls, SagaStep(c) PROVE Books'
    BY <2>1, <2>3, RunStepBooks DEF SagaStep
  <2>4. CASE UNCHANGED <<saga, trail>>
    BY <2>1, <2>4 DEF Books
  <2>5. UNCHANGED <<saga, trail>> \/ \E c \in Calls : SaveRun(c) \/ SagaStep(c)
    BY SagasRest
  <2> QED
    BY <2>2, <2>3, <2>4, <2>5
<1>3. ReportsOK'
  <2>1. ASSUME NEW c \in Calls, Cancel(c) PROVE ReportsOK'
    <3>1. /\ Return(c, "Cancelled") /\ ~At(c, "none") /\ ~At(c, "returned")
          /\ UNCHANGED <<saga, audit, runs>>
      BY <2>1 DEF Cancel, At, Suspended, repoVars
    <3> QED
      BY <3>1, ReturnReports
  <2>2. CASE UNCHANGED <<saga, audit, runs, call>>
    BY <2>2 DEF RInv, ReportsOK, Report
  <2>3. CASE Refill \/ (\E n \in Hosts, v \in Versions : RegisterNode(n, v)) \/ UNCHANGED vars
    BY <2>2, <2>3 DEF Refill, RegisterNode, vars, sagaVars, repoVars
  <2>4. ASSUME NEW c \in Calls, RepeatAttempt(c) PROVE ReportsOK'
    BY <2>2, <2>4, RepeatMoves
  <2> QED
    BY <2>1, <2>3, <2>4, GuardsReport, SaveRunReports, SagaStepReports, ApplyPathReports,
       SaveNodeReports, FinishRunReports DEF Next, Progress
<1> QED
  BY <1>1, <1>2, <1>3 DEF RInv

LEMMA InitRInv == Init => RInv
<1> SUFFICES ASSUME Init PROVE RInv
  OBVIOUS
<1>1. BInv /\ Books
  BY InitBInv, InitBooks DEF Init
<1>2. ReportsOK
  BY DEF Init, ReportsOK, Report, NotCalled, Silent
<1> QED
  BY <1>1, <1>2 DEF RInv

\* By the shape of its trail a saga that has returned has published as many
\* completions as it counts.
LEMMA PublishedSteps ==
  ASSUME NEW s, Busy(s), NEW t \in Seq(Event), Shape(s, t)
  PROVE  Cardinality({i \in DOMAIN t : t[i].type = "StepCompleted"}) = s.done
<1>1. s.done \in Nat /\ Len(t) \in Nat /\ DOMAIN t = 1..Len(t) /\ s.done <= Len(t)
  BY PlanFacts DEF Shape
<1>0. \A a : Completed(a).type = "StepCompleted" /\ Compensated(a).type = "StepCompensated"
  BY DEF Completed, Compensated
<1>2. \A i \in 1..s.done : i \in DOMAIN t /\ t[i].type = "StepCompleted"
  BY <1>0, <1>1 DEF Shape
<1>3. \A i \in (s.done + 1)..Len(t) : t[i].type = "StepCompensated"
  BY <1>0 DEF Shape
<1>4. \A i \in DOMAIN t : i \in 1..s.done \/ i \in (s.done + 1)..Len(t)
  BY <1>1
<1>5. {i \in DOMAIN t : t[i].type = "StepCompleted"} = 1..s.done
  BY <1>2, <1>3, <1>4
<1>6. Cardinality(1..s.done) = s.done
  BY <1>1, FS_Interval
<1> QED
  BY <1>5, <1>6

\* engine.rs:160-168: a subscriber who sees RunFinished finds the run in the
\* store, with that status and with exactly the steps whose completion was
\* published, whatever failed, hung up or ran meanwhile (FinishedRunIsStored).
THEOREM FinishedRunsAreStored == Spec => []FinishedRunIsStored
<1>1. ASSUME RInv PROVE FinishedRunIsStored
  <2> SUFFICES ASSUME NEW c \in Calls, audit[c].finished # "Running"
               PROVE  /\ audit[c].started
                      /\ call[c].run \in DOMAIN runs
                      /\ runs[call[c].run].status = audit[c].finished
                      /\ runs[call[c].run].steps =
                           Cardinality({i \in DOMAIN trail[c] : trail[c][i].type = "StepCompleted"})
    BY DEF FinishedRunIsStored
  <2>1. Report(call[c], saga[c], audit[c], runs)
    BY <1>1 DEF RInv, ReportsOK
  <2>2. saga[c].phase # "idle"
    BY <2>1 DEF Report
  <2>3. Busy(saga[c]) /\ Shape(saga[c], trail[c]) /\ trail[c] \in Seq(Event)
    BY <1>1, <2>2, BusyCall DEF RInv, BInv, EInv, Busy, Books, Account, SagaTypeOK
  <2> QED
    BY <2>1, <2>3, PublishedSteps DEF Report
<1> QED
  BY <1>1, InitRInv, NextRInv, PTL DEF Spec

\* engine.rs:118-121: the sagas the engine enters keep their promises although
\* their callers hang up in the middle of an agent call: the trails are in order
\* and the verdicts are true of them (UndoneInReverse, StatusMatchesTrail).
THEOREM EngineKeepsTrails == Spec => [](UndoneInReverse /\ StatusMatchesTrail)
<1>1. RInv => UndoneInReverse /\ StatusMatchesTrail
  BY BooksGiveOrder, BooksGiveVerdict DEF RInv, BInv, EInv
<1> QED
  BY <1>1, InitRInv, NextRInv, PTL DEF Spec

\* saga.rs:177-182: the sagas the engine enters keep the contract of the executor
\* too: a deployment that is turned away, refused or dropped is a stutter of it,
\* and none is entered twice.
THEOREM EngineMeetsContract == Spec => Contract!Spec
<1>1. Init => Contract!Init
  BY ContractInit DEF Init
<1>2. RInv /\ [Next]_vars => [Contract!Next]_Seen
  <2> SUFFICES ASSUME RInv, [Next]_vars PROVE [Contract!Next]_Seen
    OBVIOUS
  <2>1. EInv /\ SagaTypeOK /\ Books
    BY DEF RInv, BInv, EInv
  <2>2. CASE UNCHANGED <<saga, trail>>
    BY <2>2 DEF Seen, ContractView, Undone, Has, Plan, InPhase
  <2>3. ASSUME NEW c \in Calls, SaveRun(c), ~UNCHANGED <<saga, trail>>
        PROVE  Contract!Next
    <3>1. At(c, "save_run") /\ Begin(c, JobOf(c))
      BY <2>3 DEF SaveRun, sagaVars
    <3>2. JobOf(c) \in Jobs
      BY <2>1, <3>1, JobOK
    <3> QED
      BY <2>1, <3>1, <3>2, ContractBegin DEF Contract!Next
  <2>4. ASSUME NEW c \in Calls, SagaStep(c)
        PROVE  Contract!Next \/ UNCHANGED Seen
    BY <2>1, <2>4, ContractRunStep DEF Contract!Next, SagaStep
  <2>5. UNCHANGED <<saga, trail>> \/ \E c \in Calls : SaveRun(c) \/ SagaStep(c)
    BY SagasRest
  <2> QED
    BY <2>2, <2>3, <2>4, <2>5
<1> QED
  BY <1>1, <1>2, InitRInv, NextRInv, PTL DEF Spec, Contract!Spec, Seen

-----------------------------------------------------------------------------
(***************************************************************************)
(* The stored runs of one process as a ledger: an entry for every id.      *)
(***************************************************************************)
Entries == {[run |-> id, status |-> runs[id].status] : id \in DOMAIN runs}

RunBook == INSTANCE RunLedger WITH ledger <- Entries, volatile <- FALSE

\* The first save of a run opens an entry, also when it returns an error.
LEMMA SaveRunOpens ==
  ASSUME BInv, NEW c \in Calls, SaveRun(c)
  PROVE  Entries' = Entries \/ RunBook!Open
<1> DEFINE id == call[c].run
           v == RunOf(c, "Running", 0)
           e == [run |-> id, status |-> "Running"]
<1>1. id \notin DOMAIN runs
  BY DEF SaveRun, At, BInv, OwnersOK, Owns
<1>2. CASE runs' = runs
  BY <1>2 DEF Entries
<1>3. CASE runs' = Upsert(runs, id, v)
  <2>1. v.status = "Running"
    BY DEF RunOf
  <2> HIDE DEF v, id
  <2>2. /\ DOMAIN runs' = DOMAIN runs \cup {id} /\ runs'[id] = v
        /\ \A x \in DOMAIN runs : runs'[x] = runs[x]
    BY <1>1, <1>3 DEF Upsert
  <2>3. Entries' = Entries \cup {e}
    <3>1. Entries' = {[run |-> x, status |-> runs'[x].status] : x \in DOMAIN runs}
                     \cup {[run |-> id, status |-> runs'[id].status]}
      BY <2>2 DEF Entries
    <3>2. {[run |-> x, status |-> runs'[x].status] : x \in DOMAIN runs} = Entries
      BY <2>2 DEF Entries
    <3> QED
      BY <2>1, <2>2, <3>1, <3>2
  <2>4. id \in {f.run : f \in Entries'} \ {f.run : f \in Entries}
    <3>1. e \in Entries' /\ e.run = id
      BY <2>3
    <3>2. \A f \in Entries : f.run \in DOMAIN runs
      BY DEF Entries
    <3> QED
      BY <1>1, <3>1, <3>2
  <2> QED
    BY <2>3, <2>4 DEF RunBook!Open
<1>4. runs' \in {runs, Upsert(runs, id, v)}
  BY DEF SaveRun
<1> QED
  BY <1>2, <1>3, <1>4

\* The second save closes the entry of its own run with a verdict.
LEMMA FinishRunCloses ==
  ASSUME RInv, NEW c \in Calls, FinishRun(c)
  PROVE  Entries' = Entries \/ RunBook!Close
<1> DEFINE id == call[c].run
           w == saga[c].status
           v == RunOf(c, w, saga[c].done)
           e == [run |-> id, status |-> "Running"]
           f == [run |-> id, status |-> w]
<1>1. /\ call[c].pc = "finish_run" /\ BInv
      /\ Owns(call[c], saga[c].phase, runs) /\ Report(call[c], saga[c], audit[c], runs)
  BY DEF FinishRun, At, RInv, BInv, OwnersOK, ReportsOK
<1>2. id \in DOMAIN runs /\ runs[id].status = "Running" /\ saga[c].phase = "returned"
  BY <1>1 DEF Owns, Report
<1>3. w \in Verdicts
  BY <1>1, <1>2, BusyCall DEF BInv, EInv, WithinPlan, SagaRecord, Verdicts
<1>4. CASE runs' = runs
  BY <1>4 DEF Entries
<1>5. CASE runs' = Upsert(runs, id, v)
  <2>1. v.status = w
    BY DEF RunOf
  <2> HIDE DEF v, id, w
  <2>2. /\ DOMAIN runs' = DOMAIN runs /\ runs'[id] = v
        /\ \A x \in DOMAIN runs : x # id => runs'[x] = runs[x]
    BY <1>2, <1>5 DEF Upsert
  <2>3. Entries' = (Entries \ {e}) \cup {f}
    <3>1. Entries' = {[run |-> x, status |-> runs'[x].status] : x \in DOMAIN runs \ {id}}
                     \cup {[run |-> id, status |-> runs'[id].status]}
      BY <1>2, <2>2 DEF Entries
    <3>2. {[run |-> x, status |-> runs'[x].status] : x \in DOMAIN runs \ {id}}
            = {[run |-> x, status |-> runs[x].status] : x \in DOMAIN runs \ {id}}
      BY <2>2
    <3>3. {[run |-> x, status |-> runs[x].status] : x \in DOMAIN runs \ {id}} = Entries \ {e}
      BY <1>2 DEF Entries
    <3> QED
      BY <2>1, <2>2, <3>1, <3>2, <3>3
  <2>4. e \in Entries /\ e.status = "Running" /\ [e EXCEPT !.status = w] = f
    BY <1>2 DEF Entries
  <2>5. w \in RunBook!Verdicts
    BY <1>3 DEF RunBook!Verdicts, RunBook!RunStatuses, Verdicts, RunStatuses
  <2> QED
    BY <2>3, <2>4, <2>5 DEF RunBook!Close
<1>6. runs' \in {runs, Upsert(runs, id, v)}
  BY DEF FinishRun
<1> QED
  BY <1>4, <1>5, <1>6

\* ports.rs:46-61: whatever fails, hangs up or runs meanwhile, the store of runs
\* keeps what a ledger promises.  A run has one entry, opened by the first save
\* and closed by the second, and no call writes another call's: a repository
\* error after the write, or a client that hangs up, leaves it open for good.
THEOREM EngineKeepsTheLedger == Spec => RunBook!Spec
<1>1. Init => RunBook!Init
  <2> SUFFICES ASSUME Init PROVE RunBook!Init
    OBVIOUS
  <2>1. runs = << >>
    BY DEF Init
  <2> QED
    BY <2>1 DEF RunBook!Init, Entries
<1>2. ASSUME RInv, [Next]_vars
      PROVE  [RunBook!Next]_<<Entries, FALSE>>
  <2>1. CASE runs' = runs
    BY <2>1 DEF Entries
  <2>2. ASSUME NEW c \in Calls, SaveRun(c) PROVE Entries' = Entries \/ RunBook!Open
    BY <1>2, <2>2, SaveRunOpens DEF RInv
  <2>3. ASSUME NEW c \in Calls, FinishRun(c) PROVE Entries' = Entries \/ RunBook!Close
    BY <1>2, <2>3, FinishRunCloses
  <2>4. runs' = runs \/ \E c \in Calls : SaveRun(c) \/ FinishRun(c)
    BY <1>2, RunsMove
  <2> QED
    BY <2>1, <2>2, <2>3, <2>4 DEF RunBook!Next
<1> QED
  BY <1>1, <1>2, InitRInv, NextRInv, PTL DEF Spec, RunBook!Spec

-----------------------------------------------------------------------------
(***************************************************************************)
(* The fifth inductive invariant.  Deal is how the request of a call, its  *)
(* copy of the node and the job of its saga hang together: the job is what *)
(* was asked for, and the copy of a call that went on after a saga that    *)
(* Succeeded is in the last state of the path, on the version of the job.  *)
(***************************************************************************)
Entering == {"start", "bulkhead", "get_node", "get_spare", "fetch_add", "save_run"}

Concluded(r) == r.pc \in {"save_node", "finish_run"} \/ r.result = "Ok"

Final(kind) == IF kind \in {"Provision", "Upgrade"} THEN "Active" ELSE "Decommissioned"

AsAsked(r, s) ==
  /\ s.job.host = r.req.node /\ s.job.kind = r.req.kind /\ s.job.spare = r.req.spare
  /\ r.pc = "saga" => s.job.version = IF r.req.kind = "Upgrade" THEN r.req.target
                                                                ELSE r.node.version
  /\ Concluded(r) /\ s.status = "Succeeded" =>
       /\ r.node.state = Final(r.req.kind)
       /\ r.req.kind \in {"Provision", "Upgrade"} => r.node.version = s.job.version

Deal(r, s) ==
  /\ r.pc \in Entering \cup {"none"} => s.phase = "idle"
  /\ r.pc \notin {"none", "returned"} => r.result = "pending"
  /\ r.pc = "returned" /\ r.result = "Ok" => s.phase # "idle"
  /\ s.phase # "idle" => r.pc # "none" /\ AsAsked(r, s)

DealsOK == \A c \in Calls : Deal(call[c], saga[c])

LEMMA OneDealMoves ==
  ASSUME DealsOK, NEW c \in Calls, Deal(call'[c], saga'[c]),
         \A d \in Calls : d # c => call'[d] = call[d] /\ saga'[d] = saga[d]
  PROVE  DealsOK'
<1>1. \A d \in Calls : Deal(call'[d], saga'[d])
  BY DEF DealsOK
<1> QED
  BY <1>1 DEF DealsOK, Deal, AsAsked

\* A call that fails concludes nothing.
LEMMA ReturnDeals ==
  ASSUME EInv, DealsOK, NEW c \in Calls, ~At(c, "none"), NEW e \in Errors, Return(c, e), saga' = saga
  PROVE  DealsOK'
<1>1. /\ call'[c].pc = "returned" /\ call'[c].req = call[c].req /\ call'[c].node = call[c].node
      /\ call'[c].result = e /\ \A d \in Calls : d # c => call'[d] = call[d]
  BY ReturnFields DEF EInv
<1>2. Deal(call[c], saga[c])
  BY DEF DealsOK
<1>3. ~Concluded(call'[c])
  BY <1>1 DEF Concluded, Errors
<1>4. Deal(call'[c], saga'[c])
  BY <1>1, <1>2, <1>3 DEF Deal, AsAsked, Entering, Errors
<1> QED
  BY <1>1, <1>4, OneDealMoves

\* A call in front of its saga has no job yet.
LEMMA EnteringDeals ==
  ASSUME EInv, DealsOK, NEW c \in Calls, call[c].pc \in Entering \cup {"none"}, saga' = saga,
         call'[c].pc \in Entering, call'[c].result = "pending",
         \A d \in Calls : d # c => call'[d] = call[d]
  PROVE  DealsOK'
<1>1. saga[c].phase = "idle"
  BY DEF DealsOK, Deal
<1>2. Deal(call'[c], saga'[c])
  BY <1>1 DEF Deal, Entering
<1> QED
  BY <1>2, OneDealMoves

LEMMA GuardsDeal ==
  ASSUME EInv, DealsOK, NEW c \in Calls,
         \/ TakeToken(c) \/ TakeSlot(c) \/ GetNode(c) \/ GetSpare(c) \/ FetchAdd(c)
         \/ \E q \in Requests : StartDeployment(c, q)
  PROVE  DealsOK'
<1>1. saga' = saga /\ call[c].pc \in Entering \cup {"none"}
  BY DEF TakeToken, TakeSlot, GetNode, GetSpare, FetchAdd, StartDeployment, At, sagaVars, Entering
<1>2. CASE \E q \in Requests : StartDeployment(c, q)
  <2>1. /\ call'[c].pc = "start" /\ call'[c].result = "pending"
        /\ \A d \in Calls : d # c => call'[d] = call[d]
    BY <1>2 DEF StartDeployment, EInv, CallsOK
  <2> QED
    BY <1>1, <2>1, EnteringDeals DEF Entering
<1>3. CASE TakeToken(c) \/ TakeSlot(c) \/ GetNode(c) \/ GetSpare(c) \/ FetchAdd(c)
  <2>1. ~At(c, "none") /\ call[c].result = "pending"
    <3>1. ~At(c, "none") /\ call[c].pc # "returned"
      BY <1>3 DEF TakeToken, TakeSlot, GetNode, GetSpare, FetchAdd, At
    <3> QED
      BY <3>1 DEF DealsOK, Deal, At
  <2>2. CASE \E e \in Errors : Return(c, e)
    BY <1>1, <2>1, <2>2, ReturnDeals
  <2>3. CASE \E p \in Entering : Goto(c, p)
    <3>1. PICK p \in Entering : Goto(c, p)
      BY <2>3
    <3>2. call'[c].pc = p /\ call'[c].result = "pending" /\ \A d \in Calls : d # c => call'[d] = call[d]
      BY <2>1, <3>1, GotoFields DEF EInv
    <3> QED
      BY <1>1, <3>2, EnteringDeals
  <2>4. CASE \E n : \E p \in Entering : call' = [call EXCEPT ![c].read = n, ![c].node = n, ![c].pc = p]
    <3>1. PICK n, p : p \in Entering /\ call' = [call EXCEPT ![c].read = n, ![c].node = n, ![c].pc = p]
      BY <2>4
    <3>2. call[c] \in CallRecord /\ call \in [Calls -> {NotCalled} \cup CallRecord]
      BY <2>1, Called DEF EInv, CallsOK
    <3>3. call'[c].pc = p /\ call'[c].result = "pending" /\ \A d \in Calls : d # c => call'[d] = call[d]
      BY <2>1, <3>1, <3>2 DEF CallRecord
    <3> QED
      BY <1>1, <3>1, <3>3, EnteringDeals
  <2>5. CASE FetchAdd(c)
    <3>1. call[c] \in CallRecord /\ call \in [Calls -> {NotCalled} \cup CallRecord]
      BY <2>1, Called DEF EInv, CallsOK
    <3>2. call'[c].pc = "save_run" /\ call'[c].result = "pending"
          /\ \A d \in Calls : d # c => call'[d] = call[d]
      BY <2>1, <2>5, <3>1 DEF FetchAdd, CallRecord
    <3> QED
      BY <1>1, <3>2, EnteringDeals DEF Entering
  <2>6. GetNode(c) => \/ \E e \in Errors : Return(c, e)
                      \/ \E n : \E p \in Entering :
                           call' = [call EXCEPT ![c].read = n, ![c].node = n, ![c].pc = p]
    BY DEF GetNode, RepoError, Errors, Entering
  <2>7. TakeToken(c) \/ TakeSlot(c) \/ GetSpare(c) =>
          (\E e \in Errors : Return(c, e)) \/ (\E p \in Entering : Goto(c, p))
    BY DEF TakeToken, TakeSlot, GetSpare, RepoError, Errors, Entering
  <2> QED
    BY <1>3, <2>2, <2>3, <2>4, <2>5, <2>6, <2>7
<1> QED
  BY <1>2, <1>3

\* The saga is entered with what was asked for.
LEMMA SaveRunDeals ==
  ASSUME EInv, DealsOK, NEW c \in Calls, SaveRun(c)
  PROVE  DealsOK'
<1>1. ~At(c, "none") /\ call[c].pc = "save_run"
  BY DEF SaveRun, At
<1>2. CASE RepoError(c) /\ UNCHANGED sagaVars
  BY <1>1, <1>2, ReturnDeals DEF RepoError, Errors, sagaVars
<1>3. CASE Begin(c, JobOf(c)) /\ Goto(c, "saga")
  <2>1. /\ call'[c].pc = "saga" /\ call'[c].req = call[c].req /\ call'[c].node = call[c].node
        /\ call'[c].result = call[c].result
        /\ \A d \in Calls : d # c => call'[d] = call[d]
    BY <1>1, <1>3, GotoFields DEF EInv
  <2>2. saga'[c] = Entered(JobOf(c)) /\ \A d \in Calls : d # c => saga'[d] = saga[d]
    BY <1>3 DEF Begin, EInv, SagaTypeOK
  <2>3. /\ saga'[c].phase = "forward" /\ saga'[c].status = "Running"
        /\ saga'[c].job.host = call[c].req.node /\ saga'[c].job.kind = call[c].req.kind
        /\ saga'[c].job.spare = call[c].req.spare
        /\ saga'[c].job.version = IF call[c].req.kind = "Upgrade" THEN call[c].req.target
                                                                  ELSE call[c].node.version
    BY <2>2 DEF Entered, JobOf
  <2>4. call[c].result = "pending"
    BY <1>1 DEF DealsOK, Deal
  <2>5. Deal(call'[c], saga'[c])
    BY <2>1, <2>3, <2>4 DEF Deal, AsAsked, Entering
  <2> QED
    BY <2>1, <2>2, <2>5, OneDealMoves
<1> QED
  BY <1>2, <1>3 DEF SaveRun

LEMMA SagaStepDeals ==
  ASSUME EInv, DealsOK, NEW c \in Calls, SagaStep(c)
  PROVE  DealsOK'
<1>1. call' = call /\ RunStep(c) /\ call[c].pc = "saga"
  BY DEF SagaStep, engineVars, At
<1>2. /\ saga'[c].job = saga[c].job /\ saga[c].phase # "idle"
      /\ \A d \in Calls : d # c => saga'[d] = saga[d]
  BY <1>1, JobKept DEF EInv, InPhase
<1>3. Deal(call[c], saga[c])
  BY DEF DealsOK
<1>4. ~Concluded(call[c])
  BY <1>1, <1>3 DEF Deal, Concluded
<1>5. Deal(call'[c], saga'[c])
  BY <1>1, <1>2, <1>3, <1>4 DEF Deal, AsAsked, Entering
<1> QED
  BY <1>1, <1>2, <1>5, OneDealMoves

\* The last state of the path of a saga that Succeeded.
LEMMA PathEnds ==
  ASSUME NEW kind \in Kinds, NEW s, Completes(s, Path(kind, "Succeeded"))
  PROVE  StateAfter(s, Path(kind, "Succeeded")) = Final(kind)
<1> DEFINE path == Path(kind, "Succeeded")
<1>1. Len(path) # 0 /\ path[Len(path)] = Final(kind)
  BY DEF Path, SuccessPath, Kinds, Final
<1>2. Walked(s, path) = Len(path)
  BY DEF Completes
<1> QED
  BY <1>1, <1>2 DEF StateAfter

LEMMA ApplyPathDeals ==
  ASSUME RInv, DealsOK, NEW c \in Calls, ApplyPath(c)
  PROVE  DealsOK'
<1> DEFINE path == Path(call[c].req.kind, saga[c].status)
           n == NodeAfter(c, path)
<1>0. EInv /\ CallsOK /\ ~At(c, "none") /\ call[c].pc = "saga" /\ call[c] \in CallRecord /\ saga' = saga
  BY Called DEF RInv, BInv, EInv, ApplyPath, At, sagaVars
<1>k. call[c].req.kind \in Kinds
  BY <1>0, EngineAssumption DEF CallRecord, AllRequests
<1>1. CASE Return(c, "IllegalTransition")
  BY <1>0, <1>1, ReturnDeals DEF Errors
<1>2. CASE /\ Completes(call[c].node.state, path)
           /\ call' = [call EXCEPT ![c].node = n, ![c].pc = "save_node"]
  <2>1. /\ call'[c].pc = "save_node" /\ call'[c].node = n /\ call'[c].req = call[c].req
        /\ call'[c].result = call[c].result
        /\ \A d \in Calls : d # c => call'[d] = call[d]
    <3> HIDE DEF n
    <3> QED
      BY <1>0, <1>2 DEF CallsOK, CallRecord
  <2>2. Deal(call[c], saga[c]) /\ saga[c].phase # "idle"
    BY <1>0 DEF DealsOK, RInv, BInv, OwnersOK, Owns
  <2>3. saga[c].status = "Succeeded" => n.state = Final(call[c].req.kind)
    BY <1>2, <1>k, PathEnds DEF NodeAfter
  <2>4. saga[c].status = "Succeeded" =>
          n.version = IF call[c].req.kind = "Upgrade" THEN call[c].req.target
                                                      ELSE call[c].node.version
    BY DEF NodeAfter
  <2>5. saga[c].job.version = IF call[c].req.kind = "Upgrade" THEN call[c].req.target
                                                              ELSE call[c].node.version
    BY <1>0, <2>2 DEF Deal, AsAsked
  <2> HIDE DEF n
  <2>6. AsAsked(call'[c], saga'[c])
    BY <1>0, <2>1, <2>2, <2>3, <2>4, <2>5 DEF Deal, AsAsked
  <2>7. Deal(call'[c], saga'[c])
    BY <1>0, <2>1, <2>2, <2>6 DEF Deal, Entering
  <2> QED
    BY <1>0, <2>1, <2>7, OneDealMoves
<1> QED
  BY <1>1, <1>2 DEF ApplyPath

LEMMA SaveNodeDeals ==
  ASSUME EInv, DealsOK, NEW c \in Calls, SaveNode(c)
  PROVE  DealsOK'
<1>1. ~At(c, "none") /\ call[c].pc = "save_node" /\ saga' = saga
  BY DEF SaveNode, At, sagaVars
<1>2. CASE RepoError(c)
  BY <1>1, <1>2, ReturnDeals DEF RepoError, Errors
<1>3. CASE Goto(c, "finish_run")
  <2>1. /\ call'[c].pc = "finish_run" /\ call'[c].req = call[c].req /\ call'[c].node = call[c].node
        /\ call'[c].result = call[c].result
        /\ \A d \in Calls : d # c => call'[d] = call[d]
    BY <1>1, <1>3, GotoFields DEF EInv
  <2>2. Deal(call[c], saga[c])
    BY DEF DealsOK
  <2>3. Deal(call'[c], saga'[c])
    BY <1>1, <2>1, <2>2 DEF Deal, AsAsked, Concluded, Entering
  <2> QED
    BY <1>1, <2>1, <2>3, OneDealMoves
<1> QED
  BY <1>2, <1>3 DEF SaveNode

LEMMA FinishRunDeals ==
  ASSUME EInv, OwnersOK, DealsOK, NEW c \in Calls, FinishRun(c)
  PROVE  DealsOK'
<1>1. ~At(c, "none") /\ call[c].pc = "finish_run" /\ saga' = saga /\ saga[c].phase # "idle"
  BY DEF FinishRun, At, sagaVars, OwnersOK, Owns
<1>2. CASE RepoError(c)
  BY <1>1, <1>2, ReturnDeals DEF RepoError, Errors
<1>3. CASE Return(c, "Ok")
  <2>1. /\ call'[c].pc = "returned" /\ call'[c].req = call[c].req /\ call'[c].node = call[c].node
        /\ \A d \in Calls : d # c => call'[d] = call[d]
    BY <1>1, <1>3, ReturnFields DEF EInv
  <2>2. Deal(call[c], saga[c])
    BY DEF DealsOK
  <2>3. Deal(call'[c], saga'[c])
    BY <1>1, <2>1, <2>2 DEF Deal, AsAsked, Concluded, Entering
  <2> QED
    BY <1>1, <2>1, <2>3, OneDealMoves
<1> QED
  BY <1>2, <1>3 DEF FinishRun

LEMMA NextDeals == ASSUME RInv, DealsOK, [Next]_vars PROVE DealsOK'
<1>0. EInv /\ OwnersOK
  BY DEF RInv, BInv
<1>1. CASE UNCHANGED <<call, saga>>
  BY <1>1 DEF DealsOK, Deal, AsAsked
<1>2. CASE Refill \/ (\E n \in Hosts, v \in Versions : RegisterNode(n, v)) \/ UNCHANGED vars
  BY <1>1, <1>2 DEF Refill, RegisterNode, vars, sagaVars
<1>3. ASSUME NEW c \in Calls, Cancel(c) PROVE DealsOK'
  <2>1. Return(c, "Cancelled") /\ ~At(c, "none") /\ saga' = saga
    BY <1>3 DEF Cancel, At, Suspended
  <2> QED
    BY <1>0, <2>1, ReturnDeals DEF Errors
<1>4. ASSUME NEW c \in Calls, RepeatAttempt(c) PROVE DealsOK'
  BY <1>1, <1>4, RepeatMoves
<1> QED
  BY <1>0, <1>2, <1>3, <1>4, GuardsDeal, SaveRunDeals, SagaStepDeals, ApplyPathDeals,
     SaveNodeDeals, FinishRunDeals DEF Next, Progress

-----------------------------------------------------------------------------
(***************************************************************************)
(* What a step does to one call, and which steps reach the hosts.          *)
(***************************************************************************)
Failing(c) == saga'[c] = saga[c] /\ call'[c].pc = "returned" /\ call'[c].result \in Errors

EntersSaga(c) ==
  /\ call[c].pc = "save_run" /\ Begin(c, JobOf(c)) /\ nodes' = nodes
  /\ call'[c].pc = "saga" /\ call'[c].req = call[c].req /\ call'[c].node = call[c].node
  /\ call'[c].result = call[c].result

LeavesSaga(c) ==
  /\ call[c].pc = "saga" /\ saga'[c] = saga[c] /\ fleet' = fleet
  /\ call'[c].pc = "save_node" /\ call'[c].req = call[c].req
  /\ Completes(call[c].node.state, Path(call[c].req.kind, saga[c].status))

Closing(c) ==
  /\ call[c].pc \in {"save_node", "finish_run"} /\ saga'[c] = saga[c] /\ fleet' = fleet
  /\ call'[c].pc \in {"finish_run", "returned"} /\ call'[c].req = call[c].req

LEMMA OwnStep ==
  ASSUME EInv, NEW c \in Calls, Progress(c) \/ Cancel(c) \/ (\E q \in Requests : StartDeployment(c, q))
  PROVE  /\ \A d \in Calls : d # c => call'[d] = call[d] /\ saga'[d] = saga[d]
         /\ ~At(c, "returned")
         /\ \/ saga'[c] = saga[c] /\ call'[c].pc \in Entering
            \/ Failing(c) \/ EntersSaga(c) \/ LeavesSaga(c) \/ Closing(c)
            \/ call' = call /\ SagaStep(c)
<1>1. CASE \E q \in Requests : StartDeployment(c, q)
  BY <1>1 DEF StartDeployment, EInv, CallsOK, At, sagaVars, Entering
<1>2. CASE SagaStep(c)
  BY <1>2, JobKept DEF SagaStep, engineVars, EInv, At
<1>3. CASE (Progress(c) /\ ~SagaStep(c)) \/ Cancel(c)
  <2>1. ~At(c, "none") /\ ~At(c, "returned") /\ call[c] \in CallRecord
    <3>1. ~At(c, "none") /\ ~At(c, "returned")
      BY <1>3 DEF Progress, TakeToken, TakeSlot, GetNode, GetSpare, FetchAdd, SaveRun, ApplyPath,
                  SaveNode, FinishRun, Cancel, At, Suspended
    <3> QED
      BY <3>1, Called DEF EInv
  <2>2. ASSUME NEW e \in Errors, Return(c, e), saga' = saga
        PROVE  Failing(c) /\ \A d \in Calls : d # c => call'[d] = call[d] /\ saga'[d] = saga[d]
    BY <2>1, <2>2, ReturnFields DEF Failing, EInv
  <2>3. ASSUME NEW p, Goto(c, p)
        PROVE  /\ call'[c].pc = p /\ call'[c].req = call[c].req /\ call'[c].node = call[c].node
               /\ call'[c].result = call[c].result
               /\ \A d \in Calls : d # c => call'[d] = call[d]
    BY <2>1, <2>3, GotoFields DEF EInv
  <2>4. CASE TakeToken(c) \/ TakeSlot(c) \/ GetSpare(c) \/ Cancel(c)
    <3>1. saga' = saga
      BY <2>4 DEF TakeToken, TakeSlot, GetSpare, Cancel, sagaVars
    <3>2. (\E e \in Errors : Return(c, e)) \/ (\E p \in Entering : Goto(c, p))
      BY <2>4 DEF TakeToken, TakeSlot, GetSpare, Cancel, RepoError, Errors, Entering
    <3> QED
      BY <2>1, <2>2, <2>3, <3>1, <3>2
  <2>5. CASE GetNode(c)
    <3>1. saga' = saga
      BY <2>5 DEF GetNode, sagaVars
    <3>2. CASE \E e \in Errors : Return(c, e)
      BY <2>1, <2>2, <3>1, <3>2
    <3>3. ASSUME NEW n, NEW p \in Entering, call' = [call EXCEPT ![c].read = n, ![c].node = n, ![c].pc = p]
          PROVE  call'[c].pc \in Entering /\ \A d \in Calls : d # c => call'[d] = call[d]
      BY <2>1, <3>3 DEF EInv, CallsOK, CallRecord
    <3>4. \/ \E e \in Errors : Return(c, e)
          \/ \E n : \E p \in Entering : call' = [call EXCEPT ![c].read = n, ![c].node = n, ![c].pc = p]
      BY <2>5 DEF GetNode, RepoError, Errors, Entering
    <3> QED
      BY <2>1, <3>1, <3>2, <3>3, <3>4
  <2>6. CASE FetchAdd(c)
    BY <2>1, <2>6 DEF FetchAdd, EInv, CallsOK, CallRecord, Entering, sagaVars
  <2>7. CASE SaveRun(c)
    <3>1. CASE RepoError(c) /\ UNCHANGED sagaVars
      BY <2>1, <2>2, <3>1 DEF RepoError, Errors, sagaVars
    <3>2. CASE Begin(c, JobOf(c)) /\ Goto(c, "saga")
      <4>1. \A d \in Calls : d # c => saga'[d] = saga[d]
        BY <3>2 DEF Begin, EInv, SagaTypeOK
      <4> QED
        BY <2>1, <2>3, <2>7, <3>2, <4>1 DEF EntersSaga, SaveRun, At
    <3> QED
      BY <2>7, <3>1, <3>2 DEF SaveRun
  <2>8. CASE ApplyPath(c)
    <3> DEFINE path == Path(call[c].req.kind, saga[c].status)
    <3>0. saga' = saga /\ fleet' = fleet /\ call[c].pc = "saga"
      BY <2>8 DEF ApplyPath, At, sagaVars
    <3>1. CASE Return(c, "IllegalTransition")
      BY <2>1, <2>2, <3>0, <3>1 DEF Errors
    <3>2. ASSUME NEW n, Completes(call[c].node.state, path),
                 call' = [call EXCEPT ![c].node = n, ![c].pc = "save_node"]
          PROVE  LeavesSaga(c) /\ \A d \in Calls : d # c => call'[d] = call[d]
      <4>1. /\ call'[c].pc = "save_node" /\ call'[c].req = call[c].req
            /\ \A d \in Calls : d # c => call'[d] = call[d]
        BY <2>1, <3>2 DEF EInv, CallsOK, CallRecord
      <4> QED
        BY <3>0, <3>2, <4>1 DEF LeavesSaga
    <3> QED
      BY <2>1, <2>8, <3>0, <3>1, <3>2 DEF ApplyPath
  <2>9. CASE SaveNode(c)
    <3>0. saga' = saga /\ fleet' = fleet /\ call[c].pc = "save_node"
      BY <2>9 DEF SaveNode, At, sagaVars
    <3>1. CASE RepoError(c)
      BY <2>1, <2>2, <3>0, <3>1 DEF RepoError, Errors
    <3>2. CASE Goto(c, "finish_run")
      BY <2>1, <2>3, <3>0, <3>2 DEF Closing
    <3> QED
      BY <2>9, <3>1, <3>2 DEF SaveNode
  <2>10. CASE FinishRun(c)
    <3>0. saga' = saga /\ fleet' = fleet /\ call[c].pc = "finish_run"
      BY <2>10 DEF FinishRun, At, sagaVars
    <3>1. CASE RepoError(c)
      BY <2>1, <2>2, <3>0, <3>1 DEF RepoError, Errors
    <3>2. CASE Return(c, "Ok")
      <4>1. /\ call'[c].pc = "returned" /\ call'[c].req = call[c].req
            /\ \A d \in Calls : d # c => call'[d] = call[d]
        BY <2>1, <3>2, ReturnFields DEF EInv
      <4> QED
        BY <2>1, <3>0, <4>1 DEF Closing
    <3> QED
      BY <2>10, <3>1, <3>2 DEF FinishRun
  <2> QED
    BY <1>3, <2>4, <2>5, <2>6, <2>7, <2>8, <2>9, <2>10 DEF Progress
<1> QED
  BY <1>1, <1>2, <1>3

LEMMA SagaMovers ==
  ASSUME [Next]_vars
  PROVE  \/ UNCHANGED sagaVars
         \/ \E c \in Calls : SagaStep(c) \/ RepeatAttempt(c) \/ Cancel(c) \/ SaveRun(c)
<1>1. ASSUME NEW c \in Calls, Progress(c)
      PROVE  UNCHANGED sagaVars \/ SagaStep(c) \/ SaveRun(c)
  BY <1>1 DEF Progress, TakeToken, TakeSlot, GetNode, GetSpare, FetchAdd, ApplyPath, SaveNode,
     FinishRun
<1>2. ASSUME NEW c \in Calls, NEW q \in Requests, StartDeployment(c, q)
      PROVE  UNCHANGED sagaVars
  BY <1>2 DEF StartDeployment
<1>3. CASE Refill \/ (\E n \in Hosts, v \in Versions : RegisterNode(n, v)) \/ UNCHANGED vars
  BY <1>3 DEF Refill, RegisterNode, vars, sagaVars
<1> QED
  BY <1>1, <1>2, <1>3 DEF Next

\* A host changes in a step of the saga that touches it, in an attempt of one
\* that is to be repeated, or in the hang-up of its call.
LEMMA HostsMove ==
  ASSUME EInv, DealsOK, [Next]_vars
  PROVE  /\ \A d \in Calls : Touches(d) \subseteq Touches(d)'
         /\ \A x \in Hosts : fleet'[x] # fleet[x] =>
              \E c \in Calls : x \in Touches(c) /\ (SagaStep(c) \/ RepeatAttempt(c) \/ Cancel(c))
<1>0. SagaTypeOK
  BY DEF EInv
<1>1. CASE UNCHANGED <<fleet, saga>>
  BY <1>1 DEF Touches, InPhase
<1>2. ASSUME NEW c \in Calls, SagaStep(c)
      PROVE  /\ \A d \in Calls : Touches(d) \subseteq Touches(d)'
             /\ \A x \in Hosts : fleet'[x] # fleet[x] => x \in Touches(c)
  <2>1. RunStep(c)
    BY <1>2 DEF SagaStep
  <2> QED
    BY <1>0, <2>1, JobKept, StepFootprint
<1>3. ASSUME NEW c \in Calls, RepeatAttempt(c) \/ Cancel(c)
      PROVE  /\ \A d \in Calls : Touches(d) \subseteq Touches(d)'
             /\ \A x \in Hosts : fleet'[x] # fleet[x] => x \in Touches(c)
  <2>1. saga' = saga
    BY <1>3 DEF RepeatAttempt, Cancel
  <2>2. \/ fleet' = fleet
        \/ (InPhase(c, "forward") \/ InPhase(c, "undo")) /\ fleet' \in AfterFailure(c)
    BY <1>3 DEF RepeatAttempt, Cancel, Awaiting
  <2>3. \A x \in Hosts : fleet'[x] # fleet[x] => x \in Touches(c)
    BY <1>0, <2>2, Footprint
  <2> QED
    BY <2>1, <2>3 DEF Touches, InPhase
<1>4. ASSUME NEW c \in Calls, SaveRun(c)
      PROVE  fleet' = fleet /\ \A d \in Calls : Touches(d) \subseteq Touches(d)'
  <2>1. CASE UNCHANGED sagaVars
    BY <2>1 DEF sagaVars, Touches, InPhase
  <2>2. CASE Begin(c, JobOf(c))
    <3>1. \A d \in Calls : d # c => saga'[d] = saga[d]
      BY <1>0, <2>2 DEF Begin, SagaTypeOK
    <3>2. Touches(c) = {} /\ fleet' = fleet
      BY <2>2 DEF Begin, Touches
    <3> QED
      BY <3>1, <3>2 DEF Touches, InPhase
  <2> QED
    BY <1>4, <2>1, <2>2 DEF SaveRun
<1>5. \/ UNCHANGED <<fleet, saga>>
      \/ \E c \in Calls : SagaStep(c) \/ RepeatAttempt(c) \/ Cancel(c) \/ SaveRun(c)
  BY SagaMovers DEF sagaVars
<1> QED
  BY <1>1, <1>2, <1>3, <1>4, <1>5

\* A host no saga has come to.
Untouched(h) == \A c \in Calls : h \notin Touches(c)

LEMMA UntouchedStays ==
  ASSUME EInv, DealsOK, [Next]_vars, NEW h \in Hosts, Untouched(h)'
  PROVE  Untouched(h) /\ fleet'[h] = fleet[h]
<1>1. Untouched(h)
  BY HostsMove DEF Untouched
<1> QED
  BY <1>1, HostsMove DEF Untouched

LEMMA AloneStays ==
  ASSUME EInv, DealsOK, [Next]_vars, NEW c \in Calls, Alone(c)'
  PROVE  Alone(c)
BY HostsMove DEF Alone

-----------------------------------------------------------------------------
(***************************************************************************)
(* The fleet under the engine is as SagaExecutor_proofs has it: a call     *)
(* whose client hung up in the middle of an agent call leaves its hosts as *)
(* a failed attempt would, and nothing follows.  On top of it, where the   *)
(* store or a copy says Active and no saga has come, the infrastructure is *)
(* there: an upgrade starts a validator only on a host that exists, and    *)
(* never destroys it.                                                      *)
(***************************************************************************)
Found == {"get_spare", "fetch_add", "save_run"}

StoreUp ==
  \A n \in DOMAIN nodes : Untouched(n) /\ nodes[n].state = "Active" => fleet[n].infra

CopiesUp ==
  \A c \in Calls : LET r == call[c] IN
    r.pc \in Found /\ Untouched(r.req.node) /\ r.node.state = "Active" => fleet[r.req.node].infra

UpgradesUp ==
  \A c \in Calls : LET r == call[c] IN
    /\ ~InPhase(c, "idle") /\ Alone(c) /\ r.req.kind = "Upgrade"
    /\ \/ r.pc = "saga" /\ r.node.state = "Active"
       \/ Concluded(r) /\ saga[c].status = "Succeeded"
    => fleet[r.req.node].infra

HInv == RInv /\ DealsOK /\ FleetInv /\ StoreUp /\ CopiesUp /\ UpgradesUp

LEMMA EngineFleetStep ==
  ASSUME EInv, FleetInv, [Next]_vars
  PROVE  FleetInv'
<1>0. SagaTypeOK
  BY DEF EInv
<1>1. CASE UNCHANGED sagaVars
  BY <1>1, SameFleet DEF sagaVars
<1>2. ASSUME NEW c \in Calls, SagaStep(c)
      PROVE  FleetInv'
  BY <1>0, <1>2, RunStepFleet DEF SagaStep
<1>3. ASSUME NEW c \in Calls, SaveRun(c)
      PROVE  FleetInv'
  <2>1. CASE Begin(c, JobOf(c))
    <3>1. JobOf(c) \in Jobs
      BY <1>3, JobOK DEF SaveRun
    <3> QED
      BY <1>0, <2>1, <3>1, BeginFleet
  <2> QED
    BY <1>1, <1>3, <2>1 DEF SaveRun
<1>4. ASSUME NEW c \in Calls, RepeatAttempt(c) \/ Cancel(c)
      PROVE  FleetInv'
  <2>1. CASE Awaiting(c) /\ fleet' \in AfterFailure(c) /\ UNCHANGED saga
    BY <1>0, <2>1, RepeatedFleet
  <2>2. CASE UNCHANGED <<fleet, saga>>
    BY <2>2, SameFleet
  <2> QED
    BY <1>4, <2>1, <2>2 DEF RepeatAttempt, Cancel
<1> QED
  BY <1>1, <1>2, <1>3, <1>4, SagaMovers

\* The record of a node that no saga has come to is written by the registration
\* alone, so the store keeps its promise.
LEMMA StoreUpStep ==
  ASSUME EInv, OwnersOK, DealsOK, StoreUp, [Next]_vars
  PROVE  StoreUp'
<1> SUFFICES ASSUME NEW n \in DOMAIN nodes', Untouched(n)', nodes'[n].state = "Active"
             PROVE  fleet'[n].infra
  BY DEF StoreUp
<1>1. n \in Hosts
  BY NextEInv DEF EInv, StoreOK
<1>2. Untouched(n) /\ fleet'[n] = fleet[n]
  BY <1>1, UntouchedStays
<1>3. n \in DOMAIN nodes /\ nodes'[n] = nodes[n]
  <2>1. ASSUME NEW m \in Hosts, NEW v \in Versions, RegisterNode(m, v)
        PROVE  n \in DOMAIN nodes /\ nodes'[n] = nodes[n]
    <3>1. n # m
      BY <2>1 DEF RegisterNode, Upsert, NewNode
    <3> QED
      BY <2>1, <3>1 DEF RegisterNode, Upsert
  <2>2. ASSUME NEW c \in Calls, SaveNode(c)
        PROVE  n \in DOMAIN nodes /\ nodes'[n] = nodes[n]
    <3>1. ~At(c, "none") /\ call[c].pc = "save_node"
      BY <2>2 DEF SaveNode, At
    <3>2. saga[c].phase # "idle" /\ HostOf(c) = call[c].req.node
      BY <3>1 DEF OwnersOK, Owns, DealsOK, Deal, AsAsked, HostOf
    <3>3. n # call[c].req.node
      BY <1>2, <3>2, TouchesItsHosts DEF EInv, Untouched, InPhase
    <3> QED
      BY <2>2, <3>3 DEF SaveNode, Upsert
  <2>3. nodes' = nodes \/ (\E m \in Hosts, v \in Versions : RegisterNode(m, v)) \/ \E c \in Calls : SaveNode(c)
    BY DEF Next, Progress, vars, repoVars, engineVars, Refill, StartDeployment, TakeToken,
       TakeSlot, GetNode, GetSpare, FetchAdd, SaveRun, SagaStep, ApplyPath, FinishRun,
       RepeatAttempt, Cancel
  <2> QED
    BY <2>1, <2>2, <2>3
<1> QED
  BY <1>2, <1>3 DEF StoreUp

\* A copy is the one a call had, or is read from the store.
LEMMA FoundStep ==
  ASSUME EInv, [Next]_vars, NEW c \in Calls, call'[c].pc \in Found
  PROVE  /\ call[c].req.node \in Hosts /\ call'[c].req = call[c].req
         /\ \/ call[c].pc \in Found /\ call'[c].node = call[c].node
            \/ /\ call[c].req.node \in DOMAIN nodes
               /\ call'[c].node = nodes[call[c].req.node]
<1>1. CASE call'[c] = call[c]
  <2>1. ~At(c, "none")
    BY <1>1 DEF At, Found
  <2>2. call[c].req \in AllRequests
    BY <2>1, Called, EngineAssumption DEF EInv, CallRecord
  <2> QED
    BY <1>1, <2>2 DEF AllRequests
<1>2. ASSUME NEW d \in Calls, d # c, Progress(d) \/ Cancel(d) \/ (\E q \in Requests : StartDeployment(d, q))
      PROVE  call'[c] = call[c]
  BY <1>2, OwnStep
<1>3. ASSUME Progress(c) \/ Cancel(c)
      PROVE  /\ call[c].req.node \in Hosts /\ call'[c].req = call[c].req
             /\ \/ call[c].pc \in Found /\ call'[c].node = call[c].node
                \/ /\ call[c].req.node \in DOMAIN nodes
                   /\ call'[c].node = nodes[call[c].req.node]
  <2>1. ~At(c, "none") /\ call[c] \in CallRecord
    <3>1. ~At(c, "none")
      BY <1>3 DEF Progress, TakeToken, TakeSlot, GetNode, GetSpare, FetchAdd, SaveRun, SagaStep,
                  ApplyPath, SaveNode, FinishRun, Cancel, At, Suspended
    <3> QED
      BY <3>1, Called DEF EInv
  <2>2. call[c].req.node \in Hosts
    BY <2>1, EngineAssumption DEF CallRecord, AllRequests
  <2>3. ASSUME NEW e, Return(c, e) PROVE FALSE
    BY <2>1, <2>3, ReturnFields DEF EInv, Found
  <2>4. ASSUME NEW p, Goto(c, p)
        PROVE  call'[c].pc = p /\ call'[c].req = call[c].req /\ call'[c].node = call[c].node
    BY <2>1, <2>4, GotoFields DEF EInv
  <2>5. CASE GetNode(c)
    <3>1. call[c].req.node \in DOMAIN nodes
      BY <2>3, <2>5 DEF GetNode, RepoError
    <3>2. PICK p : call' = [call EXCEPT ![c].read = nodes[call[c].req.node],
                                        ![c].node = nodes[call[c].req.node], ![c].pc = p]
      BY <2>3, <2>5 DEF GetNode, RepoError
    <3>3. call'[c].req = call[c].req /\ call'[c].node = nodes[call[c].req.node]
      BY <2>1, <3>2 DEF EInv, CallsOK, CallRecord
    <3> QED
      BY <2>2, <3>1, <3>3
  <2>6. CASE GetSpare(c)
    <3>1. Goto(c, "fetch_add") /\ call[c].pc = "get_spare"
      BY <2>3, <2>6 DEF GetSpare, RepoError, At
    <3> QED
      BY <2>2, <2>4, <3>1 DEF Found
  <2>7. CASE FetchAdd(c)
    <3>1. /\ call[c].pc = "fetch_add"
          /\ call'[c].req = call[c].req /\ call'[c].node = call[c].node
      BY <2>1, <2>7 DEF FetchAdd, At, EInv, CallsOK, CallRecord
    <3> QED
      BY <2>2, <3>1 DEF Found
  <2>8. CASE TakeToken(c) \/ TakeSlot(c) \/ SaveRun(c) \/ SaveNode(c) \/ FinishRun(c) \/ Cancel(c)
    <3>1. (\E e : Return(c, e)) \/ (\E p \in {"bulkhead", "get_node", "saga", "finish_run"} : Goto(c, p))
      BY <2>8 DEF TakeToken, TakeSlot, SaveRun, SaveNode, FinishRun, Cancel, RepoError
    <3> QED
      BY <2>3, <2>4, <3>1 DEF Found
  <2>9. CASE SagaStep(c)
    BY <2>9 DEF SagaStep, engineVars, At, Found
  <2>10. CASE ApplyPath(c)
    <3>1. PICK n : call' = [call EXCEPT ![c].node = n, ![c].pc = "save_node"]
      BY <2>3, <2>10 DEF ApplyPath
    <3>2. call'[c].pc = "save_node"
      BY <2>1, <3>1 DEF EInv, CallsOK, CallRecord
    <3> QED
      BY <3>2 DEF Found
  <2> QED
    BY <1>3, <2>5, <2>6, <2>7, <2>8, <2>9, <2>10 DEF Progress
<1>4. ASSUME NEW q \in Requests, StartDeployment(c, q) PROVE FALSE
  BY <1>4 DEF StartDeployment, EInv, CallsOK, Found
<1>5. CASE UNCHANGED call
  BY <1>1, <1>5
<1> QED
  BY <1>1, <1>2, <1>3, <1>4, <1>5, RepeatMoves DEF Next, vars, Refill, RegisterNode

LEMMA CopiesUpStep ==
  ASSUME EInv, DealsOK, StoreUp, CopiesUp, [Next]_vars
  PROVE  CopiesUp'
<1> SUFFICES ASSUME NEW c \in Calls, call'[c].pc \in Found, Untouched(call[c].req.node)',
                    call'[c].node.state = "Active"
             PROVE  fleet'[call'[c].req.node].infra
  BY DEF CopiesUp
<1>1. /\ call[c].req.node \in Hosts /\ call'[c].req = call[c].req
      /\ \/ call[c].pc \in Found /\ call'[c].node = call[c].node
         \/ /\ call[c].req.node \in DOMAIN nodes
            /\ call'[c].node = nodes[call[c].req.node]
  BY FoundStep
<1>2. PICK h \in Hosts : h = call[c].req.node
  BY <1>1
<1>3. \A d \in Calls : h \notin Touches(d)'
  BY <1>1, <1>2 DEF Untouched
<1>4. Untouched(h) /\ fleet'[h] = fleet[h]
  BY <1>3, HostsMove DEF Untouched
<1>5. fleet[h].infra
  BY <1>1, <1>2, <1>4 DEF CopiesUp, StoreUp
<1> QED
  BY <1>1, <1>2, <1>4, <1>5

\* No step of an upgrade takes the infrastructure away.
LEMMA UpgradeKeepsHost ==
  ASSUME SagaTypeOK, NEW c \in Calls, RunStep(c) \/ (Awaiting(c) /\ fleet' \in AfterFailure(c)),
         saga[c].job.kind = "Upgrade", fleet[HostOf(c)].infra
  PROVE  fleet'[HostOf(c)].infra
<1> DEFINE h == HostOf(c)
<1>1. (InPhase(c, "forward") \/ InPhase(c, "undo")) /\ Awaited(c) # "SwapIdentity"
  BY SwapIsLast DEF RunStep, StepSucceeds, StepFails, UndoSucceeds, UndoFails, Awaiting
<1>2. h \in Hosts /\ fleet \in Fleets /\ fleet[h] \in HostRecord
  BY <1>1, BusyCall DEF Fleets, HostOf, InPhase, SagaTypeOK
<1>3. Awaited(c) \in {"Drain", "StartValidator", "AwaitCatchup"}
  <2>1. PICK i \in 1..Len(Plan(c)) : Awaited(c) = Plan(c)[i]
    BY <1>1, AwaitedIsAStep DEF Awaited
  <2> QED
    BY <2>1 DEF Plan, BuildPlan
<1>4. DrainedHost(fleet[h]).infra /\ \A v : Serving(h, v).infra
  BY <1>2 DEF DrainedHost, HostRecord, Serving
<1>5. After(Awaited(c), h, saga[c].job.version, fleet[h]).infra /\ Back(Awaited(c), fleet[h]).infra
  BY <1>3, <1>4 DEF After, Back
<1>6. \/ fleet' = fleet
      \/ fleet' = [fleet EXCEPT ![h] = IF InPhase(c, "forward")
                   THEN After(Awaited(c), h, saga[c].job.version, fleet[h])
                   ELSE Back(Awaited(c), fleet[h])]
  BY <1>1, HostStep, AttemptOnHost
<1> QED
  BY <1>2, <1>5, <1>6 DEF Fleets

\* Of the states a node is loaded in, the path of an upgrade leaves Active only.
LEMMA UpgradesStartActive ==
  ASSUME NEW s \in AtRest, Completes(s, Path("Upgrade", "Succeeded"))
  PROVE  s = "Active"
<1> DEFINE path == Path("Upgrade", "Succeeded")
<1>1. Len(path) = 3 /\ path[1] = "Draining" /\ Walked(s, path) = Len(path)
  BY DEF Path, SuccessPath, Completes
<1> HIDE DEF path
<1>2. Legal(s, path, 3)
  BY <1>1, WalkedType
<1>3. CanTransition(s, "Draining")
  BY <1>1, <1>2 DEF Legal, Before
<1> QED
  BY <1>3 DEF CanTransition, Edges, AtRest

LEMMA UpgradesUpStep ==
  ASSUME RInv, DealsOK, CopiesUp, UpgradesUp, [Next]_vars
  PROVE  UpgradesUp'
<1> SUFFICES ASSUME NEW c \in Calls, ~InPhase(c, "idle")', Alone(c)', call'[c].req.kind = "Upgrade",
                    \/ call'[c].pc = "saga" /\ call'[c].node.state = "Active"
                    \/ Concluded(call'[c]) /\ saga'[c].status = "Succeeded"
             PROVE  fleet'[call'[c].req.node].infra
  BY DEF UpgradesUp, Concluded
<1>0. EInv /\ OwnersOK /\ SagaTypeOK /\ Alone(c)
  BY AloneStays DEF RInv, BInv, EInv
<1>1. CASE SagaStep(c)
  <2>1. RunStep(c) /\ call' = call /\ call[c].pc = "saga"
    BY <1>1 DEF SagaStep, engineVars, At
  <2>2. ~InPhase(c, "idle") /\ call[c].result = "pending"
    BY <1>0, <2>1, JobKept DEF DealsOK, Deal
  <2>3. call[c].node.state = "Active"
    BY <2>1, <2>2 DEF Concluded
  <2>4. HostOf(c) = call[c].req.node /\ saga[c].job.kind = "Upgrade"
    BY <2>1, <2>2 DEF DealsOK, Deal, AsAsked, HostOf, InPhase
  <2>5. fleet[HostOf(c)].infra
    BY <1>0, <2>1, <2>2, <2>3, <2>4 DEF UpgradesUp
  <2> QED
    BY <1>0, <2>1, <2>4, <2>5, UpgradeKeepsHost
<1>2. CASE Cancel(c)
  <2>1. ~At(c, "none") /\ Return(c, "Cancelled")
    BY <1>2 DEF Cancel, At, Suspended
  <2>2. call'[c].pc = "returned" /\ call'[c].result = "Cancelled"
    BY <1>0, <2>1, ReturnFields DEF EInv
  <2> QED
    BY <2>2 DEF Concluded
<1>3. CASE call'[c] = call[c] /\ saga'[c] = saga[c] /\ ~SagaStep(c) /\ ~RepeatAttempt(c) /\ ~Cancel(c)
  <2>1. ~InPhase(c, "idle")
    BY <1>3 DEF InPhase
  <2>2. fleet[call[c].req.node].infra
    BY <1>0, <1>3, <2>1 DEF UpgradesUp
  <2>3. HostOf(c) = call[c].req.node
    BY <2>1 DEF DealsOK, Deal, AsAsked, HostOf, InPhase
  <2>4. HostOf(c) \in Hosts /\ HostOf(c) \in Touches(c)
    BY <1>0, <2>1, TouchesItsHosts
  <2>5. fleet'[HostOf(c)] = fleet[HostOf(c)]
    BY <1>0, <1>3, <2>4, HostsMove DEF Alone
  <2> QED
    BY <1>3, <2>2, <2>3, <2>5
<1>4. CASE saga'[c] = saga[c] /\ call'[c].pc \in Entering
  BY <1>4, NextDeals DEF DealsOK, Deal, InPhase
<1>5. CASE Failing(c)
  BY <1>5 DEF Failing, Concluded, Errors
<1>6. CASE EntersSaga(c)
  <2>1. /\ call[c].pc = "save_run" /\ call'[c].pc = "saga" /\ call'[c].req = call[c].req
        /\ call'[c].node = call[c].node /\ call'[c].result = "pending"
    BY <1>6 DEF EntersSaga, DealsOK, Deal
  <2>2. call[c].node.state = "Active"
    BY <2>1 DEF Concluded
  <2>3. /\ Touches(c) = {} /\ fleet' = fleet /\ saga'[c] = Entered(JobOf(c))
    BY <1>0, <1>6 DEF EntersSaga, Begin, Touches, SagaTypeOK
  <2>4. call[c].req.node \in Touches(c)'
    BY <2>3 DEF Touches, Entered, JobOf, InPhase
  <2>5. Untouched(call[c].req.node)
    BY <1>0, <2>3, <2>4, HostsMove DEF Untouched, Alone
  <2> QED
    BY <2>1, <2>2, <2>3, <2>5 DEF CopiesUp, Found
\* The path of an upgrade that Succeeded starts in Active.
<1>7. CASE LeavesSaga(c)
  <2>1. /\ ~InPhase(c, "idle") /\ call'[c].req = call[c].req /\ call[c].pc = "saga"
        /\ fleet' = fleet /\ saga[c].status = "Succeeded"
        /\ Completes(call[c].node.state, Path("Upgrade", "Succeeded"))
    BY <1>7 DEF LeavesSaga, InPhase
  <2>2. call[c].node.state \in AtRest
    BY <1>0, <2>1, Called DEF EInv, At, Local, Loaded
  <2>3. call[c].node.state = "Active"
    BY <2>1, <2>2, UpgradesStartActive
  <2> QED
    BY <1>0, <2>1, <2>3 DEF UpgradesUp
<1>8. CASE Closing(c)
  <2>1. /\ ~InPhase(c, "idle") /\ call'[c].req = call[c].req /\ Concluded(call[c])
        /\ fleet' = fleet /\ saga[c].status = "Succeeded"
    BY <1>8 DEF Closing, InPhase, Concluded
  <2> QED
    BY <1>0, <2>1 DEF UpgradesUp
<1>9. CASE RepeatAttempt(c)
  <2>1. UNCHANGED <<call, saga>> /\ call[c].pc = "saga" /\ Awaiting(c) /\ fleet' \in AfterFailure(c)
    BY <1>9, RepeatMoves DEF At
  <2>2. ~InPhase(c, "idle") /\ call[c].result = "pending"
    BY <2>1 DEF DealsOK, Deal, InPhase
  <2>3. HostOf(c) = call[c].req.node /\ saga[c].job.kind = "Upgrade" /\ call[c].node.state = "Active"
    BY <2>1, <2>2 DEF DealsOK, Deal, AsAsked, HostOf, InPhase, Concluded
  <2>4. fleet[HostOf(c)].infra
    BY <1>0, <2>1, <2>2, <2>3 DEF UpgradesUp
  <2> QED
    BY <1>0, <2>1, <2>3, <2>4, UpgradeKeepsHost
<1>10. ASSUME NEW d \in Calls, Progress(d) \/ Cancel(d) \/ (\E q \in Requests : StartDeployment(d, q))
      PROVE  fleet'[call'[c].req.node].infra
  <2>1. CASE d = c
    BY <1>0, <1>1, <1>2, <1>4, <1>5, <1>6, <1>7, <1>8, <1>10, <2>1, OwnStep
  <2>2. CASE d # c
    BY <1>0, <1>1, <1>2, <1>3, <1>9, <1>10, <2>2, OwnStep
  <2> QED
    BY <2>1, <2>2
<1>11. CASE UNCHANGED <<call, saga>>
  BY <1>1, <1>2, <1>3, <1>9, <1>11
<1> QED
  BY <1>10, <1>11, RepeatMoves DEF Next, vars, sagaVars, Refill, RegisterNode

LEMMA NextHInv == ASSUME HInv, [Next]_vars PROVE HInv'
BY NextRInv, NextDeals, EngineFleetStep, StoreUpStep, CopiesUpStep, UpgradesUpStep
   DEF HInv, RInv, BInv

LEMMA InitHInv == Init => HInv
<1> SUFFICES ASSUME Init PROVE HInv
  OBVIOUS
<1>1. RInv /\ FleetInv
  BY InitRInv, InitFleet DEF Init
<1>2. /\ saga = [c \in Calls |-> Idle] /\ call = [c \in Calls |-> NotCalled]
  BY DEF Init, SagaInit
<1>3. DealsOK /\ CopiesUp /\ UpgradesUp
  BY <1>2 DEF DealsOK, Deal, CopiesUp, UpgradesUp, Found, InPhase, Idle, NotCalled, Entering
<1>4. StoreUp
  <2> SUFFICES ASSUME NEW n \in DOMAIN nodes, nodes[n].state = "Active" PROVE fleet[n].infra
    BY DEF StoreUp
  <2>1. n \in Hosts
    BY <1>1 DEF RInv, BInv, EInv, StoreOK
  <2> QED
    BY <2>1 DEF Init, Agrees
<1> QED
  BY <1>1, <1>3, <1>4 DEF HInv

\* A run that Succeeded has left its host as the copy of its call says.
LEMMA CopyIsTrue ==
  ASSUME EInv, DealsOK, NEW c \in Calls, At(c, "returned"), call[c].result = "Ok",
         saga[c].status = "Succeeded", nodes[call[c].req.node] = call[c].node,
         LeftBehind(saga[c], fleet[HostOf(c)], fleet[SpareOf(c)]),
         call[c].req.kind = "Failover" => call[c].req.spare # call[c].req.node,
         call[c].req.kind = "Upgrade" => fleet[call[c].req.node].infra
  PROVE  Truthful(call[c].req.node)
<1>1. /\ SagaTypeOK /\ Deal(call[c], saga[c]) /\ call[c] \in CallRecord
  BY Called DEF EInv, DealsOK, At
<1>2. ~InPhase(c, "idle") /\ Concluded(call[c])
  BY <1>1 DEF Deal, At, Concluded, InPhase
<1> DEFINE j == saga[c].job
           n == call[c].node
<1>3. /\ j.host = call[c].req.node /\ j.spare = call[c].req.spare /\ j.kind = call[c].req.kind
      /\ n.state = Final(j.kind)
      /\ j.kind \in {"Provision", "Upgrade"} => n.version = j.version
  BY <1>1, <1>2 DEF Deal, AsAsked, InPhase
<1>4. j.kind \in Kinds
  BY <1>1, <1>2, BusyCall DEF InPhase
<1>5. LeftBehind(saga[c], fleet[j.host], fleet[j.spare])
  BY DEF HostOf, SpareOf
<1>6. nodes[j.host] = n
  BY <1>3
<1>7. SUFFICES Truthful(j.host)
  BY <1>3
<1> HIDE DEF n
<1>8. CASE j.kind = "Provision"
  <2>1. fleet[j.host] = Serving(j.host, j.version)
    BY <1>5, <1>8 DEF LeftBehind, ProvisionLeft, Won
  <2> QED
    BY <1>3, <1>6, <1>8, <2>1 DEF Truthful, Final
<1>9. CASE j.kind = "Upgrade"
  <2>1. fleet[j.host].infra
    BY <1>3, <1>9
  <2>2. fleet[j.host] = Serving(j.host, j.version)
    BY <1>5, <1>9, <2>1 DEF LeftBehind, UpgradeLeft, Won
  <2> QED
    BY <1>3, <1>6, <1>9, <2>2 DEF Truthful, Final
<1>10. CASE j.kind \in {"Failover", "Decommission"}
  <2>1. fleet[j.host].key = Junk
    <3>1. Won(saga[c])
      BY DEF Won
    <3>2. CASE j.kind = "Decommission"
      BY <1>5, <3>1, <3>2 DEF LeftBehind, Absent
    <3>3. CASE j.kind = "Failover"
      <4>1. j.spare # j.host
        BY <1>3, <3>3
      <4>2. FailoverLeft(saga[c], fleet[j.host], fleet[j.spare])
        BY <1>5, <3>3 DEF LeftBehind
      <4> QED
        BY <3>1, <4>1, <4>2 DEF FailoverLeft
    <3> QED
      BY <1>10, <3>2, <3>3
  <2> QED
    BY <1>3, <1>6, <1>10, <2>1 DEF Truthful, Final
<1> QED
  BY <1>4, <1>8, <1>9, <1>10 DEF Kinds

LEMMA HostsAreAsRecorded == HInv => SuccessIsRecorded
<1> SUFFICES ASSUME HInv, NEW c \in Calls, At(c, "returned"), call[c].result = "Ok",
                    saga[c].status = "Succeeded", Alone(c), nodes[call[c].req.node] = call[c].node,
                    call[c].req.kind = "Failover" => call[c].req.spare # call[c].req.node
             PROVE  Truthful(call[c].req.node)
  BY DEF SuccessIsRecorded
<1>1. EInv /\ DealsOK
  BY DEF HInv, RInv, BInv
<1>2. ~InPhase(c, "idle") /\ Concluded(call[c])
  BY <1>1 DEF DealsOK, Deal, At, Concluded, InPhase
<1>3. LeftBehind(saga[c], fleet[HostOf(c)], fleet[SpareOf(c)])
  BY <1>2 DEF HInv, FleetInv
<1>4. call[c].req.kind = "Upgrade" => fleet[call[c].req.node].infra
  BY <1>2 DEF HInv, UpgradesUp
<1> QED
  BY <1>1, <1>3, <1>4, CopyIsTrue

\* After a deployment that ended Succeeded the record of its node is true of its
\* host (engine.rs:136-158), as long as nobody else has deployed there: whatever
\* other calls did, failed or were dropped, and whoever registered what
\* (SuccessIsRecorded).
THEOREM SuccessOnRecord == Spec => []SuccessIsRecorded
<1>1. HInv => SuccessIsRecorded
  BY HostsAreAsRecorded
<1> QED
  BY <1>1, InitHInv, NextHInv, PTL DEF Spec

\* engine.rs:87-168 with agent.rs:59-86: what the executor promises of the hosts
\* holds under the engine, also when attempts are repeated and clients hang up in
\* the middle of a step: while nobody else deploys on the primary of a failover no
\* two hosts vote with one staked key; and a run that was alone on its hosts has
\* delivered when it Succeeded and, when it was rolled back, has removed the
\* infrastructure whose ApplyInfra it had announced as completed.
THEOREM EngineKeepsHosts ==
  Spec => [](PrimariesApartNeverDoubleVote /\ SuccessDelivers /\ RollbackRemovesInfra)
<1>1. HInv => PrimariesApartNeverDoubleVote /\ SuccessDelivers /\ RollbackRemovesInfra
  <2>1. HInv => SagaTypeOK /\ Books /\ FleetInv
    BY DEF HInv, RInv, BInv, EInv
  <2> QED
    BY <2>1, FleetKeepsKeysApart, FleetDelivers, RolledBackIsGone
<1> QED
  BY <1>1, InitHInv, NextHInv, PTL DEF Spec

-----------------------------------------------------------------------------
(***************************************************************************)
(* Deployments one after the other.  With one slot a call that holds it    *)
(* has the highest run id of all (InTurn), so that the last deployment on  *)
(* its hosts is disturbed by nobody: LastLeft says of it what FleetInv     *)
(* says of a call that is alone, and LastStored that what it saved is      *)
(* still there unless the node was registered again.                       *)
(***************************************************************************)
Resaved(c) ==
  /\ call[c].req.node \in DOMAIN nodes
  /\ nodes[call[c].req.node] \in {call[c].node} \cup {NewNode(v) : v \in Versions}

Saved(r) == r.pc = "finish_run" \/ (r.pc = "returned" /\ r.result = "Ok")

InTurn ==
  \A c, d \in Calls : c # d /\ HasRun(c) /\ HasRun(d) /\ call[d].pc \in Holding =>
    call[c].run < call[d].run

Begun == \A c \in Calls : ~InPhase(c, "idle") => HasRun(c)

LastLeft ==
  \A c \in Calls : ~InPhase(c, "idle") /\ LastOnItsHosts(c) =>
    LeftBehind(saga[c], fleet[HostOf(c)], fleet[SpareOf(c)])

LastStored ==
  \A c \in Calls : ~InPhase(c, "idle") /\ LastOnItsHosts(c) /\ Saved(call[c]) => Resaved(c)

QInv == HInv /\ InTurn /\ Begun /\ LastLeft /\ LastStored

LEMMA OneAtATime ==
  ASSUME EInv, MaxDeploys = 1, NEW c \in Calls, NEW d \in Calls,
         call[c].pc \in Holding, call[d].pc \in Holding
  PROVE  c = d
<1> DEFINE H == {e \in Calls : call[e].pc \in Holding}
<1>1. slots \in Nat /\ slots + Cardinality(H) = 1
  BY DEF EInv, SlotsOK, SlotsAreConserved
<1>2. IsFiniteSet(H) /\ Cardinality(H) \in Nat
  BY EngineAssumption, FS_Subset, FS_CardinalityType
<1>3. ASSUME c # d PROVE FALSE
  <2>1. {c, d} \subseteq H
    OBVIOUS
  <2>2. Cardinality({c, d}) = 2
    <3>1. IsFiniteSet({c}) /\ Cardinality({c}) = 1
      BY FS_Singleton
    <3>2. Cardinality({c} \cup {d}) = Cardinality({c}) + 1
      BY <1>3, <3>1, FS_AddElement
    <3>3. {c, d} = {c} \cup {d}
      OBVIOUS
    <3> QED
      BY <3>1, <3>2, <3>3
  <2>3. Cardinality({c, d}) <= Cardinality(H)
    BY <1>2, <2>1, FS_Subset
  <2> HIDE DEF H
  <2> QED
    BY <1>1, <1>2, <2>2, <2>3
<1> QED
  BY <1>3

\* Who deploys has had its run id since the fetch_add, and keeps it and its slot.
LEMMA RunKept ==
  ASSUME EInv, [Next]_vars, NEW c \in Calls, ~FetchAdd(c)
  PROVE  /\ HasRun(c)' => HasRun(c) /\ (call'[c].pc \in Holding => call[c].pc \in Holding)
         /\ HasRun(c) => /\ HasRun(c)' /\ call'[c].run = call[c].run /\ call'[c].req = call[c].req
<1>0. CallsOK
  BY DEF EInv
<1>1. CASE call'[c] = call[c]
  BY <1>1 DEF HasRun, At
<1>2. ASSUME NEW q \in Requests, StartDeployment(c, q)
      PROVE  ~HasRun(c) /\ ~HasRun(c)'
  BY <1>0, <1>2 DEF StartDeployment, CallsOK, HasRun, At
<1>3. ASSUME Progress(c) \/ Cancel(c), call'[c] # call[c]
      PROVE  /\ HasRun(c)' => HasRun(c) /\ (call'[c].pc \in Holding => call[c].pc \in Holding)
             /\ HasRun(c) => /\ HasRun(c)' /\ call'[c].run = call[c].run
                             /\ call'[c].req = call[c].req
  <2>1. ~At(c, "none")
    BY <1>3 DEF Progress, TakeToken, TakeSlot, GetNode, GetSpare, FetchAdd, SaveRun, SagaStep,
                ApplyPath, SaveNode, FinishRun, Cancel, At, Suspended
  <2>2. call[c] \in CallRecord /\ Local(call[c], nextRun)
    BY <1>0, <2>1, Called
  <2>3. ASSUME call'[c].run = call[c].run, call'[c].req = call[c].req, call'[c].pc # "none",
               call'[c].pc \in Holding => call[c].pc \in Holding \cup Unnumbered
        PROVE  /\ HasRun(c)' => HasRun(c) /\ (call'[c].pc \in Holding => call[c].pc \in Holding)
               /\ HasRun(c) => /\ HasRun(c)' /\ call'[c].run = call[c].run
                               /\ call'[c].req = call[c].req
    BY <2>1, <2>2, <2>3 DEF HasRun, At, Local
  <2>4. ASSUME NEW e, Return(c, e)
        PROVE  /\ call'[c].run = call[c].run /\ call'[c].req = call[c].req
               /\ call'[c].pc = "returned"
    BY <1>0, <2>1, <2>4, ReturnFields
  <2>5. ASSUME NEW p, Goto(c, p)
        PROVE  call'[c].run = call[c].run /\ call'[c].req = call[c].req /\ call'[c].pc = p
    BY <1>0, <2>1, <2>5, GotoFields
  <2>6. CASE \E e : Return(c, e)
    BY <2>3, <2>4, <2>6 DEF Holding, Suspended
  <2>7. CASE TakeToken(c) \/ TakeSlot(c) \/ GetSpare(c) \/ SaveRun(c) \/ SaveNode(c) \/ FinishRun(c)
             \/ Cancel(c)
    <3>1. CASE \E p \in {"bulkhead", "get_node", "fetch_add", "saga", "finish_run"} : Goto(c, p)
      <4>1. call[c].pc \in Holding \cup Unnumbered
        BY <2>7, <3>1, <2>5, <2>6 DEF TakeToken, TakeSlot, GetSpare, SaveRun, SaveNode, FinishRun,
           Cancel, At, Holding, Suspended, Unnumbered
      <4> QED
        BY <2>3, <2>5, <3>1, <4>1
    <3> QED
      BY <2>6, <2>7, <3>1 DEF TakeToken, TakeSlot, GetSpare, SaveRun, SaveNode, FinishRun, Cancel,
         RepoError
  <2>8. CASE GetNode(c)
    <3>1. ASSUME NEW n, NEW p \in {"get_spare", "fetch_add"},
                 call' = [call EXCEPT ![c].read = n, ![c].node = n, ![c].pc = p]
          PROVE  call'[c].run = call[c].run /\ call'[c].req = call[c].req /\ call'[c].pc = p
      BY <1>0, <2>2, <3>1 DEF CallsOK, CallRecord
    <3>2. call[c].pc \in Holding
      BY <2>8 DEF GetNode, At, Holding, Suspended
    <3>3. \/ \E e : Return(c, e)
          \/ \E n : \E p \in {"get_spare", "fetch_add"} :
               call' = [call EXCEPT ![c].read = n, ![c].node = n, ![c].pc = p]
      BY <2>8 DEF GetNode, RepoError
    <3> QED
      BY <2>3, <2>6, <3>1, <3>2, <3>3
  <2>9. CASE ApplyPath(c)
    <3>1. ASSUME NEW n, call' = [call EXCEPT ![c].node = n, ![c].pc = "save_node"]
          PROVE  /\ call'[c].run = call[c].run /\ call'[c].req = call[c].req
                 /\ call'[c].pc = "save_node"
      BY <1>0, <2>2, <3>1 DEF CallsOK, CallRecord
    <3>2. call[c].pc \in Holding
      BY <2>9 DEF ApplyPath, At, Holding, Suspended
    <3>3. \/ \E e : Return(c, e)
          \/ \E n : call' = [call EXCEPT ![c].node = n, ![c].pc = "save_node"]
      BY <2>9 DEF ApplyPath
    <3> QED
      BY <2>3, <2>6, <3>1, <3>2, <3>3
  <2>10. CASE SagaStep(c)
    BY <1>3, <2>10 DEF SagaStep, engineVars
  <2> QED
    BY <1>3, <2>7, <2>8, <2>9, <2>10 DEF Progress
<1>4. ASSUME NEW d \in Calls, d # c, Progress(d) \/ Cancel(d) \/ (\E q \in Requests : StartDeployment(d, q))
      PROVE  call'[c] = call[c]
  BY <1>4, OwnStep
<1>5. CASE UNCHANGED call
  BY <1>1, <1>5
<1> QED
  BY <1>1, <1>2, <1>3, <1>4, <1>5, RepeatMoves DEF Next, vars, Refill, RegisterNode

LEMMA InTurnStep ==
  ASSUME EInv, EInv', MaxDeploys = 1, InTurn, [Next]_vars
  PROVE  InTurn'
<1> SUFFICES ASSUME NEW c \in Calls, NEW d \in Calls, c # d, HasRun(c)', HasRun(d)',
                    call'[d].pc \in Holding
             PROVE  call'[c].run < call'[d].run
  BY DEF InTurn
<1>1. CASE FetchAdd(d)
  <2>1. call'[d].run = nextRun /\ call'[c] = call[c]
    BY <1>1, Called DEF FetchAdd, EInv, CallsOK, At, CallRecord
  <2>2. call[c].run < nextRun
    BY <2>1, Called DEF HasRun, At, EInv, Local
  <2> QED
    BY <2>1, <2>2
<1>2. CASE ~FetchAdd(d)
  <2>1. HasRun(d) /\ call[d].pc \in Holding /\ call'[d].run = call[d].run
    BY <1>2, RunKept
  <2>2. ~FetchAdd(c)
    <3>1. FetchAdd(c) => call[c].pc \in Holding
      BY DEF FetchAdd, At, Holding
    <3> QED
      BY <2>1, <3>1, OneAtATime
  <2>3. HasRun(c) /\ call'[c].run = call[c].run
    BY <2>2, RunKept
  <2> QED
    BY <2>1, <2>3 DEF InTurn
<1> QED
  BY <1>1, <1>2

LEMMA BegunStep ==
  ASSUME EInv, DealsOK, DealsOK', Begun, [Next]_vars
  PROVE  Begun'
<1> SUFFICES ASSUME NEW c \in Calls, ~InPhase(c, "idle")' PROVE HasRun(c)'
  BY DEF Begun
<1>1. ~FetchAdd(c)
  <2>1. FetchAdd(c) => call'[c].pc = "save_run"
    BY Called DEF FetchAdd, EInv, CallsOK, At, CallRecord
  <2> QED
    BY <2>1 DEF DealsOK, Deal, InPhase, Entering
<1>2. CASE ~InPhase(c, "idle")
  BY <1>1, <1>2, RunKept DEF Begun
<1>3. CASE InPhase(c, "idle")
  <2>1. SaveRun(c)
    <3>1. saga'[c] # saga[c]
      BY <1>3 DEF InPhase
    <3>2. ASSUME NEW d \in Calls, SagaStep(d) PROVE FALSE
      <4>1. RunStep(d)
        BY <3>2 DEF SagaStep
      <4> QED
        BY <1>3, <3>1, <4>1, JobKept DEF EInv
    <3>3. ASSUME NEW d \in Calls, d # c, SaveRun(d) PROVE FALSE
      BY <3>1, <3>3, OwnStep DEF Progress
    <3>4. ASSUME NEW d \in Calls, RepeatAttempt(d) \/ Cancel(d) PROVE FALSE
      BY <3>1, <3>4 DEF RepeatAttempt, Cancel
    <3> QED
      BY <3>1, <3>2, <3>3, <3>4, SagaMovers DEF sagaVars
  <2>2. HasRun(c)
    BY <2>1, Called DEF SaveRun, At, EInv, Local, Numbered, HasRun
  <2> QED
    BY <1>1, <2>2, RunKept
<1> QED
  BY <1>2, <1>3

\* Who was on the hosts of a call stays there, with the id it has.
LEMMA LastStays ==
  ASSUME EInv, DealsOK, Begun, [Next]_vars, NEW c \in Calls, ~InPhase(c, "idle"),
         LastOnItsHosts(c)'
  PROVE  LastOnItsHosts(c)
<1>1. ASSUME NEW d \in Calls, ~InPhase(d, "idle") PROVE call'[d].run = call[d].run
  <2>1. ~FetchAdd(d)
    BY <1>1 DEF FetchAdd, At, DealsOK, Deal, InPhase, Entering
  <2> QED
    BY <1>1, <2>1, RunKept DEF Begun
<1>2. \A d \in Calls : Touches(d) \subseteq Touches(d)'
  BY HostsMove
<1>3. \A d \in Calls : InPhase(d, "idle") => Touches(d) = {}
  BY DEF Touches
<1> QED
  BY <1>1, <1>2, <1>3 DEF LastOnItsHosts

\* Nobody deploys on the hosts of the last.
LEMMA LastIsLeftAlone ==
  ASSUME EInv, DealsOK, Begun, InTurn, NEW c \in Calls, ~InPhase(c, "idle"), LastOnItsHosts(c),
         NEW d \in Calls \ {c}, ~InPhase(d, "idle"), call[d].pc \in Holding
  PROVE  Touches(c) \cap Touches(d) = {}
<1>1. HasRun(c) /\ HasRun(d)
  BY DEF Begun
<1>2. call[c].run < call[d].run
  BY <1>1 DEF InTurn
<1>3. call[c].run \in Nat /\ call[d].run \in Nat
  BY <1>1, Called DEF HasRun, EInv, CallRecord
<1>4. Touches(d) \cap Touches(c) = {} \/ call[d].run < call[c].run
  BY DEF LastOnItsHosts
<1> QED
  BY <1>2, <1>3, <1>4

\* Its hosts are moved by its own steps alone.
LEMMA LastMoves ==
  ASSUME EInv, DealsOK, Begun, InTurn, [Next]_vars,
         NEW c \in Calls, ~InPhase(c, "idle"), LastOnItsHosts(c),
         ~SagaStep(c), ~RepeatAttempt(c), ~Cancel(c)
  PROVE  \A x \in Touches(c) \cap Hosts : fleet'[x] = fleet[x]
<1> SUFFICES ASSUME NEW x \in Hosts, x \in Touches(c), fleet'[x] # fleet[x] PROVE FALSE
  OBVIOUS
<1>1. PICK d \in Calls : x \in Touches(d) /\ (SagaStep(d) \/ RepeatAttempt(d) \/ Cancel(d))
  BY HostsMove
<1>2. d # c /\ ~InPhase(d, "idle")
  BY <1>1 DEF Touches
<1>3. call[d].pc \in Holding
  BY <1>1 DEF SagaStep, RepeatAttempt, Cancel, At, Holding, Suspended
<1> QED
  BY <1>1, <1>2, <1>3, LastIsLeftAlone

LEMMA LastLeftStep ==
  ASSUME EInv, DealsOK, KeyInv, Begun, InTurn, LastLeft, [Next]_vars
  PROVE  LastLeft'
<1> SUFFICES ASSUME NEW c \in Calls, ~InPhase(c, "idle")', LastOnItsHosts(c)'
             PROVE  LeftBehind(saga[c], fleet[HostOf(c)], fleet[SpareOf(c)])'
  BY DEF LastLeft
<1>0. SagaTypeOK
  BY DEF EInv
<1>1. CASE InPhase(c, "idle")
  <2>1. saga'[c] # saga[c]
    BY <1>1 DEF InPhase
  <2>2. ASSUME NEW d \in Calls, SagaStep(d) PROVE FALSE
    <3>1. RunStep(d)
      BY <2>2 DEF SagaStep
    <3> QED
      BY <1>0, <1>1, <2>1, <3>1, JobKept
  <2>3. ASSUME NEW d \in Calls, SaveRun(d), ~UNCHANGED sagaVars PROVE \E job : saga'[c] = Entered(job)
    <3>1. Begin(d, JobOf(d))
      BY <2>3 DEF SaveRun
    <3>2. saga' = [saga EXCEPT ![d] = Entered(JobOf(d))]
      BY <3>1 DEF Begin
    <3> QED
      BY <1>0, <2>1, <3>2 DEF SagaTypeOK
  <2>4. ASSUME NEW d \in Calls, RepeatAttempt(d) \/ Cancel(d) PROVE FALSE
    BY <2>1, <2>4 DEF RepeatAttempt, Cancel
  <2>5. \E job : saga'[c] = Entered(job)
    BY <2>1, <2>2, <2>3, <2>4, SagaMovers DEF sagaVars
  <2> QED
    BY <2>5, EnteredLeft
<1>2. CASE ~InPhase(c, "idle")
  <2>1. LastOnItsHosts(c) /\ LeftBehind(saga[c], fleet[HostOf(c)], fleet[SpareOf(c)])
    BY <1>2, LastStays DEF LastLeft
  <2>2. HostOf(c) \in Touches(c) \cap Hosts /\ SpareOf(c) \in Touches(c) \cap Hosts
    BY <1>0, <1>2, TouchesItsHosts
  <2>3. CASE SagaStep(c)
    <3>1. RunStep(c) /\ HostOf(c)' = HostOf(c) /\ SpareOf(c)' = SpareOf(c)
      BY <1>0, <2>3, JobKept DEF SagaStep, HostOf, SpareOf
    <3> QED
      BY <1>0, <2>1, <3>1, LeftStep DEF KeyInv
  <2>4. CASE RepeatAttempt(c) \/ Cancel(c)
    <3>1. saga' = saga
      BY <2>4 DEF RepeatAttempt, Cancel
    <3>2. fleet' = fleet \/ (Awaiting(c) /\ fleet' \in AfterFailure(c))
      BY <2>4 DEF RepeatAttempt, Cancel
    <3>3. LeftBehind(saga[c], fleet'[HostOf(c)], fleet'[SpareOf(c)])
      BY <1>0, <2>1, <3>2, LeftInTheMiddle
    <3> QED
      BY <3>1, <3>3 DEF HostOf, SpareOf
  <2>5. CASE ~SagaStep(c) /\ ~RepeatAttempt(c) /\ ~Cancel(c)
    <3>1. fleet'[HostOf(c)] = fleet[HostOf(c)] /\ fleet'[SpareOf(c)] = fleet[SpareOf(c)]
      BY <1>2, <2>1, <2>2, <2>5, LastMoves
    <3>2. saga'[c] = saga[c]
      <4>1. ASSUME NEW d \in Calls, SagaStep(d) PROVE saga'[c] = saga[c]
        BY <2>5, <4>1, OwnStep DEF Progress
      <4>2. ASSUME NEW d \in Calls, RepeatAttempt(d) \/ Cancel(d) PROVE saga'[c] = saga[c]
        BY <4>2 DEF RepeatAttempt, Cancel
      <4>3. ASSUME NEW d \in Calls, SaveRun(d) PROVE saga'[c] = saga[c]
        <5>1. CASE d # c
          BY <4>3, <5>1, OwnStep DEF Progress
        <5>2. CASE d = c
          BY <1>2, <4>3, <5>2 DEF SaveRun, At, DealsOK, Deal, InPhase, Entering
        <5> QED
          BY <5>1, <5>2
      <4> QED
        BY <4>1, <4>2, <4>3, SagaMovers DEF sagaVars
    <3> QED
      BY <2>1, <3>1, <3>2 DEF HostOf, SpareOf
  <2> QED
    BY <2>3, <2>4, <2>5
<1> QED
  BY <1>1, <1>2

LEMMA LastStoredStep ==
  ASSUME EInv, DealsOK, DealsOK', OwnersOK, Begun, InTurn, LastStored, [Next]_vars
  PROVE  LastStored'
<1> SUFFICES ASSUME NEW c \in Calls, ~InPhase(c, "idle")', LastOnItsHosts(c)', Saved(call'[c])
             PROVE  Resaved(c)'
  BY DEF LastStored
<1> DEFINE n == call[c].req.node
<1>0. SagaTypeOK /\ CallsOK
  BY DEF EInv
\* A save of the same node by the call itself is the only way into the premise.
<1>1. CASE SaveNode(c)
  <2>1. ~At(c, "none") /\ call[c].pc = "save_node"
    BY <1>1 DEF SaveNode, At
  <2>2. ~RepoError(c)
    BY <1>0, <2>1, ReturnFields DEF RepoError, Saved
  <2>3. Goto(c, "finish_run") /\ nodes' = Upsert(nodes, n, call[c].node)
    BY <1>1, <2>2 DEF SaveNode
  <2>4. call'[c].req = call[c].req /\ call'[c].node = call[c].node
    BY <1>0, <2>1, <2>3, GotoFields
  <2>5. n \in DOMAIN nodes' /\ nodes'[n] = call[c].node
    BY <2>3 DEF Upsert
  <2> QED
    BY <2>4, <2>5 DEF Resaved
<1>2. CASE ~SaveNode(c)
  <2>1. /\ Saved(call[c]) /\ ~InPhase(c, "idle") /\ call'[c].req = call[c].req
        /\ call'[c].node = call[c].node
    <3>1. CASE call'[c] = call[c] /\ saga'[c] = saga[c]
      BY <1>2, <3>1 DEF InPhase
    <3>2. CASE Failing(c)
      BY <3>2 DEF Failing, Saved, Errors
    <3>3. CASE saga'[c] = saga[c] /\ call'[c].pc \in Entering
      BY <3>3 DEF Saved, Entering
    <3>4. CASE EntersSaga(c) \/ LeavesSaga(c)
      BY <3>4 DEF EntersSaga, LeavesSaga, Saved
    <3>5. CASE call' = call /\ SagaStep(c)
      BY <3>5 DEF SagaStep, At, Saved
    <3>6. CASE FinishRun(c)
      <4>1. ~At(c, "none") /\ call[c].pc = "finish_run" /\ saga' = saga
        BY <3>6 DEF FinishRun, At, sagaVars
      <4>2. \E e : Return(c, e)
        BY <3>6 DEF FinishRun, RepoError
      <4>3. call'[c].req = call[c].req /\ call'[c].node = call[c].node
        BY <1>0, <4>1, <4>2, ReturnFields
      <4> QED
        BY <4>1, <4>3 DEF Saved, InPhase
    <3>7. ASSUME NEW d \in Calls, Progress(d) \/ Cancel(d) \/ (\E q \in Requests : StartDeployment(d, q))
          PROVE  \/ call'[c] = call[c] /\ saga'[c] = saga[c]
                 \/ Failing(c) \/ (saga'[c] = saga[c] /\ call'[c].pc \in Entering)
                 \/ EntersSaga(c) \/ LeavesSaga(c) \/ (call' = call /\ SagaStep(c)) \/ FinishRun(c)
      <4>1. CASE d # c
        BY <3>7, <4>1, OwnStep
      <4>2. CASE d = c /\ ~Closing(c)
        BY <3>7, <4>2, OwnStep
      <4>3. CASE d = c /\ Closing(c)
        <5>1. CASE Cancel(c)
          <6>1. ~At(c, "none") /\ Return(c, "Cancelled") /\ saga' = saga
            BY <5>1 DEF Cancel, At, Suspended
          <6> QED
            BY <1>0, <6>1, ReturnFields DEF Failing, Errors
        <5>2. CASE ~Cancel(c)
          BY <1>2, <3>7, <4>3, <5>2 DEF Closing, Progress, StartDeployment, TakeToken, TakeSlot,
             GetNode, GetSpare, FetchAdd, SaveRun, SagaStep, ApplyPath, At
        <5> QED
          BY <5>1, <5>2
      <4> QED
        BY <4>1, <4>2, <4>3
    <3>8. CASE UNCHANGED <<call, saga>>
      BY <3>1, <3>8
    <3> QED
      BY <3>1, <3>2, <3>3, <3>4, <3>5, <3>6, <3>7, <3>8, RepeatMoves
         DEF Next, vars, sagaVars, Refill, RegisterNode
  <2>2. LastOnItsHosts(c) /\ Resaved(c)
    BY <2>1, LastStays DEF LastStored
  <2>3. HostOf(c) = n /\ n \in Touches(c)
    BY <1>0, <2>1, TouchesItsHosts DEF DealsOK, Deal, AsAsked, InPhase, HostOf
  <2>4. ASSUME NEW m \in Hosts, NEW v \in Versions, RegisterNode(m, v)
        PROVE  Resaved(c)'
    BY <2>1, <2>2, <2>4 DEF RegisterNode, Upsert, Resaved
  <2>5. ASSUME NEW d \in Calls \ {c}, SaveNode(d)
        PROVE  Resaved(c)'
    <3>1. ~At(d, "none") /\ call[d].pc = "save_node" /\ call[d].pc \in Holding
      BY <2>5 DEF SaveNode, At, Holding, Suspended
    <3>2. ~InPhase(d, "idle")
      BY <3>1 DEF OwnersOK, Owns, InPhase
    <3>3. call[d].req.node \in Touches(d)
      BY <1>0, <3>2, TouchesItsHosts DEF DealsOK, Deal, AsAsked, InPhase, HostOf
    <3>4. call[d].req.node # n
      BY <2>1, <2>2, <2>3, <3>1, <3>2, <3>3, LastIsLeftAlone
    <3>5. nodes' = nodes \/ nodes' = Upsert(nodes, call[d].req.node, call[d].node)
      BY <2>5 DEF SaveNode
    <3> QED
      BY <2>1, <2>2, <3>4, <3>5 DEF Upsert, Resaved
  <2>6. CASE nodes' = nodes
    BY <2>1, <2>2, <2>6 DEF Resaved
  <2>7. nodes' = nodes \/ (\E m \in Hosts, v \in Versions : RegisterNode(m, v)) \/ \E d \in Calls : SaveNode(d)
    BY DEF Next, Progress, vars, repoVars, engineVars, Refill, StartDeployment, TakeToken,
       TakeSlot, GetNode, GetSpare, FetchAdd, SaveRun, SagaStep, ApplyPath, FinishRun,
       RepeatAttempt, Cancel
  <2> QED
    BY <1>2, <2>4, <2>5, <2>6, <2>7
<1> QED
  BY <1>1, <1>2

\* With one slot, however many deployments of any kinds have come and gone on its
\* hosts, ended well, failed, been refused, dropped or left half done: the last of
\* them, when it ended Succeeded, is in the store as it was saved and true of its
\* hosts (engine.rs:91, 136-158; LastSuccessIsRecorded).
THEOREM LastSuccessOnRecord ==
  ASSUME MaxDeploys = 1
  PROVE  Spec => []LastSuccessIsRecorded
<1>1. Init => QInv
  <2> SUFFICES ASSUME Init PROVE QInv
    OBVIOUS
  <2>1. \A c \in Calls : InPhase(c, "idle") /\ ~HasRun(c)
    BY DEF Init, SagaInit, Idle, InPhase, HasRun, At, NotCalled
  <2> QED
    BY <2>1, InitHInv DEF QInv, InTurn, Begun, LastLeft, LastStored
<1>2. QInv /\ [Next]_vars => QInv'
  <2> SUFFICES ASSUME QInv, [Next]_vars PROVE QInv'
    OBVIOUS
  <2>1. EInv /\ DealsOK /\ OwnersOK /\ KeyInv
    BY DEF QInv, HInv, RInv, BInv, FleetInv
  <2>2. HInv'
    BY NextHInv DEF QInv
  <2>3. EInv' /\ DealsOK'
    BY <2>2 DEF HInv, RInv, BInv
  <2> QED
    BY <2>1, <2>2, <2>3, InTurnStep, BegunStep, LastLeftStep, LastStoredStep DEF QInv
<1>3. QInv => LastSuccessIsRecorded
  <2> SUFFICES ASSUME QInv, NEW c \in Calls, At(c, "returned"), call[c].result = "Ok",
                      saga[c].status = "Succeeded", LastOnItsHosts(c),
                      call[c].req.kind = "Failover" => call[c].req.spare # call[c].req.node
               PROVE  LET q == call[c].req IN
                      /\ nodes[q.node] \in {call[c].node} \cup {NewNode(v) : v \in Versions}
                      /\ fleet[q.node].infra => Truthful(q.node)
                      /\ q.kind = "Failover" /\ fleet[q.spare].infra => fleet[q.spare].key = OwnKey(q.node)
    BY DEF LastSuccessIsRecorded
  <2>1. EInv /\ DealsOK
    BY DEF QInv, HInv, RInv, BInv
  <2>2. ~InPhase(c, "idle")
    BY <2>1 DEF DealsOK, Deal, At, InPhase
  <2>3. Resaved(c) /\ LeftBehind(saga[c], fleet[HostOf(c)], fleet[SpareOf(c)])
    BY <2>2 DEF QInv, LastLeft, LastStored, Saved, At
  <2>4. ASSUME fleet[call[c].req.node].infra PROVE Truthful(call[c].req.node)
    <3>1. CASE nodes[call[c].req.node] = call[c].node
      BY <2>1, <2>3, <2>4, <3>1, CopyIsTrue
    <3>2. ASSUME NEW v \in Versions, nodes[call[c].req.node] = NewNode(v)
          PROVE  Truthful(call[c].req.node)
      BY <3>2 DEF NewNode, Truthful
    <3> QED
      BY <2>3, <3>1, <3>2 DEF Resaved
  <2>5. ASSUME call[c].req.kind = "Failover", fleet[call[c].req.spare].infra
        PROVE  fleet[call[c].req.spare].key = OwnKey(call[c].req.node)
    <3>1. /\ saga[c].job.kind = "Failover" /\ HostOf(c) = call[c].req.node
          /\ SpareOf(c) = call[c].req.spare
      BY <2>1, <2>2, <2>5 DEF DealsOK, Deal, AsAsked, InPhase, HostOf, SpareOf
    <3>2. FailoverLeft(saga[c], fleet[HostOf(c)], fleet[SpareOf(c)])
      BY <2>3, <3>1 DEF LeftBehind
    <3> QED
      BY <2>5, <3>1, <3>2 DEF FailoverLeft, Won, HostOf, SpareOf
  <2> QED
    BY <2>3, <2>4, <2>5 DEF Resaved
<1> QED
  BY <1>1, <1>2, <1>3, PTL DEF Spec
=============================================================================
