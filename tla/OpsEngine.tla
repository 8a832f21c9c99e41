------------------------------ MODULE OpsEngine ------------------------------
(***************************************************************************)
(* OpsEngine (validatorforge-core/src/engine.rs) over its repository, the  *)
(* saga executor and the admission guards.  A member of Calls is one call  *)
(* of start_deployment; calls run concurrently on a multi-threaded         *)
(* runtime.  The code suspends only in a repository call or an agent call  *)
(* (EventSink::publish never waits), so an action is one such call with    *)
(* the statements up to the next; the limiter, the bulkhead and the run    *)
(* counter are shared between threads and have actions of their own.       *)
(*                                                                         *)
(* A node and its host are one name: the engine always acts on the host of *)
(* the node it has read.                                                   *)
(***************************************************************************)
EXTENDS SagaExecutor, FiniteSets

CONSTANTS Requests,      \* the deployments that may be asked for
          Registrable,   \* the nodes a client may register
          RateCapacity,  \* burst size of the token bucket
          MaxDeploys,    \* capacity of the bulkhead
          RepoMayFail,   \* may a repository call return an error?
          MayCancel      \* may a client hang up, dropping its call's future?

AllRequests == {q \in [node : Hosts, kind : Kinds, spare : Hosts, target : Versions] :
                  q.kind # "Failover" => q.spare = q.node}

ASSUME EngineAssumption ==
  /\ IsFiniteSet(Calls)
  /\ Requests \subseteq AllRequests
  /\ Registrable \subseteq Hosts
  /\ RateCapacity \in Nat /\ MaxDeploys \in Nat \ {0}
  /\ RepoMayFail \in BOOLEAN /\ MayCancel \in BOOLEAN

VARIABLES nodes,    \* repository: the stored node of each registered name
          runs,     \* repository: the stored run of each run id
          tokens,   \* whole tokens in the rate limiter
          slots,    \* free permits of the bulkhead
          nextRun,  \* the AtomicU64 run counter
          call,     \* [Calls -> CallRecord], the locals of start_deployment
          audit     \* [Calls -> AuditRecord], the engine's events of each call

repoVars == <<nodes, runs>>
engineVars == <<nodes, runs, tokens, slots, nextRun, call, audit>>
vars == <<fleet, saga, trail, nodes, runs, tokens, slots, nextRun, call, audit>>

NodeRecord == [state : NodeStates, version : Versions]
RunRecord  == [node : Hosts, kind : Kinds, status : RunStatuses, steps : Nat]

\* The repository calls are upserts into a map.
Upsert(f, k, v) == [x \in DOMAIN f \cup {k} |-> IF x = k THEN v ELSE f[x]]

(***************************************************************************)
(* pc is where the call is: in front of the limiter's verdict ("start"),   *)
(* the bulkhead, or suspended in the named await.  node is the local copy  *)
(* of the stored node, read the copy as it was read; run is the run id.    *)
(***************************************************************************)
Suspended == {"get_node", "get_spare", "save_run", "saga", "save_node", "finish_run"}
Holding   == Suspended \cup {"fetch_add"}
Errors    == {"Throttled", "NotFound", "PortError", "IllegalTransition", "Cancelled"}

NoNode == [state |-> "none"]

CallRecord == [pc     : {"start", "bulkhead", "returned"} \cup Holding,
               req    : Requests,
               read   : NodeRecord \cup {NoNode},
               node   : NodeRecord \cup {NoNode},
               run    : Nat,
               result : {"pending", "Ok"} \cup Errors]

NotCalled == [pc |-> "none"]

\* The engine's events about a call: RunStarted, the moves of the
\* NodeStateChanged events, and the status of RunFinished ("Running": none).
AuditRecord == [started : BOOLEAN, moves : Seq(NodeStates \X NodeStates),
                finished : RunStatuses]
Silent == [started |-> FALSE, moves |-> << >>, finished |-> "Running"]

At(c, p) == call[c].pc = p

Goto(c, p) == call' = [call EXCEPT ![c].pc = p]

-----------------------------------------------------------------------------
(* Leaving start_deployment: the slot guard is dropped on every way out.   *)

\* Mutated forms of Release: a permit comes back for calls that hold none; only
\* a finished deployment gives its permit back.
ReleaseAlways(c) == slots' = slots + 1
ReleaseWhenDone(c) == slots' = IF At(c, "finish_run") THEN slots + 1 ELSE slots

Release(c) == slots' = IF call[c].pc \in Holding THEN slots + 1 ELSE slots

Return(c, result) ==
  /\ call' = [call EXCEPT ![c].pc = "returned", ![c].result = result]
  /\ Release(c)

\* A save that returns an error may have been stored all the same.
RepoError(c) == RepoMayFail /\ Return(c, "PortError")

-----------------------------------------------------------------------------
(* register_node, the admission guards and the loads.                      *)

\* ValidatorNode::new.
NewNode(v) == [state |-> "Provisioning", version |-> v]

\* registerNode builds a fresh node and upserts it, whatever is stored under the
\* id.
RegisterNode(n, v) ==
  /\ n \in Registrable
  /\ nodes' = Upsert(nodes, n, NewNode(v))
  /\ UNCHANGED <<sagaVars, runs, tokens, slots, nextRun, call, audit>>

Refill ==
  /\ tokens < RateCapacity
  /\ tokens' = tokens + 1
  /\ UNCHANGED <<sagaVars, repoVars, slots, nextRun, call, audit>>

StartDeployment(c, q) ==
  /\ At(c, "none")
  /\ call' = [call EXCEPT ![c] = [pc |-> "start", req |-> q, read |-> NoNode,
                                  node |-> NoNode, run |-> 0, result |-> "pending"]]
  /\ UNCHANGED <<sagaVars, repoVars, tokens, slots, nextRun, audit>>

\* Mutated form of TakeToken: the limiter is waited for.
TakeTokenOrWait(c) ==
  /\ At(c, "start")
  /\ tokens > 0
  /\ tokens' = tokens - 1
  /\ Goto(c, "bulkhead")
  /\ UNCHANGED <<sagaVars, repoVars, slots, nextRun, audit>>

TakeToken(c) ==
  /\ At(c, "start")
  /\ \/ tokens = 0 /\ Return(c, "Throttled") /\ UNCHANGED tokens
     \/ tokens > 0 /\ tokens' = tokens - 1 /\ Goto(c, "bulkhead") /\ UNCHANGED slots
  /\ UNCHANGED <<sagaVars, repoVars, nextRun, audit>>

\* The token is gone whether or not there is a slot.
TakeSlot(c) ==
  /\ At(c, "bulkhead")
  /\ \/ slots = 0 /\ Return(c, "Throttled")
     \/ slots > 0 /\ slots' = slots - 1 /\ Goto(c, "get_node")
  /\ UNCHANGED <<sagaVars, repoVars, tokens, nextRun, audit>>

GetNode(c) ==
  /\ At(c, "get_node")
  /\ LET q == call[c].req IN
     \/ RepoError(c)
     \/ q.node \notin DOMAIN nodes /\ Return(c, "NotFound")
     \/ /\ q.node \in DOMAIN nodes
        /\ call' = [call EXCEPT ![c].read = nodes[q.node], ![c].node = nodes[q.node],
                      ![c].pc = IF q.kind = "Failover" THEN "get_spare" ELSE "fetch_add"]
        /\ UNCHANGED slots
  /\ UNCHANGED <<sagaVars, repoVars, tokens, nextRun, audit>>

\* Only the host of the spare is kept; its state and role are not looked at.
GetSpare(c) ==
  /\ At(c, "get_spare")
  /\ \/ RepoError(c)
     \/ call[c].req.spare \notin DOMAIN nodes /\ Return(c, "NotFound")
     \/ call[c].req.spare \in DOMAIN nodes /\ Goto(c, "fetch_add") /\ UNCHANGED slots
  /\ UNCHANGED <<sagaVars, repoVars, tokens, nextRun, audit>>

\* Mutated form of FetchAdd: the counter is read and not advanced.
FetchOnly(c) ==
  /\ At(c, "fetch_add")
  /\ call' = [call EXCEPT ![c].run = nextRun, ![c].pc = "save_run"]
  /\ UNCHANGED <<sagaVars, repoVars, tokens, slots, nextRun, audit>>

FetchAdd(c) ==
  /\ At(c, "fetch_add")
  /\ nextRun' = nextRun + 1
  /\ call' = [call EXCEPT ![c].run = nextRun, ![c].pc = "save_run"]
  /\ UNCHANGED <<sagaVars, repoVars, tokens, slots, audit>>

-----------------------------------------------------------------------------
(* The run: stored, announced, executed.                                   *)

\* Mutated form of RunOf: the run is saved without run.finish.
RunUnfinished(c, status, steps) ==
  [node |-> call[c].req.node, kind |-> call[c].req.kind, status |-> "Running", steps |-> steps]

RunOf(c, status, steps) ==
  [node |-> call[c].req.node, kind |-> call[c].req.kind, status |-> status, steps |-> steps]

JobOf(c) ==
  LET q == call[c].req IN
  [kind |-> q.kind, host |-> q.node, spare |-> q.spare,
   version |-> IF q.kind = "Upgrade" THEN q.target ELSE call[c].node.version]

\* save_run, then RunStarted, then into SagaExecutor::run.
SaveRun(c) ==
  /\ At(c, "save_run")
  /\ LET stored == Upsert(runs, call[c].run, RunOf(c, "Running", 0)) IN
     \/ RepoError(c) /\ runs' \in {runs, stored} /\ UNCHANGED <<sagaVars, audit>>
     \/ /\ runs' = stored
        /\ audit' = [audit EXCEPT ![c].started = TRUE]
        /\ Begin(c, JobOf(c))
        /\ Goto(c, "saga")
        /\ UNCHANGED slots
  /\ UNCHANGED <<nodes, tokens, nextRun>>

SagaStep(c) ==
  /\ At(c, "saga")
  /\ RunStep(c)
  /\ UNCHANGED engineVars

\* The executor's agent is the resilient one: an attempt that failed, and may
\* have done its work or half of it, is repeated, on a host others look at.
RepeatAttempt(c) ==
  /\ At(c, "saga") /\ Awaiting(c)
  /\ fleet' \in AfterFailure(c)
  /\ UNCHANGED <<saga, trail, engineVars>>

(***************************************************************************)
(* The saga has returned: apply the path of its verdict to the local copy, *)
(* announcing each move as it is made, and give up on the first move that  *)
(* is not an edge.  Only a copy that walked the whole path goes on to be   *)
(* saved, with the new version if this was an upgrade that succeeded.      *)
(***************************************************************************)
Moves(s, path) == [i \in 1..Walked(s, path) |-> <<Before(s, path, i), path[i]>>]

\* Mutated form of NodeAfter: no set_version.
NodeAfterUnversioned(c, path) ==
  [state |-> StateAfter(call[c].node.state, path), version |-> call[c].node.version]

NodeAfter(c, path) ==
  [state   |-> StateAfter(call[c].node.state, path),
   version |-> IF saga[c].status = "Succeeded" /\ call[c].req.kind = "Upgrade"
               THEN call[c].req.target ELSE call[c].node.version]

ApplyPath(c) ==
  /\ At(c, "saga") /\ InPhase(c, "returned")
  /\ LET path == Path(call[c].req.kind, saga[c].status) IN
     /\ audit' = [audit EXCEPT ![c].moves = Moves(call[c].node.state, path)]
     /\ \/ /\ ~Completes(call[c].node.state, path)
           /\ Return(c, "IllegalTransition")
        \/ /\ Completes(call[c].node.state, path)
           /\ call' = [call EXCEPT ![c].node = NodeAfter(c, path), ![c].pc = "save_node"]
           /\ UNCHANGED slots
  /\ UNCHANGED <<sagaVars, repoVars, tokens, nextRun>>

\* Mutated form of SaveNode: a run that was rolled back is left as it is.
SaveNodeOrLeave(c) ==
  /\ At(c, "save_node")
  /\ nodes' = Upsert(nodes, call[c].req.node, call[c].node)
  /\ \/ saga[c].status = "Succeeded" /\ Goto(c, "finish_run") /\ UNCHANGED slots
     \/ saga[c].status # "Succeeded" /\ Return(c, "Ok")
  /\ UNCHANGED <<sagaVars, runs, tokens, nextRun, audit>>

SaveNode(c) ==
  /\ At(c, "save_node")
  /\ LET stored == Upsert(nodes, call[c].req.node, call[c].node) IN
     \/ RepoError(c) /\ nodes' \in {nodes, stored}
     \/ /\ nodes' = stored
        /\ Goto(c, "finish_run")
        /\ UNCHANGED slots
  /\ UNCHANGED <<sagaVars, runs, tokens, nextRun, audit>>

\* run.finish, save_run, then RunFinished.
FinishRun(c) ==
  /\ At(c, "finish_run")
  /\ LET stored == Upsert(runs, call[c].run, RunOf(c, saga[c].status, saga[c].done)) IN
     \/ RepoError(c) /\ runs' \in {runs, stored} /\ UNCHANGED audit
     \/ /\ runs' = stored
        /\ audit' = [audit EXCEPT ![c].finished = saga[c].status]
        /\ Return(c, "Ok")
  /\ UNCHANGED <<sagaVars, nodes, tokens, nextRun>>

\* The future of a suspended call is dropped: nothing is compensated, the slot
\* comes back, and an agent call under way may or may not take effect.
Cancel(c) ==
  /\ MayCancel
  /\ call[c].pc \in Suspended
  /\ Return(c, "Cancelled")
  /\ \/ At(c, "saga") /\ Awaiting(c) /\ fleet' \in AfterFailure(c)
     \/ ~At(c, "saga") /\ UNCHANGED fleet
  /\ UNCHANGED <<saga, trail, repoVars, tokens, nextRun, audit>>

-----------------------------------------------------------------------------
\* A repository as the operator filled it: registered hosts that wait to be
\* provisioned have nothing behind them, active ones run what is recorded.
Agrees(n, f) ==
  CASE n.state = "Provisioning" -> f = Absent
    [] n.state = "Active" -> f.infra /\ f.version = n.version
    [] OTHER -> FALSE

Init ==
  /\ SagaInit
  /\ \E known \in SUBSET Hosts : nodes \in [known -> NodeRecord]
  /\ \A n \in Hosts : IF n \in DOMAIN nodes THEN Agrees(nodes[n], fleet[n])
                                            ELSE fleet[n] = Absent
  /\ runs = << >>
  /\ tokens = RateCapacity
  /\ slots = MaxDeploys
  /\ nextRun = 1
  /\ call = [c \in Calls |-> NotCalled]
  /\ audit = [c \in Calls |-> Silent]

Progress(c) ==
  \/ TakeToken(c) \/ TakeSlot(c) \/ GetNode(c) \/ GetSpare(c) \/ FetchAdd(c)
  \/ SaveRun(c) \/ SagaStep(c) \/ ApplyPath(c) \/ SaveNode(c) \/ FinishRun(c)

Next ==
  \/ Refill
  \/ \E n \in Hosts, v \in Versions : RegisterNode(n, v)
  \/ \E c \in Calls : \/ \E q \in Requests : StartDeployment(c, q)
                      \/ Progress(c) \/ RepeatAttempt(c) \/ Cancel(c)

Spec == Init /\ [][Next]_vars

\* The runtime polls every task that can go on, and every await ends: agent
\* calls by their timeouts, repository calls because the store answers.
Fairness == \A c \in Calls : WF_vars(Progress(c))

FairSpec == Spec /\ Fairness

-----------------------------------------------------------------------------
TypeOK ==
  /\ SagaTypeOK
  /\ DOMAIN nodes \subseteq Hosts /\ nodes \in [DOMAIN nodes -> NodeRecord]
  /\ DOMAIN runs \subseteq Nat /\ runs \in [DOMAIN runs -> RunRecord]
  /\ tokens \in 0..RateCapacity
  /\ slots \in 0..MaxDeploys
  /\ nextRun \in Nat \ {0}
  /\ call \in [Calls -> {NotCalled} \cup CallRecord]
  /\ audit \in [Calls -> AuditRecord]

(***************************************************************************)
(* Whatever fails, hangs up or interleaves                                 *)
(***************************************************************************)

\* The repository only ever holds nodes at rest: the states in the middle of a
\* path live in the local copy of one call (engine.rs:141-158), so no crash,
\* error or hang-up can leave a node stored as Bootstrapping or Draining.
AtRest == {"Provisioning", "Active", "Failed", "Decommissioned"}

OnlyNodesAtRestAreStored == \A n \in DOMAIN nodes : nodes[n].state \in AtRest

\* The bulkhead's permits are conserved on every way out of start_deployment:
\* success, early return, error or a dropped future (engine.rs:91, `_slot`).
SlotsAreConserved ==
  slots + Cardinality({c \in Calls : call[c].pc \in Holding}) = MaxDeploys

\* Run ids are handed out once (engine.rs:115): two calls never share one, and
\* a stored run is about the node and the kind of the call that owns it.
HasRun(c) == ~At(c, "none") /\ call[c].run # 0

RunsBelongToOneCall ==
  /\ \A c, d \in Calls : c # d /\ HasRun(c) /\ HasRun(d) => call[c].run # call[d].run
  /\ \A id \in DOMAIN runs : \E c \in Calls :
       /\ HasRun(c) /\ call[c].run = id
       /\ runs[id].node = call[c].req.node /\ runs[id].kind = call[c].req.kind

\* Who sees RunFinished can rely on the store: the run is there with the same
\* status and with exactly the steps whose completion was published
\* (engine.rs:160-168 saves before it publishes).
FinishedRunIsStored ==
  \A c \in Calls : audit[c].finished # "Running" =>
    /\ audit[c].started
    /\ call[c].run \in DOMAIN runs
    /\ runs[call[c].run].status = audit[c].finished
    /\ runs[call[c].run].steps =
         Cardinality({i \in DOMAIN trail[c] : trail[c][i].type = "StepCompleted"})

\* A node whose store says Failed or Decommissioned keeps its record, except
\* when it is registered again or when a call saves a copy it had read before
\* the node got there: transition_to guards the copy, not the store
\* (engine.rs:93, 143, 158).
TerminalLeftOnlyByStaleCopy ==
  [][\A n \in DOMAIN nodes :
       IsTerminal(nodes[n].state) /\ nodes'[n] # nodes[n] =>
         \/ \E v \in Versions : RegisterNode(n, v)
         \/ \E c \in Calls : SaveNode(c) /\ call[c].req.node = n /\ call[c].read # nodes[n]]_vars

\* The stored status of a run moves from Running to its verdict, once.
VerdictIsFinal ==
  [][\A id \in DOMAIN runs :
       /\ id \in DOMAIN runs'
       /\ runs[id].status # "Running" => runs'[id] = runs[id]]_vars

(***************************************************************************)
(* Calls that have their hosts for themselves                              *)
(***************************************************************************)
\* What the record of a node says of its host.
Truthful(n) ==
  CASE nodes[n].state = "Active" ->
         fleet[n] = Serving(n, nodes[n].version)
    [] nodes[n].state = "Decommissioned" -> fleet[n].key = Junk
    [] OTHER -> TRUE

\* After a deployment that ended Succeeded the record of its node is true of
\* its host, as long as nobody else has deployed there (engine.rs:136-158: the
\* path and the version are applied after the saga, from its verdict).  A
\* failover onto the failing node itself is left out.
SuccessIsRecorded ==
  \A c \in Calls :
    /\ At(c, "returned") /\ call[c].result = "Ok" /\ saga[c].status = "Succeeded"
    /\ Alone(c) /\ nodes[call[c].req.node] = call[c].node
    /\ call[c].req.kind = "Failover" => call[c].req.spare # call[c].req.node
    => Truthful(call[c].req.node)

(***************************************************************************)
(* Deployments one after the other                                         *)
(***************************************************************************)
\* The last deployment on the hosts it touches.  Run ids are handed out under
\* the slot, so with one slot their order is that of the deployments.
LastOnItsHosts(c) ==
  \A d \in Calls \ {c} :
    Touches(d) \cap Touches(c) = {} \/ call[d].run < call[c].run

\* With one slot (MaxDeploys = 1), however many deployments of any kinds have come
\* and gone on its hosts, succeeded, failed, been refused, dropped or left half
\* done: when the last of them ended Succeeded, the store has what it saved unless
\* the node was registered again, the record is true of a host that is there, and
\* a failover has left the key on a spare that is there (engine.rs:91, 136-158).
LastSuccessIsRecorded ==
  \A c \in Calls :
    LET q == call[c].req IN
    /\ At(c, "returned") /\ call[c].result = "Ok" /\ saga[c].status = "Succeeded"
    /\ LastOnItsHosts(c)
    /\ q.kind = "Failover" => q.spare # q.node
    => /\ nodes[q.node] \in {call[c].node} \cup {NewNode(v) : v \in Versions}
       /\ fleet[q.node].infra => Truthful(q.node)
       /\ q.kind = "Failover" /\ fleet[q.spare].infra => fleet[q.spare].key = OwnKey(q.node)

(***************************************************************************)
(* Progress                                                                *)
(***************************************************************************)

\* A deployment that was asked for is answered, even when it is throttled,
\* refused or compensated past failing compensations.
EveryDeploymentReturns ==
  \A c \in Calls : At(c, "start") ~> At(c, "returned")

\* While the repository works and nobody hangs up, a RunStarted is followed by
\* a RunFinished unless the lifecycle refuses the outcome.
StartedRunsFinish ==
  \A c \in Calls :
    audit[c].started ~> \/ audit[c].finished # "Running"
                        \/ ~At(c, "none") /\ call[c].result = "IllegalTransition"

(***************************************************************************)
(* What the documents say and the code does not do: each is refuted by a   *)
(* run of its own                                                          *)
(***************************************************************************)

\* README.md:58, "a node can never jump from `Decommissioned` back to `Active`".
DecommissionedNeverBecomesActive ==
  [][\A n \in DOMAIN nodes : nodes[n].state = "Decommissioned"
                               => nodes'[n].state # "Active"]_vars

\* node.rs:71-73, "the engine refuses any move not encoded here, so a node can
\* never silently end up in an inconsistent operational state", for the state
\* node.rs:99 calls "Permanently removed from the fleet".
DecommissionedNeverVotes ==
  \A n \in DOMAIN nodes : nodes[n].state = "Decommissioned" => fleet[n].key = Junk

\* ops.rs:116, "A step failed and the saga compensated back to a safe state",
\* and engine.rs:197, "compensation restored a safe state; leave as-is": a node
\* left Active after a rolled-back run is still "voting normally" (node.rs:93).
RolledBackIsSafe ==
  \A c \in Calls :
    /\ At(c, "returned") /\ call[c].result = "Ok" /\ saga[c].status = "RolledBack"
    /\ Alone(c)
    => Truthful(call[c].req.node)
=============================================================================
