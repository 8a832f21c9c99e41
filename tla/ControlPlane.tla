----------------------------- MODULE ControlPlane -----------------------------
(***************************************************************************)
(* The control plane as its clients see it: the mutations of the GraphQL   *)
(* API in front of the ops engine, the health evaluation, and the          *)
(* subscribers behind the event bus the engine and the executor publish    *)
(* to.  A step of a call is the step of OpsEngine together with the events *)
(* it publishes.  Several events of one step are published in a row, as    *)
(* the code does between two suspensions.                                  *)
(***************************************************************************)
EXTENDS OpsEngine, EventBus, Api, Health

CONSTANTS DeployInputs,     \* what clients send to startDeployment
          RegisterInputs,   \* what clients send to registerNode
          NoTarget,         \* fills the target of a request without one
          Readings,         \* the snapshots that may be evaluated, and when
          MaxReadings       \* bound: how many of them are

ASSUME ControlAssumption == NoTarget \in Versions /\ MaxReadings \in Nat

\* What clients send names hosts and versions, and what is evaluated was made by
\* HealthSnapshot::new.
ASSUME InputAssumption ==
  /\ \A i \in DeployInputs : AcceptsDeployment(i) => AsRequest(i, NoTarget) \in Requests
  /\ \A i \in RegisterInputs : AcceptsRegistration(i) => i.version.names \in Versions
  /\ \A r \in Readings :
       /\ r.now \in Int
       /\ r.snapshot \in [tip : Nat, node : Nat, skip : 0..100, at : Int]

allVars == <<fleet, saga, trail, nodes, runs, tokens, slots, nextRun, call, audit, sent, sub>>

-----------------------------------------------------------------------------
\* The events about a call so far, in the order in which they are published.
RunEvent(t, c)  == [type |-> t, run |-> call[c].run]
StepEvent(c, e) == [type |-> e.type, run |-> call[c].run, action |-> e.action]

\* Mutated form of MoveEvent: the ends of the move are mixed up.
MoveEventReversed(c, m) ==
  [type |-> "NodeStateChanged", node |-> call[c].req.node, from |-> m[2], to |-> m[1]]

MoveEvent(c, m) ==
  [type |-> "NodeStateChanged", node |-> call[c].req.node, from |-> m[1], to |-> m[2]]

Announced(c) ==
  (IF audit[c].started THEN <<RunEvent("RunStarted", c)>> ELSE << >>)
  \o [i \in DOMAIN trail[c] |-> StepEvent(c, trail[c][i])]
  \o [i \in DOMAIN audit[c].moves |-> MoveEvent(c, audit[c].moves[i])]
  \o (IF audit[c].finished = "Running" THEN << >> ELSE <<RunEvent("RunFinished", c)>>)

\* What the step of c adds to that.
News(c) == SubSeq(Announced(c)', Len(Announced(c)) + 1, Len(Announced(c)'))

\* A rejected input changes nothing: it never reaches the engine.
Deploy(c, i) ==
  /\ AcceptsDeployment(i)
  /\ StartDeployment(c, AsRequest(i, NoTarget))
  /\ UNCHANGED busVars

\* register_node publishes nothing.
Register(i) ==
  /\ AcceptsRegistration(i)
  /\ RegisterNode(i.id.names, i.version.names)
  /\ UNCHANGED busVars

Advance(c) ==
  /\ Progress(c) \/ RepeatAttempt(c) \/ Cancel(c)
  /\ Publish(News(c))
  /\ UNCHANGED sub

\* evaluate_health: the node must be known; the verdict is published and kept
\* nowhere else.  The model notes with it the reading it was made from, which is
\* [snapshot, now].
EvaluateHealth(n, r) ==
  /\ n \in DOMAIN nodes
  /\ Cardinality({p \in DOMAIN sent : sent[p].type = "HealthEvaluated"}) < MaxReadings
  /\ Publish(<<[type |-> "HealthEvaluated", node |-> n, reading |-> r,
                status |-> Classify(r.snapshot, r.now, DefaultThresholds)]>>)
  /\ UNCHANGED <<vars, sub>>

Watch(s) == SubscriberStep(s) /\ UNCHANGED vars

PlaneInit == Init /\ BusInit

PlaneNext ==
  \/ Refill /\ UNCHANGED busVars
  \/ \E i \in RegisterInputs : Register(i)
  \/ \E c \in Calls : (\E i \in DeployInputs : Deploy(c, i)) \/ Advance(c)
  \/ \E n \in Hosts, r \in Readings : EvaluateHealth(n, r)
  \/ \E s \in Subscribers : Watch(s)

PlaneSpec == PlaneInit /\ [][PlaneNext]_allVars

\* The runtime polls every call that can go on and every stream a client reads.
PlaneFairSpec ==
  /\ PlaneSpec
  /\ \A c \in Calls : WF_allVars(Progress(c) /\ Publish(News(c)) /\ UNCHANGED sub)
  /\ \A s \in Subscribers : WF_allVars(Poll(s) /\ UNCHANGED vars)

-----------------------------------------------------------------------------
MoveOf(n, p) == sent[p].type = "NodeStateChanged" /\ sent[p].node = n

\* Who follows the stream knows the fleet: while no deployment is under way, the
\* last move of a node that a caught-up subscriber has heard, and after which it
\* missed nothing, led to the state the store has (engine.rs:141-158 announces
\* the moves and then saves the node), unless the node was registered again
\* since, which is announced to nobody (engine.rs:68-71).  It needs a repository
\* that works, clients that stay and deployments one at a time: see README.
FeedAgreesWithStore ==
  \A s \in Subscribers, n \in DOMAIN nodes :
    sub[s].live /\ CaughtUp(s) /\ slots = MaxDeploys =>
      \A p \in sub[s].from..Len(sent) :
        /\ MoveOf(n, p) /\ p > sub[s].gap
        /\ \A q \in (p + 1)..Len(sent) : ~MoveOf(n, q)
        => nodes[n].state \in {sent[p].to, "Provisioning"}

\* A verdict that was published stays the verdict on its snapshot until the
\* snapshot is stale and it turns Unknown for good, also for a snapshot stamped
\* later than now by a clock that is ahead (health.rs:111-113).
AgeingOnlyBlinds ==
  \A p \in DOMAIN sent, r \in Readings :
    /\ sent[p].type = "HealthEvaluated"
    /\ r.snapshot = sent[p].reading.snapshot /\ r.now >= sent[p].reading.now
    => Classify(r.snapshot, r.now, DefaultThresholds) \in {sent[p].status, "Unknown"}
=============================================================================
