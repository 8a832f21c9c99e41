# ValidatorForge in TLA+

Specifications of ValidatorForge (`src/`, Rust), an operations control plane for
a fleet of blockchain validators: what a deployment does to hosts, records and
events when calls run concurrently, agent calls fail or time out, the store
fails and clients hang up. TLC checks small instances; TLAPS proves some of the
results for every value of the constants. `PROJECT.json` ties every definition
to the source lines it models and lists runs, hazards, findings and theorems.

Paths below are short for `src/crates/validatorforge-<crate>/src/<file>`.

## 1. The system

| Component | State | Operations | Talks to |
|---|---|---|---|
| Vocabulary (`types/node.rs`, `ops.rs`) | state and version of a node; status and completed steps of a run | `transition_to`, `set_version`, `record_step`, `finish` | used by all |
| Saga executor (`core/saga.rs`) | locals of each `run`: completed steps, `all_compensated` | `build_plan`, `run` (forward loop, compensation loop) | agent (await), event sink |
| Ops engine (`core/engine.rs`) | run counter; locals of each `start_deployment` | `register_node`, `start_deployment`, `evaluate_health`, `advise`, reads | limiter, bulkhead, repository, saga, events, advisor |
| Resilient agent (`core/agent.rs`, `resilience/retry.rs`, `timeout.rs`) | the breaker; attempt count of each call | `guard` around each agent operation | breaker, inner agent |
| Circuit breaker (`resilience/breaker.rs`) | state, consecutive failures, time of opening | `acquire`, `on_success`, `on_failure`, `state` | - |
| Token bucket (`resilience/ratelimit.rs`) | tokens, time of the last refill | `try_acquire(_n)`, `available` | clock |
| Bulkhead (`resilience/bulkhead.rs`) | free permits | `try_acquire`, drop of the guard | - |
| Repositories (`infra/repo.rs`, `pg.rs`) | map of nodes, list of runs | upserts, loads, lists | - |
| Event bus (`infra/events.rs`, `api/subscription.rs`) | ring of a broadcast channel, a cursor per subscriber | `publish` (never waits, lossy), `subscribe` | GraphQL subscribers |
| GraphQL API (`api/mutation.rs`, `query.rs`, `types.rs`; newtypes of `types/ids.rs`) | none | validates and converts inputs, prints and parses ids | engine, event bus |
| Advisors (`ai/advisor.rs`, `ai/llm.rs`) | attempts and time of a request | rule table; model over the network, falling back to the rules | HTTP |
| Health (`types/health.rs`) | none | `classify` a snapshot | engine, which publishes the verdict |
| Node agent (`core/ports.rs`; `infra/agent.rs` simulates one) | the hosts | seven operations | hosts |
| Clocks, IaC renderer, node binary, configuration | none, or wiring | I/O, text, defaults | - |

`start_deployment` is the path that matters: limiter, bulkhead, load the node
(and the spare's host), take a run id, store the run as Running, publish
RunStarted, execute the saga, move the **local copy** of the node along a path
chosen by the verdict (publishing each move), store the copy, store the finished
run, publish RunFinished. Calls of it run concurrently on a multi-threaded
runtime; no lock keeps two deployments of one node apart.

What makes it hard, and the properties that are to hold in spite of it:

* *Interleaved deployments*: the record is read at the beginning and written at
  the end. A terminal record may only be left by re-registration or by a copy
  that was read before; run ids are used once; what is finished stays finished.
* *Failing steps*: any agent call may fail, with or without its effect, and any
  compensation too. The compensations run in reverse over exactly the completed
  steps, the status tells the truth about them, and no two hosts vote with the
  same key while the primary of a failover is left to it.
* *One after another*: a deployment finds what the last one left, which may have
  failed half way. One that Succeeded leaves a record that is true of its hosts all
  the same.
* *Leaving early*: throttling, missing nodes, store errors, refused transitions
  and dropped futures. Permits come back, no half-way state is ever stored.
* *Late answers*: the breaker is shared by all hosts and calls, answers arrive
  after it has changed state, probes may be dropped. It must not wedge, and its
  count must not run away.
* *Retries*: a repeated agent call finds its own half-done work; sagas share one
  breaker, so that the faults of one fail the compensations of another.
* *Slow readers*: a subscriber that falls behind loses the oldest events, silently.
  What it still hears is in order, and the newest event is never lost.
* *Restarts*: run ids start again at 1 over a store that kept its runs.
* *Boundaries*: attempt budgets, the bulkhead's capacity, a full bucket plus
  refill within one window, whole seconds, capped delays.

The full list, each at its line, is under `hazards` in `PROJECT.json`.

## 2. The modules

    Lifecycle          pure vocabulary and tables
      Fleet            what agent calls do to hosts (external)
        SagaExecutor   SagaExecutor::run, concurrent calls   --implements-->  SagaContract
          OpsEngine    start_deployment around the saga      (MCOpsEngine: instances)
    CircuitBreaker     the breaker's methods as functions
      ResilientAgent   guard: breaker, retry, timeout
      GuardedSaga      SagaExecutor with every agent call a ResilientAgent call
    RateLimiter        the token bucket over time
    EventBus           ring and cursors                      --implements-->  LossyStream
    Health, Api        pure: classification; validation and conversion of inputs
      ControlPlane     OpsEngine, EventBus, Api, Health: the write side
    RunStore           both stores of runs, over restarts    --implements-->  RunLedger
    Advisor            rules, and a model behind retries
      ReadSide         RunStore, Advisor: the query side

**Lifecycle.** The transition graph of `can_transition_to` as a set of edges,
the plans, the success and failure paths. The loop
`for to in path { node.transition_to(to)?; .. }` is `Walked`: how many moves of a
path are taken from a state before the first that is not an edge.

**Fleet** (external). No agent in the repository touches a host, so the effect of
a call is taken from the contract of the `NodeAgent` port (`core/ports.rs:21-44`),
which is what the saga relies on. A host is
`[infra, version, key]`; `key` is the staked identity it votes with. A failed
call may have done nothing, all or (a swap) half of its work: a timeout does not
undo what was sent. Choices made here: a start gives a voter its own key; a call
on a host without infrastructure changes nothing; catching up and tuning do not
touch the three fields.

**SagaExecutor.** One action per agent call with all statements up to the next
suspension (`EventSink::publish` never waits). `saga[c]` are the locals of call
`c`; `fleet` is shared; `trail[c]` is a history of its published step events. A
compensation that keeps the trait's default makes no agent call and so cannot
fail (`Awaiting`). Several calls may work on the same host.

**SagaContract.** The promise of `run`'s documentation: steps complete one after
the other, and a call closes as Succeeded, RolledBack or Failed with the set of
steps undone. `SagaExecutor!ContractView` maps the executor to it; the
compensation loop is one abstract step.

**OpsEngine.** Extends SagaExecutor. `call[c]` are the locals of
`start_deployment`; `pc` names the next shared access or the await the call is
suspended in; `read` keeps the node as it was loaded, for the properties only.
`nodes` and `runs` are the repository, `audit[c]` the engine's own events.
Correspondence: `TakeToken` 87-90, `TakeSlot` 91, `GetNode` 93-97, `GetSpare`
99-109, `FetchAdd` 115, `SaveRun` 117-134, `SagaStep` 134, `ApplyPath` 136-157,
`SaveNode` 158, `FinishRun` 160-170, `RegisterNode` 68-71 of `core/engine.rs`;
`Cancel` is the dropped future; an agent call that is given up, by it or by a
timeout, has its effect by then or not at all. `RepeatAttempt` is the retry of the resilient agent
(`core/agent.rs` 59-86), in which the constructor wraps whatever agent it is given
(`core/engine.rs` 46): a failed attempt may have changed the host before the call is
over. The bucket is a counter of whole tokens that a
`Refill` may fill at any time; `BucketIsACounter` of RateLimiter_proofs shows that the
bucket of the code is one. A node and its host are one name (`start_deployment`
always acts on the host it has read with the node).

**CircuitBreaker**, **ResilientAgent.** The breaker's methods are functions on
the locked `Inner`, one per critical section. `age` is the time since it opened,
in units, up to the cooldown. `guard[c]` are the locals of one guarded call.
While the hosts are down an attempt may end in any way; while they are up it
succeeds. The length of the backoff is left out: it is an interval in which
anything else may happen. `Rejected` stands for both errors that are not retried.

**RateLimiter.** Tokens are counted in some small part of a token, time in
milliseconds. What a refill adds is a product and a sum of `f64` (`ratelimit.rs:43-44`):
`Refilled` is the set of buckets it may leave behind, up to `Rounding` off in either
direction. Ten refills of 0.1 may so be less than a token, as they are in the code.
A millisecond has one refill at most, since one in no time adds nothing; and taking a
token is exact (a whole number from an `f64` that is not smaller). `from`, `count` and `last` belong to an observer, not to the bucket.

**GuardedSaga.** Extends SagaExecutor and ResilientAgent, whose callers are the
calls of the saga. What is one step of SagaExecutor (an agent call with the
statements behind it) becomes the question to the breaker and up to `MaxAttempts`
attempts. A failed attempt that will be repeated leaves the fleet as
`AfterFailure` says, while the other saga goes on; the last one is SagaExecutor's
failing step. `faults` is a history of failed attempts, for the properties; its counts
stop where the properties no longer tell them apart (`Capped`).

**EventBus.** Extends nothing of the engine: `sent` is the whole history and the
ring its last `RingSize` entries, so that losing an event is a cursor that falls
off the end. `Hear` is `recv` returning an event, `Lag` is `recv` returning
`Lagged` with its `filter_map`. `BusSpec(Events)` is the bus under any publishers.
**LossyStream** is what `events.rs:13-18` promises a subscriber; `HeardUpTo` maps a
subscriber to the position up to which it will hear nothing more.

**Health**, **Api.** Pure operators. Times of `Health` are halves of a second, so
that the truncation to whole seconds shows, with the default thresholds. `Api` keeps of an input
string whether it is blank and how many bytes it has.

**ControlPlane.** Extends OpsEngine, EventBus, Api and Health. A mutation is
validated, converted (`AsRequest`) and given to the engine; a step of a call is
the step of OpsEngine together with the events it adds (`News`), which are
derived from the histories `trail` and `audit`, so nothing is said twice. The
several events of one step are published in a row: between them the code does
not suspend, and another thread's events in between would only be further events.
`evaluate_health` publishes a verdict; the model keeps its reading in the event,
for `AgeingOnlyBlinds`.

**RunStore.** The runs of both repositories, seen from the engine: created (id and
start taken), saved as Running some time later, saved with the verdict, or
abandoned; a restart begins a new `life`, resets the counter and empties the
in-memory store only. `SameRun` is the key of the store in use: the id, or id and
start (`pg.rs:105`). `life` is a ghost that tells the runs of two processes apart.
A restart takes longer than the coarse unit of the clock (starts have
microseconds in the code). **RunLedger** is what an audit trail promises.

**Advisor.** The rules of `HeuristicAdvisor` over the set of signals in a note,
and one request of `LlmAdvisor`: attempts, each up to `CallTimeout`, backoffs
between half and all of the capped delay, and the rules at the end or without a
key.

**ReadSide.** Extends RunStore and Advisor; a restart takes a request under way
with it. `Printed` and `Parsed` are the two forms of a run id.

Bounds that only the models have: `RateLimiter.Horizon` (time runs up to it), the
number of `Calls` (each is used once), `age <= Cooldown` (all that `refresh`
looks at), `Requests`, `Registrable`, `MaxReadings`, `MaxRuns`, `MaxLives`,
`MaxTime`, `Width` (32 digits in the code).

## 3. The runs

| Run | Instance | Shows |
|---|---|---|
| SagaSafety | 2 calls, 3 hosts (2 voters, 1 spare), 2 versions, lossy failures | `UndoneInReverse`, `StatusMatchesTrail`; `PrimariesApartNeverDoubleVote`, where the spares may be shared, deployed or absent; for calls on different hosts `SuccessDelivers`, `RollbackRemovesInfra` |
| EngineSafety | 2 calls, 2 nodes, 2 slots; store errors, hang-ups, lossy agent calls, re-registration | what store, events, permits and run ids satisfy at every moment |
| EngineProgress | 2 calls of any kind, 2 nodes, 2 versions, 1 slot (so they take turns or are throttled), lossy agent calls, fair | every call is answered, every started run finished or refused; the last deployment on its hosts that Succeeded is in the store and true of its hosts, whatever the other left behind; the executor implements `SagaContract`, closing of every open call included |
| RateLimit | capacity 2.6 tokens, 12 ticks, refills rounded either way | the window bound, no starvation by rejections |
| Breaker | 3 callers, threshold 3, 2 attempts, fair | count decides state, bounded count, recovery, calls end |
| GuardedSaga | a failover beside a provisioning or beside an upgrade of its spare, threshold 3, 2 attempts, hosts that come and go, fair | faults that pass are not seen by the sagas; repeating a half-done call is safe; what it takes to lock a run out of its rollback; every run returns |
| ControlPlane | any one deployment of one node, valid and invalid inputs, registrations, one evaluated reading, a subscriber on a ring of 2, fair | losses are of overwritten events only, `LossyStream` is implemented, the newest event arrives, the feed agrees with the store, verdicts only age into Unknown |
| ReadSide | 2 runs in each of 2 processes, both stores, 3 questions, 2 attempts, fair | `RunLedger` is implemented, the list is the newest runs, advice is given, in time, and more alarm never calms |

These instances are small but not trivial. Two calls are enough for every
pairwise race (nothing in the code counts to three but the breaker's threshold,
which has three callers and needs failures of more than one of them). Plans have
at most four steps, so every failing position and every pattern of failing
compensations occurs. Two voters and a spare let two failovers, or a failover and
an upgrade, run on different or on the same hosts. One token and one slot make
throttling happen; two slots make overlap happen.

GuardedSaga has fewer attempts than the threshold, as the defaults have (3 and 5,
`core/config.rs`). So the first compensation of a run is turned away with the help of
another run only, while a later one can be by the run's own doing: three failed
attempts of a step and two of its first compensation are the five that open the
breaker (2 and 1 of 3 in the run), and the compensations after that are never
attempted. `LockOutTakesThreshold` says how far a run can do so alone. The primary of the failover is
left to it, since for two calls on one primary the code promises nothing; its spare is
not. (Calls that came earlier or come later count as well: an upgrade after a failover
is the run Refusal, and sequences are EngineProgress's.) ControlPlane runs one deployment: two of them on one node are known to
leave the store with a state that was not announced last (run Revival), so
`FeedAgreesWithStore` is claimed for deployments one at a time, a store that works
(an announced move is not stored when its save fails) and clients that stay. A
deployment publishes many more than two events, so that the ring overflows again
and again. In ReadSide two processes with two ids each are what a collision of ids
takes, `MaxTime` lets runs share a start or not, and the uncapped second backoff
exceeds `MaxDelay`. In EngineProgress the one slot makes the calls a
sequence unless one is throttled, in which a half-done deployment is followed by one on the same
node or on its spare; longer sequences are the theorem's on the same property
(`LastSuccessOnRecord`). One version to upgrade to is enough, since a wrong one need only
differ. Nodes are not registered again and stores do not fail there, which the theorem allows.

Runs that refute what the repository says of itself:

| Run | Statement | What happens |
|---|---|---|
| Revival | README.md:58, never from Decommissioned back to Active | an upgrade that read its node earlier saves its copy over a decommission |
| Refusal | node.rs:71-73, no inconsistent operational state | the saga runs before the lifecycle is asked: upgrading a failed-over node restarts it with its key, then is refused |
| Rollback | ops.rs:116, engine.rs:197, a rolled-back run is a safe state | draining has no compensation: a node recorded Active does not vote |
| RunIds | query.rs:39, types.rs:50, fetch a run by its id | ids are printed in hexadecimal and parsed in decimal: the tenth run's is rejected (and the sixteenth's would name the tenth run) |

More statements differ from the code by its plain order of statements and have no
run of their own:

* A refused transition leaves its run stored as Running for ever (engine.rs:143,
  against :73, "return the terminal run record").
* Lifecycle events are announced before a save that may fail (engine.rs:144, 158),
  and a registration, which changes the fleet, is not announced at all
  (engine.rs:68, against event.rs:9).
* A half-open breaker admits every caller (breaker.rs:102, against :4 and :19); a
  late success closes an open breaker before its cooldown (breaker.rs:107-111,
  against :17); a call goes on attempting after its own failures opened the
  breaker (agent.rs:54, against EVALUATION.md:56).
* `get_run` of the Postgres store looks for the id alone (pg.rs:121) and may
  answer the run of an earlier process.

`CHECK_DEADLOCK FALSE` stands in every configuration: a model in which all calls
have returned, the time is over or nobody calls has nothing more to do, as the
program then has not.

### Fairness

* `FairSagaSpec`, `OpsEngine!Fairness`: weak fairness of each call's own steps.
  The runtime polls every task that can go on; an agent call ends because the
  attempts of `guard` are bounded (so `RepeatAttempt` is not in `Progress`, which ends
  the call) and each is under `with_timeout`; a store call
  ends because the store answers (the in-memory one always does). No fairness of
  success, of refills, or between calls.
* `ResilientAgent!FairSpec`: time passes; there is traffic (a caller that is
  outside calls again); the attempts of each caller end. The last is strong
  fairness, since a caller may be dropped in the middle: it says that not every
  call is dropped for ever. The breaker leaves Open only when someone asks, so
  without traffic there is no recovery to speak of.
* `SagaExecutor!FairSagaSpec` is part of `SagaContract`'s refinement in
  EngineProgress: there a call's saga steps are steps of `Progress`.
* `GuardedFairness`: weak fairness of each saga's steps. The hosts may stay down
  and time may stand still: nothing in a saga waits for either.
* `PlaneFairSpec`: each call's steps, and each live stream is polled, as the
  runtime does for a client that reads.
* `ReadFairSpec`: attempts end by their timeout and sleeps end.

## 4. The proofs

`tlapm <module>.tla` checks each; every proof is complete to the leaves.

**SagaExecutor_proofs.** From `FleetAssumption` and `LossyAssumption`, seven
results on one executor, for any number of calls.

* Types: every agent call makes a fleet out of a fleet, every statement of the
  loops keeps the locals of a call within its plan; `SagaTypeOK` is inductive as it
  stands. That calls share hosts does not matter, a step changes one call's locals.
* `StatusMatchesTrail` and `UndoneInReverse` say nothing of the loop variables and
  so are not inductive. `Books` ties those to the trail, call by call, as an
  `Account(record, trail)` of three parts: `Book` (the completed steps are the first
  `done` of the plan, the compensated ones lie above `left` and not above `done`,
  and `clean` says whether every step passed so far was compensated), `Shape` (the
  completions come first and in order, the compensations after them, downwards) and
  `Defaults` (a step without a compensation of its own counts as undone). Each part
  has one lemma per statement of the loops; the status and the order are read off the
  final record. That the steps of a plan are distinct (`Plans`) is what lets an event
  stand for a position.
* `PrimariesApartNeverDoubleVote`: a key is at home, or it is at the spare of the
  failover that moved it while the primary has none (`KeyAtHome`). What makes this
  inductive is the order of the plan: once the drain has ended the primary votes no
  more until the swap (`SwapAhead`), nobody else starts it again since it is left to
  this call, and a host without infrastructure never votes (`NoGhostVotes`). So a swap
  that is done by half, twice or not at all lets no second host vote
  (`FailoverDrains`, `AttemptKeys`), and what else happens to the spare is of no matter.
* `SuccessDelivers`: `FleetInv` says of every call that keeps to its own hosts what they
  look like at its point of the plan (`LeftBehind`), whatever it has found there.
  `OneHost` and `Footprint` reduce a step to the one or two hosts it works on. Both
  properties also hold over an agent that repeats attempts (`RepeatedFleet`): `LeftBehind`
  allows for what a failed attempt leaves, the whole effect or half of it
  (`LeftInTheMiddle`).
* `RollbackRemovesInfra`, from both `Books` and `FleetInv`: the last compensation of a
  provisioning destroys what an ApplyInfra announced as completed has built. An
  ApplyInfra that fails after its effect is not compensated (`saga.rs` 203-206) and may
  leave its host behind a RolledBack run: the property and its theorem
  (`RollbackRemovesAppliedInfra`) leave that case out.
* `ExecutorMeetsContract`, the safety part of the refinement that EngineProgress
  checks: each statement is an action of `SagaContract` or a stutter of it under
  `Seen`, the projection to what a caller sees; the compensation loop is one step of
  the contract, at its end.

**OpsEngine_proofs.** From `EngineAssumption` and those of the saga, in six layers.

* `EInv`: the types, what each call knows by the place it has reached (`Local`), the
  store at rest, and the permits. The store could not be proved at rest without the
  copies: a whole path that is walked ends at rest, and only such copies are saved.
  `PermitsMove` is the one lemma about cardinalities.
* `BInv` adds `Owns`: what the store of runs knows of the run of a call at a given
  place, so that a save by one call, under an id no other has, leaves the runs of
  the others alone, and a verdict is written over a Running entry only.
* `CopiesOK`: the copy of a node has not moved before the path is walked, and no
  path leads out of a terminal state (`NoPathOutOfTerminal`). So a save that takes a
  stored node out of a terminal state is by a call that read it earlier:
  `TerminalLeftOnlyByStaleCopy`.
* `RInv` adds `Books` and `Report`: what the audit, the trail and the stored run of
  a call say of each other. `PublishedSteps` counts the completions in a trail.
  It gives `FinishedRunIsStored`.
* `HInv` adds `Deal` (the job of the saga is what was asked for, the copy is where
  the path ends), the executor's `FleetInv`, and three facts that tie store and hosts:
  a node recorded Active has its infrastructure (`StoreUp`), also in the copies on
  their way to the saga (`CopiesUp`) and during an upgrade (`UpgradesUp`). They are what
  `SuccessIsRecorded` needs of an upgrade, which builds nothing. `FleetInv` survives the
  engine because a client that hangs up leaves its hosts as a failed attempt does; so the
  keys stay apart and deliveries stay true for dropped calls too (`EngineKeepsHosts`).
* `QInv`, for one slot: who holds it has the highest run id of all (`InTurn`), so the last
  deployment on its hosts is disturbed by nobody. `LeftBehind`, which asks nothing of
  what a call has found, then holds of it after any number of others (`LastLeft`), and
  what it saved is still stored unless the node was registered again (`LastStored`):
  `LastSuccessIsRecorded`.

`EngineKeepsTrails` and `EngineMeetsContract` carry the executor's results over.
`EngineKeepsTheLedger` states of one process what ReadSide checks across restarts: the
stored runs are a `RunLedger`, `SaveRun` is its `Open` and `FinishRun` its `Close`, also
when the store writes and then returns an error; every other step is a stutter.
All of it holds over repeated attempts, `RepeatAttempt` being a step of `Next`.

**ResilientAgent_proofs.** From `BreakerAssumption` and `AgentAssumption`. `IInv`
is the type invariant, each caller within its attempt budget and `Sound(breaker)`:
closed exactly below the threshold, preserved by each of the breaker's methods.
`FailuresAreBounded` is inductive on top of it: the attempts that calls let in
earlier have left are a subset of `Callers` x `1..MaxAttempts`, every failure
counted by an open breaker takes one away (`FailurePaid`), and nobody new is let in
(`FewerAttempts`).

**GuardedSaga_proofs.** From the assumptions of its two parts. `GInv` is the
invariant of each part, `AllIsTheCount` (the history counts what the breaker counts),
`Spending` (the faults of a saga that goes forward are those its guard has spent on
the call under way; one that compensates may add the attempts of the step and of the
compensations that failed) and
`Calm` (without a storm of faults the breaker is closed and no saga has failed a step). From it
`TransientFaultsAreAbsorbed` and `LockOutTakesThreshold`, for attempt budgets and
thresholds in any relation. `GuardIsWhatTheEngineAssumes` says that the
sagas behind the breaker take only steps OpsEngine gives them: steps of the executor
and attempts that are to be repeated. So the theorems on the engine, which has no
breaker of its own, hold over the real agent; here the fleet invariant, the trails and the contract
follow from it by the executor's lemmas.

**RateLimiter_proofs.** From `LimiterAssumption` alone. The inductive invariant
`IInv` says, besides the types, that what an open window has admitted plus what
the bucket holds is covered by a full bucket plus the refill up to the time of the
last refill, and that what has accrued since the last admission is either in the
bucket or has filled it; both up to the rounding of one refill a millisecond. The first is what makes `BurstPlusRate` inductive (an
admission only moves tokens from the bucket to the count), the second gives
`RejectedOnlyForATokensTime`. Products of two variables are handled by one lemma
on adjacent stretches of time. `BucketIsACounter` then reads the bucket as OpsEngine
has it, `Whole` being the whole tokens in it: it starts at the
burst, an admission takes exactly one of at least one, a rejection finds none, and
else it only grows, by refills and up to the burst (one may add several, which are
as many `Refill`s of the engine), however those are rounded. It rests on three facts about `\div` that are
proved as lemmas.

**EventBus_proofs.** From `BusAssumption`, for `BusSpec(Events)` with any set of
events. `BusTypeOK` and `OnlyOverwrittenAreLost` are inductive together: what keeps a
lost event's distance from the end is that the history only grows, and what makes it
so at the `Lag` is that the cursor stops at the oldest event. A publication of any
length is one step, so the lemmas speak of `Len(sent)` only. The refinement has a
lemma for `Publish` and one for the subscriber's steps: `Hear` is a delivery, `Lag` a
stutter, a dropped stream leaves.

**ControlPlane_proofs.** On top of the last two groups. `PlaneSpec` implements the
engine (`PlaneIsTheEngine`) and the bus (`PlaneIsABus`), so that what is proved of
each holds of the composition. The second is not for free: the `News` of a step are
a suffix of what the histories announce, and that this suffix is a sequence of events
needs `ShownOK` (nothing of a call is announced before its run is stored, no move
before its saga has returned) and `StepKinds`, which sorts the steps of a call by
what they publish. `AgeingOnlyBlinds` is a fact about `Classify` and the type of the
history. `FeedAgreesWithStore` has the hypotheses the run has (one slot, a
repository that works, clients that stay); its invariant `FeedOK` says that the last
announced move of a node led to its stored state, unless a copy that has walked is
about to be saved (`Saving`), and in any case to the state of the copy that a call
carries (`Carrying`), up to a registration, which is not announced. `AllOrNothing` (a path is walked
whole or not at all) makes the last announced move that of a saved copy.
`NothingIsStoredUnannounced` is what remains without those hypotheses: with any number
of deployments at a time, failing stores and hang-ups, no node is stored in a state
that no event has announced, but for a registration and the state it started in. The
stored record is a copy that has walked (`RecordOrigin`, `CopyOrigin`), and the walk is
published before the save. It does not say that the announcement is the last one: with
two deployments on a node, or a save that fails, it need not be.

**ReadSide_proofs.** Four results. `AdviceInTime` from `OnTime`: what a request has
behind it is at most its attempts and the capped backoffs between them.
`MoreAlarmNeverCalms` from `Ruled`: an answer that is not the model's is what the
rules say, and the rules are compared case by case (`MoreSignals`).
`ImplementsLedger` from `SInv`: each process has one row for each of its runs, rows
of earlier processes started before every run that is under way (so that no key
collides), and a run under way has exactly the row its last save left. With that the
first save finds nothing to replace (`FirstSaveAppends`), the second exactly the row
of the first (`SecondSaveReplaces`), and the two are `Open` and `Close` of the
ledger. `RecentRunsAreNewest`: in `NewestFirst` the place of a row is the number of
rows ahead of it; the places are distinct and every one is taken (a counting
argument), so the first ones hold the newest rows.

What stays with TLC:

* Liveness: `EveryDeploymentReturns`, `StartedRunsFinish`, `RecoversWithTheHosts`,
  `EveryGuardedCallEnds`, `EveryRunReturns`, `LastWordArrives`, `AdviceIsGiven`, and the
  fairness of the contract in `ImplementsContract`. Fairness and ENABLED are beyond the
  prover.
* That the statements of the four violation runs fail: a counterexample is TLC's.

Every invariant, action property and safety refinement of the passing runs is a
theorem. No module reaches a RECURSIVE operator, and nothing is proved by induction
over data: sums, sorts and paths are defined by counting, by sets or by tables
instead. The hypotheses of the theorems are the named assumptions on constants, which
TLC evaluates in every run, and the two mentioned above: one slot for
`LastSuccessOnRecord`, and that with a working repository and staying clients for
`FeedFollowsTheStore`.

## 5. Not modelled, and why

* Reads of nodes: they change nothing and answer the map.
* IaC rendering, GraphQL output types, command line, dry-run plan, telemetry,
  clocks: wiring, text or I/O. `build_engine` wires the in-memory store, the
  simulated agent and the heuristic advisor; the Postgres store and the model behind
  `LlmAdvisor` are library code that the models take as they are written.
* The prompt to the model, its answer and the rationale of the rules: text.
* `Bulkhead::acquire` (waiting) has no caller.
* Wall-clock time stamps, metrics and log lines; the jitter's distribution.
* What the agents do to hosts beyond the contract of their port: no agent in the
  repository touches one.

## 6. Plan

1. *Done*: the deployment path (Lifecycle, Fleet, SagaExecutor, SagaContract,
   OpsEngine), the resilience layer (CircuitBreaker, ResilientAgent, RateLimiter),
   their composition (GuardedSaga), events and mutations (EventBus, LossyStream,
   Health, Api, ControlPlane), the query side (RunStore, RunLedger, Advisor,
   ReadSide), and the proofs above.
2. *Done*: a theorem for every safety property of the passing runs, the composition
   of the engine with its API and its bus, and that of the sagas with the breaker.
3. *Done*: the engine over repeated attempts, with the executor's promises about hosts
   for dropped calls too; the ledger of one process; what the events say of the store
   without hypotheses; the bucket as the counter the engine has.
4. *Done*: keys under shared, deployed and absent spares; sequences of deployments;
   the rounding of the bucket; what it takes to lock a run out of its rollback.
5. Left: lemmas on the operators that are used but not claimed about (`AsRequest` gives
   a request of the engine for every accepted input, which is an assumption on the
   inputs now; the breaker's count over a sequence of answers), and how far a
   subscriber's picture may differ when a save fails.
