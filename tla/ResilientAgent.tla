--------------------------- MODULE ResilientAgent ---------------------------
(***************************************************************************)
(* ResilientNodeAgent::guard (validatorforge-core/src/agent.rs): every     *)
(* agent call asks the breaker once, then makes up to MaxAttempts attempts *)
(* under a timeout (RetryPolicy::retry), and reports each attempt's end to *)
(* the breaker.  One breaker serves all callers and all hosts.             *)
(*                                                                         *)
(* A caller makes one guarded call after the other.  The inner agent is    *)
(* the environment: an attempt may end in any way while the hosts are      *)
(* down, and only well while they are up.                                  *)
(***************************************************************************)
EXTENDS CircuitBreaker, FiniteSets

CONSTANTS Callers,      \* tasks that call the agent concurrently
          MaxAttempts   \* max_attempts.max(1)

ASSUME AgentAssumption == IsFiniteSet(Callers) /\ MaxAttempts \in Nat \ {0}

VARIABLES breaker,
          guard,    \* [Callers -> the locals of its guarded call]
          up        \* whether the hosts answer

vars == <<breaker, guard, up>>

\* Rejected stands for Internal too: both are final.
PortErrors == {"Unavailable", "Timeout", "Rejected"}
Retryable(e) == e \in {"Unavailable", "Timeout"}

(***************************************************************************)
(* pc: "out" between calls, "trying" suspended in an attempt, "backoff" in *)
(* the sleep between two attempts.  attempt counts the attempts begun.     *)
(***************************************************************************)
GuardRecord == [pc      : {"out", "trying", "backoff"},
                attempt : 0..MaxAttempts,
                result  : {"none", "Ok", "CircuitOpen"} \cup PortErrors]

Fresh == [pc |-> "out", attempt |-> 0, result |-> "none"]

At(c, p) == guard[c].pc = p

Ended(result) == [Fresh EXCEPT !.result = result]

-----------------------------------------------------------------------------
\* breaker.acquire, then the first attempt or Unavailable("circuit open").
Acquire(c) ==
  /\ At(c, "out")
  /\ breaker' = Refresh(breaker)
  /\ guard' = [guard EXCEPT ![c] =
       IF Admits(breaker)
       THEN [pc |-> "trying", attempt |-> 1, result |-> "none"]
       ELSE Ended("CircuitOpen")]
  /\ UNCHANGED up

AttemptSucceeds(c) ==
  /\ At(c, "trying")
  /\ breaker' = OnSuccess(breaker)
  /\ guard' = [guard EXCEPT ![c] = Ended("Ok")]
  /\ UNCHANGED up

\* Mutated form of MayRetry: one attempt too many.
MayRetryOnceMore(c, e) == Retryable(e) /\ guard[c].attempt <= MaxAttempts

MayRetry(c, e) == Retryable(e) /\ guard[c].attempt < MaxAttempts

\* An error of any kind, a rejection too, and a timeout all count as failures.
AttemptFails(c, e) ==
  /\ At(c, "trying") /\ ~up
  /\ breaker' = OnFailure(breaker)
  /\ guard' = [guard EXCEPT ![c] =
       IF MayRetry(c, e)
       THEN [guard[c] EXCEPT !.pc = "backoff"]
       ELSE Ended(e)]
  /\ UNCHANGED up

\* The next attempt does not ask the breaker.
\* Mutated form of Retry: the attempt is not counted.
RetryUncounted(c) ==
  /\ At(c, "backoff")
  /\ guard' = [guard EXCEPT ![c].pc = "trying"]
  /\ UNCHANGED <<breaker, up>>

Retry(c) ==
  /\ At(c, "backoff")
  /\ guard' = [guard EXCEPT ![c].pc = "trying", ![c].attempt = @ + 1]
  /\ UNCHANGED <<breaker, up>>

\* The caller's future is dropped: the breaker is told nothing.
Dropped(c) ==
  /\ ~At(c, "out")
  /\ guard' = [guard EXCEPT ![c] = Fresh]
  /\ UNCHANGED <<breaker, up>>

\* breaker_state() half-opens a breaker that is due.
Observe ==
  /\ breaker' = Refresh(breaker)
  /\ UNCHANGED <<guard, up>>

Tick ==
  /\ breaker.state = "Open" /\ breaker.age < Cooldown
  /\ breaker' = Older(breaker)
  /\ UNCHANGED <<guard, up>>

HostsChange ==
  /\ up' = ~up
  /\ UNCHANGED <<breaker, guard>>

-----------------------------------------------------------------------------
Init ==
  /\ breaker = NewBreaker
  /\ guard = [c \in Callers |-> Fresh]
  /\ up \in BOOLEAN

Proceed(c) ==
  AttemptSucceeds(c) \/ (\E e \in PortErrors : AttemptFails(c, e)) \/ Retry(c)

Next ==
  \/ Tick \/ Observe \/ HostsChange
  \/ \E c \in Callers : Acquire(c) \/ Proceed(c) \/ Dropped(c)

Spec == Init /\ [][Next]_vars

\* Time passes, there is traffic, and an attempt ends (by its timeout, at the
\* latest).  Strong for the attempts: not every call is dropped forever.
FairSpec ==
  /\ Spec /\ WF_vars(Tick)
  /\ \A c \in Callers : WF_vars(Acquire(c)) /\ SF_vars(Proceed(c))

-----------------------------------------------------------------------------
TypeOK ==
  /\ breaker \in Breaker
  /\ guard \in [Callers -> GuardRecord]
  /\ up \in BOOLEAN

\* breaker.rs:113-129: the breaker is closed exactly while it has counted fewer
\* than Threshold failures since the last success, whichever callers, late
\* answers and probes they came from.
ClosedBelowThreshold == breaker.state = "Closed" <=> breaker.failures < Threshold

\* consecutive_failures (a u32 that `+= 1` would overflow) does not run away
\* while the breaker is open: only the attempts that calls let in before may
\* still add to it, and none of them outlives its attempt budget.
Budget(c) ==
  CASE At(c, "out")     -> 0
    [] At(c, "trying")  -> MaxAttempts - guard[c].attempt + 1
    [] At(c, "backoff") -> MaxAttempts - guard[c].attempt

AttemptsLeft == UNION {{c} \X (1..Budget(c)) : c \in Callers}

FailuresAreBounded ==
  breaker.state = "Open" =>
    breaker.failures + Cardinality(AttemptsLeft)
      <= Threshold - 1 + MaxAttempts * Cardinality(Callers)

\* A breaker is never wedged: once the hosts answer for good, it closes for
\* good, after a long outage, with late answers and dropped probes about.
RecoversWithTheHosts == <>[]up => <>[](breaker.state = "Closed")

\* Every guarded call that is not dropped comes back (agent.rs:59-85: the
\* attempts are bounded and each one ends).
EveryGuardedCallEnds == \A c \in Callers : At(c, "trying") ~> At(c, "out")
=============================================================================
