--------------------------- MODULE CircuitBreaker ---------------------------
(***************************************************************************)
(* CircuitBreaker (validatorforge-resilience/src/breaker.rs): its methods  *)
(* as functions from the locked Inner to the next one.  Each runs under    *)
(* one mutex, so a module that uses a breaker applies one function a step. *)
(*                                                                         *)
(* A breaker is [state, failures, age].  age stands for the milliseconds   *)
(* since opened_at_millis, in units of the model and no larger than        *)
(* Cooldown, which is all refresh looks at.                                *)
(***************************************************************************)
EXTENDS Integers

CONSTANTS Threshold,   \* failure_threshold.max(1)
          Cooldown     \* cooldown_millis

ASSUME BreakerAssumption == Threshold \in Nat \ {0} /\ Cooldown \in Nat

BreakerStates == {"Closed", "Open", "HalfOpen"}

Breaker == [state : BreakerStates, failures : Nat, age : 0..Cooldown]

NewBreaker == [state |-> "Closed", failures |-> 0, age |-> Cooldown]

Opened(n) == [state |-> "Open", failures |-> n, age |-> 0]

\* Every method that asks for the state first applies a pending half-opening.
\* Mutated form of Refresh: the comparison excludes the cooldown itself.
RefreshLate(b) ==
  IF b.state = "Open" /\ b.age > Cooldown THEN [b EXCEPT !.state = "HalfOpen"] ELSE b

Refresh(b) ==
  IF b.state = "Open" /\ b.age = Cooldown THEN [b EXCEPT !.state = "HalfOpen"] ELSE b

\* Mutated form of Admits: an open breaker lets calls through.
AdmitsAll(b) == TRUE

Admits(b) == Refresh(b).state # "Open"

\* Mutated form of OnSuccess: the count is not reset.
OnSuccessKeepsCount(b) == [b EXCEPT !.state = "Closed"]

OnSuccess(b) == [b EXCEPT !.state = "Closed", !.failures = 0]

\* Mutated form of OnFailure: the breaker opens one failure early.
OnFailureEarly(b) ==
  IF b.state = "HalfOpen" THEN Opened(Threshold)
  ELSE IF b.failures + 2 >= Threshold THEN Opened(b.failures + 1)
  ELSE [b EXCEPT !.failures = @ + 1]

\* No refresh here: a breaker that nobody asked since its cooldown counts on.
OnFailure(b) ==
  IF b.state = "HalfOpen" THEN Opened(Threshold)
  ELSE IF b.failures + 1 >= Threshold THEN Opened(b.failures + 1)
  ELSE [b EXCEPT !.failures = @ + 1]

Older(b) == [b EXCEPT !.age = @ + 1]
=============================================================================
