----------------------------- MODULE RateLimiter -----------------------------
(***************************************************************************)
(* RateLimiter (validatorforge-resilience/src/ratelimit.rs), the token     *)
(* bucket in front of start_deployment.  try_acquire runs under a mutex,   *)
(* so concurrent callers are one sequence of steps.                        *)
(*                                                                         *)
(* Tokens are counted in some small part of a token, time in               *)
(* milliseconds, and what accrues in a millisecond is Rate.  The sum is an *)
(* f64: what one refill adds may be off by up to Rounding, either way.     *)
(* Taking a token is exact, as the difference of an f64 and a smaller      *)
(* whole number is.                                                        *)
(***************************************************************************)
EXTENDS Integers

CONSTANTS Capacity,   \* burst size
          Rate,       \* refill_per_sec / 1000
          Cost,       \* what one admission takes: a token
          Rounding,   \* how far what a refill adds may be off
          Horizon     \* the time up to which the model runs

ASSUME LimiterAssumption ==
  /\ Capacity \in Nat /\ Rate \in Nat /\ Cost \in Nat \ {0}
  /\ Rounding \in Nat /\ Horizon \in Nat

VARIABLES now,      \* the monotonic clock
          bucket,   \* the locked Bucket
          \* An observer, who opens a window at any moment and counts:
          from,     \* when the window opened, or Horizon + 1 before that
          count,    \* the admissions since then
          last      \* the time of the last admission, or 0

vars == <<now, bucket, from, count, last>>

Bucket == [tokens : 0..Capacity, refilled : Nat]

Min2(x, y) == IF x <= y THEN x ELSE y

Watching == from <= Horizon

\* What has accrued since the last refill, and what the f64 sum may add for it:
\* nothing if no time has passed, and never less than nothing.
Gain  == Rate * (now - bucket.refilled)
Added == IF Gain = 0 THEN {0}
         ELSE {g \in (Gain - Rounding)..(Gain + Rounding) : g >= 0}

\* refill: the buckets it may leave behind, filled up to the capacity.
\* Mutated forms of Refilled: without the capacity, and without moving the time
\* of the last refill.
RefilledUncapped ==
  {[tokens |-> bucket.tokens + g, refilled |-> now] : g \in Added}

RefilledTwice ==
  {[tokens |-> Min2(bucket.tokens + g, Capacity), refilled |-> bucket.refilled] : g \in Added}

Refilled ==
  {[tokens |-> Min2(bucket.tokens + g, Capacity), refilled |-> now] : g \in Added}

Admit ==
  /\ \E b \in Refilled : b.tokens >= Cost /\ bucket' = [b EXCEPT !.tokens = @ - Cost]
  /\ count' = IF Watching THEN count + 1 ELSE 0
  /\ last' = now
  /\ UNCHANGED <<now, from>>

\* A rejection takes nothing, but it has refilled the bucket; so does available().
\* Mutated form of Reject: what has accrued is forgotten.
RejectForgetful ==
  /\ \E b \in Refilled : b.tokens < Cost
  /\ bucket' = [bucket EXCEPT !.refilled = now]
  /\ UNCHANGED <<now, from, count, last>>

Reject ==
  /\ \E b \in Refilled : b.tokens < Cost /\ bucket' = b
  /\ UNCHANGED <<now, from, count, last>>

Available ==
  /\ bucket' \in Refilled
  /\ UNCHANGED <<now, from, count, last>>

Pass ==
  /\ now < Horizon
  /\ now' = now + 1
  /\ UNCHANGED <<bucket, from, count, last>>

OpenWindow ==
  /\ ~Watching
  /\ from' = now
  /\ UNCHANGED <<now, bucket, count, last>>

Init ==
  /\ now = 0
  /\ bucket = [tokens |-> Capacity, refilled |-> 0]
  /\ from = Horizon + 1 /\ count = 0 /\ last = 0

Next == Admit \/ Reject \/ Available \/ Pass \/ OpenWindow

Spec == Init /\ [][Next]_vars

-----------------------------------------------------------------------------
TypeOK ==
  /\ now \in 0..Horizon
  /\ bucket \in Bucket /\ bucket.refilled <= now
  /\ from \in 0..(Horizon + 1) /\ (Watching => from <= now)
  /\ count \in Nat
  /\ last \in 0..now

\* ratelimit.rs:13-14, "`capacity` is the burst size; `refill_per_sec` is the
\* steady-state admission rate": in any window of t milliseconds no more than
\* a full bucket and t milliseconds of refill are admitted, however the calls,
\* the rejections and the looks at available() fall.  Rounding adds up to no more
\* than Rounding a millisecond, in which the bucket is refilled at most once.
BurstPlusRate ==
  Watching => Cost * count <= Capacity + (Rate + Rounding) * (now - from)

\* A bucket that can hold a token at all never starves its callers
\* (ratelimit.rs:44-45, 58-59): a call is turned away only within the time one
\* token takes to accrue after the last admission, and rejections do not put it
\* off by more than the rounding they cause.  Polled every millisecond, a bucket
\* may turn a caller away a little after that time.
RejectedOnlyForATokensTime ==
  [][Reject /\ Capacity >= Cost =>
       Rate * (now - last) < Cost + Rounding * (now - last)]_vars
=============================================================================
