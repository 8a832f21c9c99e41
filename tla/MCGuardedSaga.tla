---------------------------- MODULE MCGuardedSaga ----------------------------
(* An instance of GuardedSaga for TLC. *)
EXTENDS GuardedSaga

CONSTANTS a, s, b, v1   \* a voter with its hot spare, a host to provision, a version

CONSTANTS c1, c2   \* the calls

\* A failover of a to s beside a provisioning of b or an upgrade of the spare.
OneEach ==
  [c \in Calls |->
     IF c = c1 THEN {[kind |-> "Failover", host |-> a, spare |-> s, version |-> v1]}
               ELSE {[kind |-> "Provision", host |-> b, spare |-> b, version |-> v1],
                     [kind |-> "Upgrade", host |-> s, spare |-> s, version |-> v1]}]

\* The pair runs and b is an empty address.
RunningPair ==
  /\ GuardedInit
  /\ fleet = [h \in Hosts |-> IF h = b THEN Absent ELSE Serving(h, v1)]

FromARunningPair == RunningPair /\ [][GuardedNext]_guardedVars /\ GuardedFairness
=============================================================================
