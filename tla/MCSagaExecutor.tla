--------------------------- MODULE MCSagaExecutor ---------------------------
(* Instances of SagaExecutor for TLC. *)
EXTENDS SagaExecutor, TLC

\* The calls are interchangeable, the hosts of one role, and the versions.
Symmetry == Permutations(Calls) \cup Permutations(Voters)
              \cup Permutations(Hosts \ Voters) \cup Permutations(Versions)
=============================================================================
