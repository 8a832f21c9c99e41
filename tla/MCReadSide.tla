------------------------------ MODULE MCReadSide ------------------------------
(* Instances of ReadSide for TLC. *)
EXTENDS ReadSide

\* A healthy node, one that lags and one that does not vote.
SomeQuestions ==
  {[state |-> "Active", role |-> "Voting", signals |-> {}],
   [state |-> "Active", role |-> "Voting", signals |-> {"lag"}],
   [state |-> "Delinquent", role |-> "Voting", signals |-> {}]}
=============================================================================
