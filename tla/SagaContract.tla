---------------------------- MODULE SagaContract ----------------------------
(***************************************************************************)
(* What SagaExecutor::run promises its caller (saga.rs:177-182 and the     *)
(* RunStatus documentation of ops.rs): a call opens with a kind, its steps *)
(* complete one after the other, and it closes in one of three ways.       *)
(*   Succeeded   every step of the plan completed;                         *)
(*   RolledBack  a step failed and every completed step was undone;        *)
(*   Failed      a step failed and some completed step was not undone.     *)
(* Steps that have no compensation of their own count as undone.           *)
(***************************************************************************)
EXTENDS Lifecycle

CONSTANT Calls

VARIABLE call   \* [Calls -> idle, open or closed]

Init == call = [c \in Calls |-> [phase |-> "idle"]]

Phase(c, p) == call[c].phase = p

Length(c) == Len(BuildPlan(call[c].kind))

Open(c) ==
  /\ Phase(c, "idle")
  /\ \E k \in Kinds :
       call' = [call EXCEPT ![c] = [phase |-> "open", kind |-> k, done |-> 0]]

Close(c, n, undone, status) ==
  call' = [call EXCEPT ![c] = [phase |-> "closed", kind |-> call[c].kind,
                               done |-> n, undone |-> undone, status |-> status]]

Advance(c) ==
  /\ Phase(c, "open")
  /\ call[c].done + 1 < Length(c)
  /\ call' = [call EXCEPT ![c].done = @ + 1]

Succeed(c) ==
  /\ Phase(c, "open")
  /\ call[c].done + 1 = Length(c)
  /\ Close(c, Length(c), {}, "Succeeded")

\* The steps among the first n that must be undone by an agent call.
ToUndo(c, n) == {i \in 1..n : BuildPlan(call[c].kind)[i] \in Reversible}

Abort(c) ==
  /\ Phase(c, "open")
  /\ LET n == call[c].done IN
     \E left \in SUBSET ToUndo(c, n) :
       Close(c, n, (1..n) \ left, IF left = {} THEN "RolledBack" ELSE "Failed")

Next == \E c \in Calls : Open(c) \/ Advance(c) \/ Succeed(c) \/ Abort(c)

Spec == Init /\ [][Next]_call

\* An open call is closed in the end.
FairSpec ==
  /\ Spec
  /\ \A c \in Calls : WF_call(Advance(c) \/ Succeed(c) \/ Abort(c))
=============================================================================
