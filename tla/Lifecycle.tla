------------------------------ MODULE Lifecycle ------------------------------
(***************************************************************************)
(* The vocabulary of validatorforge-types: the lifecycle graph of a node   *)
(* (node.rs), the deployment kinds and run statuses (ops.rs), and the two  *)
(* tables of the core that are indexed by the kind: the ordered steps of a *)
(* saga (saga.rs build_plan) and the transitions the engine applies to the *)
(* node once the saga has returned (engine.rs success_path, failure_path). *)
(* Everything here is pure: no variables, no constants.                    *)
(***************************************************************************)
EXTENDS Integers, Sequences

NodeStates == {"Provisioning", "Bootstrapping", "CatchingUp", "Active",
               "Delinquent", "Draining", "Decommissioned", "Failed"}

IsTerminal(s) == s \in {"Decommissioned", "Failed"}

\* The match arms of can_transition_to, as a relation.
Edges == {<<"Provisioning", "Bootstrapping">>, <<"Provisioning", "Failed">>,
          <<"Bootstrapping", "CatchingUp">>,   <<"Bootstrapping", "Failed">>,
          <<"CatchingUp", "Active">>,          <<"CatchingUp", "Failed">>,
          <<"Active", "Delinquent">>,          <<"Active", "Draining">>,
          <<"Delinquent", "CatchingUp">>,      <<"Delinquent", "Draining">>,
          <<"Draining", "Decommissioned">>,    <<"Draining", "CatchingUp">>}

CanTransition(from, to) == <<from, to>> \in Edges

-----------------------------------------------------------------------------
Kinds == {"Provision", "Upgrade", "Failover", "Decommission"}

RunStatuses == {"Running", "Succeeded", "RolledBack", "Failed"}
Verdicts == RunStatuses \ {"Running"}

Steps == {"ApplyInfra", "TuneHost", "StartValidator", "AwaitCatchup",
          "Drain", "SwapIdentity", "DestroyInfra"}

\* Mutated forms of BuildPlan: the failover moves the key before it drains; the
\* upgrade drains what it has just started.
BuildPlanSwapFirst(kind) ==
  CASE kind = "Provision"    -> <<"ApplyInfra", "TuneHost", "StartValidator", "AwaitCatchup">>
    [] kind = "Upgrade"      -> <<"Drain", "StartValidator", "AwaitCatchup">>
    [] kind = "Failover"     -> <<"SwapIdentity", "Drain">>
    [] kind = "Decommission" -> <<"Drain", "DestroyInfra">>

BuildPlanStartFirst(kind) ==
  CASE kind = "Provision"    -> <<"ApplyInfra", "TuneHost", "StartValidator", "AwaitCatchup">>
    [] kind = "Upgrade"      -> <<"StartValidator", "Drain", "AwaitCatchup">>
    [] kind = "Failover"     -> <<"Drain", "SwapIdentity">>
    [] kind = "Decommission" -> <<"Drain", "DestroyInfra">>

BuildPlan(kind) ==
  CASE kind = "Provision"    -> <<"ApplyInfra", "TuneHost", "StartValidator", "AwaitCatchup">>
    [] kind = "Upgrade"      -> <<"Drain", "StartValidator", "AwaitCatchup">>
    [] kind = "Failover"     -> <<"Drain", "SwapIdentity">>
    [] kind = "Decommission" -> <<"Drain", "DestroyInfra">>

\* The steps that override compensate; the others keep the default, Ok(()).
Reversible == {"ApplyInfra", "StartValidator", "SwapIdentity"}

-----------------------------------------------------------------------------
\* Mutated form of SuccessPath: an upgrade stops at CatchingUp.
SuccessPathUnfinished(kind) ==
  CASE kind = "Provision" -> <<"Bootstrapping", "CatchingUp", "Active">>
    [] kind = "Upgrade"   -> <<"Draining", "CatchingUp">>
    [] kind \in {"Failover", "Decommission"} -> <<"Draining", "Decommissioned">>

SuccessPath(kind) ==
  CASE kind = "Provision" -> <<"Bootstrapping", "CatchingUp", "Active">>
    [] kind = "Upgrade"   -> <<"Draining", "CatchingUp", "Active">>
    [] kind \in {"Failover", "Decommission"} -> <<"Draining", "Decommissioned">>

FailurePath(kind) == IF kind = "Provision" THEN <<"Failed">> ELSE << >>

Path(kind, status) ==
  IF status = "Succeeded" THEN SuccessPath(kind) ELSE FailurePath(kind)

(***************************************************************************)
(* What the loop `for to in path { node.transition_to(to)?; .. }` does     *)
(* from state s: it takes the longest prefix of path whose every move is   *)
(* an edge, and it fails with IllegalTransition if a move is left over.    *)
(***************************************************************************)
Before(s, path, i) == IF i = 1 THEN s ELSE path[i - 1]

Legal(s, path, n) == \A i \in 1..n : CanTransition(Before(s, path, i), path[i])

\* Mutated form of Walked: transition_to without its check.
WalkedUnchecked(s, path) == Len(path)

Walked(s, path) ==
  CHOOSE n \in 0..Len(path) :
    /\ Legal(s, path, n)
    /\ \A m \in (n + 1)..Len(path) : ~Legal(s, path, m)

Completes(s, path) == Walked(s, path) = Len(path)

StateAfter(s, path) ==
  IF Walked(s, path) = 0 THEN s ELSE path[Walked(s, path)]
=============================================================================
