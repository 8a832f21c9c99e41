---------------------------------- MODULE Api ----------------------------------
(***************************************************************************)
(* The write side of the GraphQL schema (validatorforge-api/src/           *)
(* mutation.rs) with the newtypes it validates its inputs with             *)
(* (validatorforge-types/src/ids.rs).  Pure: which inputs reach the        *)
(* engine, and as what.                                                    *)
(*                                                                         *)
(* A raw string is [names : what it stands for, blank : whether trimming   *)
(* leaves nothing, bytes : len()].  It is kept as it came: only the test   *)
(* for blanks looks at a trimmed copy, and the lengths count bytes.        *)
(***************************************************************************)
EXTENDS Lifecycle

MaxNodeIdLen == 64
MaxClusterNameLen == 32
MaxHostAddrLen == 253

IsNodeId(t)      == ~t.blank /\ t.bytes <= MaxNodeIdLen
IsClusterName(t) == ~t.blank /\ t.bytes <= MaxClusterNameLen
IsHostAddr(t)    == ~t.blank /\ t.bytes <= MaxHostAddrLen
IsVersion(t)     == ~t.blank

\* An optional field the client left out.
Missing == [names |-> "nothing", blank |-> TRUE, bytes |-> 0]
Given(t) == t # Missing

(***************************************************************************)
(* startDeployment: [nodeId, kind, targetVersion, spare].  The target is   *)
(* required for an upgrade and the spare for a failover; in an input of    *)
(* another kind they are ignored, valid or not.                            *)
(***************************************************************************)
AcceptsDeployment(i) ==
  /\ IsNodeId(i.nodeId)
  /\ i.kind = "Upgrade"  => Given(i.targetVersion) /\ IsVersion(i.targetVersion)
  /\ i.kind = "Failover" => Given(i.spare) /\ IsNodeId(i.spare)

\* The DeploymentKind with its payload; a payload a kind has not is filled with
\* the node itself and with noTarget.
AsRequest(i, noTarget) ==
  [node   |-> i.nodeId.names,
   kind   |-> i.kind,
   spare  |-> IF i.kind = "Failover" THEN i.spare.names ELSE i.nodeId.names,
   target |-> IF i.kind = "Upgrade" THEN i.targetVersion.names ELSE noTarget]

\* registerNode: [id, clusterName, host, version], and a cluster and a role that
\* are enums already.
AcceptsRegistration(i) ==
  /\ IsNodeId(i.id) /\ IsClusterName(i.clusterName)
  /\ IsHostAddr(i.host) /\ IsVersion(i.version)
=============================================================================
