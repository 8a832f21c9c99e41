--------------------------- MODULE MCControlPlane ---------------------------
(* An instance of ControlPlane for TLC: the inputs of the clients. *)
EXTENDS ControlPlane

CONSTANTS a, v1   \* a voting node and a version

Text(x)  == [names |-> x, blank |-> FALSE, bytes |-> 10]
Long(x)  == [names |-> x, blank |-> FALSE, bytes |-> 65]
Blank(x) == [names |-> x, blank |-> TRUE, bytes |-> 1]

NodeTexts    == {Text(a), Long(a), Blank(a)}
VersionTexts == {Text(v1), Blank(v1), Missing}

\* With one node there is none to fail over to.
AnyDeployment ==
  [nodeId : NodeTexts, kind : Kinds, targetVersion : VersionTexts, spare : {Missing, Long(a)}]

SomeRegistrations ==
  {[id |-> i, clusterName |-> Text("eu"), host |-> Text("h"), version |-> Text(v1)] :
     i \in {Text(a), Long(a)}}

\* A reading of a delinquent node, looked at before it was taken, and as the
\* freshness window ends.
SomeReadings ==
  {[snapshot |-> Snapshot(1000, 872, 49, 200), now |-> 200 + age] : age \in {-122, 121, 122}}
=============================================================================
