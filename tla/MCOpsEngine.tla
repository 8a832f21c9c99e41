----------------------------- MODULE MCOpsEngine -----------------------------
(* Instances of OpsEngine for TLC: the deployments each run may ask for. *)
EXTENDS OpsEngine, TLC

Deploy(n, k, s) == {q \in AllRequests : q.node = n /\ q.kind = k /\ q.spare = s}

\* Everything that can be asked of one node, with one other to fail over to.
AnyOf(n, s) == {q \in AllRequests : q.node = n /\ q.spare \in {n, s}}

CONSTANTS a, s   \* a voting node and a hot spare

OnTheVoter      == AnyOf(a, s)
Upgrades        == Deploy(a, "Upgrade", a)
UpgradeAndLeave == Upgrades \cup Deploy(a, "Decommission", a)
UpgradeAndMove  == Upgrades \cup Deploy(a, "Failover", s)

\* The calls are interchangeable.
Symmetry == Permutations(Calls)

\* Anything may be asked of the voter, and the spare may be decommissioned; an
\* upgrade leaves the first version, on which everything starts.
CONSTANTS v1, v2
ToTheNext ==
  {q \in AnyOf(a, s) \cup Deploy(s, "Decommission", s) :
     q.target = IF q.kind = "Upgrade" THEN v2 ELSE v1}

InitFirst ==
  /\ Init
  /\ \A h \in Hosts : fleet[h].version # v2
  /\ \A n \in DOMAIN nodes : nodes[n].version = v1

FromTheFirst == InitFirst /\ [][Next]_vars /\ Fairness
=============================================================================
