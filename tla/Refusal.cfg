\* An upgrade and a failover of one node, one slot: they run one after the other.
SPECIFICATION Spec
CONSTANTS
  Calls = {c1, c2}
  a = a
  s = s
  Hosts = {a, s}
  Voters = {a}
  v1 = v1
  v2 = v2
  Versions = {v1}
  Junk = Junk
  NoVersion = NoVersion
  Requests <- UpgradeAndMove
  Registrable = {}
  RateCapacity = 2
  MaxDeploys = 1
  RepoMayFail = FALSE
  MayCancel = FALSE
  LossyFailures = FALSE
INVARIANTS
  DecommissionedNeverVotes
CHECK_DEADLOCK FALSE
