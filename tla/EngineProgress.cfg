\* Two deployments and one slot, under fairness; the repository works and nobody hangs up.
SPECIFICATION FromTheFirst
CONSTANTS
  Calls = {c1, c2}
  a = a
  s = s
  Hosts = {a, s}
  Voters = {a}
  Versions = {v1, v2}
  v1 = v1
  v2 = v2
  Junk = Junk
  NoVersion = NoVersion
  Requests <- ToTheNext
  Registrable = {}
  RateCapacity = 1
  MaxDeploys = 1
  RepoMayFail = FALSE
  MayCancel = FALSE
  LossyFailures = TRUE
INVARIANTS
  LastSuccessIsRecorded
PROPERTIES
  ImplementsContract
  EveryDeploymentReturns
  StartedRunsFinish
CHECK_DEADLOCK FALSE
