\* One deployment of a node, evaluated once, with a subscriber on a ring of two.
SPECIFICATION PlaneFairSpec
CONSTANTS
  Calls = {c1}
  a = a
  v1 = v1
  Hosts = {a}
  Voters = {a}
  Versions = {v1}
  Junk = Junk
  NoVersion = NoVersion
  NoTarget = v1
  Requests <- AllRequests
  Registrable = {a}
  RateCapacity = 1
  MaxDeploys = 1
  RepoMayFail = FALSE
  MayCancel = FALSE
  LossyFailures = FALSE
  Subscribers = {s1}
  RingSize = 2
  DeployInputs <- AnyDeployment
  RegisterInputs <- SomeRegistrations
  Readings <- SomeReadings
  MaxReadings = 1
INVARIANTS
  BusTypeOK
  OnlyOverwrittenAreLost
  FeedAgreesWithStore
  AgeingOnlyBlinds
PROPERTIES
  ImplementsLossyStream
  LastWordArrives
CHECK_DEADLOCK FALSE
