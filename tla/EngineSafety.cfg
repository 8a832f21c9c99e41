\* Two concurrent deployments on the voter; everything may fail, every client may hang up.
SPECIFICATION Spec
CONSTANTS
  Calls = {c1, c2}
  a = a
  s = s
  Hosts = {a, s}
  Voters = {a}
  v1 = v1
  v2 = v2
  Versions = {v1}
  Junk = Junk
  NoVersion = NoVersion
  Requests <- OnTheVoter
  Registrable = {a}
  RateCapacity = 1
  MaxDeploys = 2
  RepoMayFail = TRUE
  MayCancel = TRUE
  LossyFailures = TRUE
SYMMETRY Symmetry
INVARIANTS
  TypeOK
  OnlyNodesAtRestAreStored
  SlotsAreConserved
  RunsBelongToOneCall
  FinishedRunIsStored
PROPERTIES
  TerminalLeftOnlyByStaleCopy
  VerdictIsFinal
CHECK_DEADLOCK FALSE
