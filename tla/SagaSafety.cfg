\* Two concurrent calls over three hosts; failed agent calls may have taken effect.
SPECIFICATION SagaSpec
CONSTANTS
  Calls = {c1, c2}
  Hosts = {a, b, s}
  Voters = {a, b}
  Versions = {v1, v2}
  Junk = Junk
  NoVersion = NoVersion
  LossyFailures = TRUE
SYMMETRY Symmetry
INVARIANTS
  SagaTypeOK
  UndoneInReverse
  StatusMatchesTrail
  PrimariesApartNeverDoubleVote
  SuccessDelivers
  RollbackRemovesInfra
CHECK_DEADLOCK FALSE
