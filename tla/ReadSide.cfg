\* Two runs in each of two processes, with and without a durable store; a model
\* that may never answer.
SPECIFICATION ReadFairSpec
CONSTANTS
  Backends = {"memory", "postgres"}
  MaxRuns = 2
  MaxLives = 2
  MaxTime = 1
  Width = 2
  Questions <- SomeQuestions
  HasKey = TRUE
  MaxRetries = 2
  CallTimeout = 1
  BaseDelay = 2
  MaxDelay = 1
INVARIANTS
  RecentRunsAreNewest
  MoreAlarmNeverCalms
  AdviceInTime
PROPERTIES
  ImplementsLedger
  AdviceIsGiven
CHECK_DEADLOCK FALSE
