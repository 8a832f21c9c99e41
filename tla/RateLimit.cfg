\* Two and a half tokens of burst, a token every two ticks and a bit; a refill may
\* be off by a quarter of a tick.
SPECIFICATION Spec
CONSTANTS
  Capacity = 26
  Rate = 4
  Cost = 10
  Rounding = 1
  Horizon = 12
INVARIANTS
  TypeOK
  BurstPlusRate
PROPERTIES
  RejectedOnlyForATokensTime
CHECK_DEADLOCK FALSE
