CONSTANTS
  e1 = e1
  e2 = e2
  f1 = f1
  Requests <- TwoAndAnInvocation
  Ephemeral <- TwoEphemeral
  SandboxEnabled = TRUE
  LocalExecution = FALSE
  RateLimit = 1
  ConcurrencyLimit = 1
  MaxMinute = 2
  MaxFaults = 1
SYMMETRY Symmetry
SPECIFICATION Spec
INVARIANTS
  TypeOK
  OvershootBounded
  RateBounded
  LeaksNeedFaults
PROPERTIES
  KeyColumnsStick
CHECK_DEADLOCK FALSE
