CONSTANTS
  Timeout = 2
  PollSlack = 2
  WorkerSlack = 6
  TTL = 3
  MaxStalls = 6
  MaxLate = 4
SPECIFICATION FairSpec
INVARIANTS
  InnermostClockDecides
  NoJobLeft
PROPERTIES
  JobGoesAway
  OneStepOfThePipeline
CHECK_DEADLOCK FALSE
