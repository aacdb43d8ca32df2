SPECIFICATION FairSpec
CONSTANTS
  e1 = e1
  e2 = e2
  w1 = w1
  w2 = w2
  r1 = r1
  Execs <- MCOneExec
  Workers <- MCWorkers
  Recoverers <- MCRecoverers
  NoJob = NoJob
  NoWorker = NoWorker
  MaxAttempts = 2
  MaxFaults = 1
  Cancellable <- MCOneExec
  Flaky <- MCOneExec
  Overrun <- MCOneExec
INVARIANTS
  JobsAreCounted
  InGoodHands
PROPERTIES
  RunningSettles
