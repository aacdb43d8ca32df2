SPECIFICATION FairSpec
CONSTANTS
  e1 = e1
  e2 = e2
  w1 = w1
  w2 = w2
  r1 = r1
  Execs <- MCExecs
  Workers <- MCWorkers
  Recoverers <- MCRecoverers
  NoJob = NoJob
  NoWorker = NoWorker
  MaxAttempts = 2
  MaxFaults = 1
  Cancellable <- MCExecs
  Flaky <- MCNone
  Overrun <- MCNone
INVARIANT VerdictAgrees
PROPERTY EverySubmissionSettles
