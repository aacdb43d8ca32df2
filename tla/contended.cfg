SPECIFICATION Spec
CONSTANTS
  e1 = e1
  e2 = e2
  w1 = w1
  w2 = w2
  r1 = r1
  Execs <- MCExecs
  Workers <- MCWorkers
  Recoverers <- MCRecoverers
  NoJob = NoJob
  NoWorker = NoWorker
  MaxAttempts = 2
  MaxFaults = 2
  Cancellable <- MCAllButOne
  Flaky <- MCNone
  Overrun <- MCAllButOne
SYMMETRY Interchangeable
INVARIANTS
  TypeOK
  RunsAtMostOnce
PROPERTIES
  NeverRevived
  CancellationSticks
  CalmLifecycle
