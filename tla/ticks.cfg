CONSTANTS
  s1 = s1
  r1 = r1
  r2 = r2
  NoSchedule = NoSchedule
  Free = Free
  Orphan = Orphan
  Schedules <- OneSchedule
  Clients <- TwoReplicas
  Laggards <- Nobody
  Recron <- OneSchedule
  Crons <- MCCrons
  CronNext <- MCCronNext
  TTL = 2
  Wait = 1
  MaxGap = 1
  Horizon = 4
  LastChange = 2
  MaxFaults = 1
  MaxEdits = 1
SPECIFICATION FairSpec
INVARIANTS
  TypeOK
  NoBackfill
  NoneForgotten
  RepeatsNeedFaults
PROPERTIES
  NextOnlyAdvances
  DueIsServed
  EditTakesEffect
