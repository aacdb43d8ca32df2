CONSTANTS
  q1 = q1
  q2 = q2
  q3 = q3
  q4 = q4
  q5 = q5
  NoVersion = NoVersion
  Requests <- FiveRequests
  MaxVersions = 3
  MaxFaults = 1
SYMMETRY Symmetry
SPECIFICATION Spec
INVARIANTS
  NumbersGapless
  RoutingConsistent
  LimitOvershoot
  RowHasArtifact
  ArtifactsKept
