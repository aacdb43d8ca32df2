CONSTANTS
  r1 = r1
  r2 = r2
  r3 = r3
  i = i
  p1 = p1
  p2 = p2
  handler = handler
  requirements = requirements
  Runners <- ThreeAndInline
  Inline <- OneInline
  Members <- TwoMembers
  Requirements = requirements
  Packages <- TwoPackages
SPECIFICATION Spec
SYMMETRY Swaps
INVARIANTS
  MarkersTellTheTruth
  HandlersFindAll
PROPERTIES
  WarmStaysWarm
CHECK_DEADLOCK FALSE
