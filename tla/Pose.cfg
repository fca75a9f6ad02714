CONSTANTS
  Unit = 16
  MaxOffset = 1
SPECIFICATION Spec
INVARIANTS
  PointsAgree
  ViewUndoes
  ProjectionUndone
  VolumeKept
  EulerKeepsHeading
