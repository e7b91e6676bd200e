SPECIFICATION Spec
CONSTANTS
  NNodes = 1
  Proc = {p1}
  Interval = 1
  FailureTrip = 2
  LeastInflight = FALSE
  Releases = FALSE
  Probes = FALSE
  MaxTime = 1
  MaxBoxes = 1
SYMMETRY Callers
PROPERTIES ReconcileSparesHeld
