SPECIFICATION OrSpec
CONSTANTS
  Creator = {"c1", "c2", "c3"}
  Stopper = {"d1", "d2"}
INVARIANT NoWedge
CHECK_DEADLOCK FALSE
