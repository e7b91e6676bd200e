SPECIFICATION FgaSpec
CONSTANTS
  Run = {"r1", "r2"}
  Rounds = 2
  MaxMade = 2
  MaxFaults = 1
INVARIANT SweepsOwnController
CHECK_DEADLOCK FALSE
