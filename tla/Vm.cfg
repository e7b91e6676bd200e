SPECIFICATION Spec
CONSTANTS
  Host = {h1, h2}
  Box = {b1, b2, b3}
  Fork = {f1}
  MaxBuild = 2
  MaxFaults = 1
  MaxSpawns = 3
  MaxShots = 2
  Full = 2
SYMMETRY Names
INVARIANTS TypeOK UsedDirsStand PoolReachesOwnVm RestoresTrue ControllerTrue
