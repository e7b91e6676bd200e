SPECIFICATION FairSpec
CONSTANTS
  NSlots = 2
  Proc = {p1, p2, p3}
  Mortal = {1}
PROPERTY NoCallerParksForever
