SPECIFICATION ClientSpec
CONSTANTS
  e1 = e1
  s1 = s1
  q1 = q1
  none = none
  Turn <- MCTurn
  Stream <- MCStream
  Ctl <- MCCtl
  None = none
  WireCap = 1
  MaxOutput = 2
  ChanCap = 1
  Budget = 1
  OutputLimit = 1
  MaxOps = 3
  MaxLost = 2
INVARIANTS ClientTypeOK CleanExitIsWhole TurnOwned FramedClientTrue
PROPERTIES InnocentNeverRefused
