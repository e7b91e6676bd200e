SPECIFICATION Spec
CONSTANTS
  t1 = t1
  t2 = t2
  q1 = q1
  zeroboot = zeroboot
  blank = blank
  none = none
  Turn <- MCTurn
  Ctl <- MCCtl
  Request <- MCTurn
  Session <- MCSession
  None = none
  NoReq = none
  Blank = blank
  CompletedLimit = 1
  CancelledLimit = 1
  WireCap = 1
  WorkerCap = 1
  Retention = 1
  MaxOutput = 1
INVARIANTS TypeOK TeardownStopsTurn
PROPERTIES ServesAsPeer TerminalReaches
