SPECIFICATION Spec
CONSTANTS
  Conn = {c1, c2}
  Session = {s1}
  Request = {r1}
  Blank = blank
  NoReq = none
  CompletedLimit = 1
  CancelledLimit = 1
  TurnWait = 1
  SecondWait = 3
  MaxTurn = 60
  Panics = FALSE
INVARIANT LostOnlyByPanic
