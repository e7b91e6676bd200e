SPECIFICATION GuestSpec
CONSTANTS
  s1 = s1
  s2 = s2
  r1 = r1
  r2 = r2
  r3 = r3
  blank = blank
  Conn = {c1, c2}
  Session = {s1}
  Request = {r1, r2, r3}
  Blank = blank
  NoReq = none
  CompletedLimit = 1
  CancelledLimit = 1
  TurnWait = 1
  SecondWait = 3
  MaxTurn = 3
  Panics = TRUE
  MaxChunk = 2
  CaptureLimit = 1
  Executor = {e1, e2}
  Name = {f, g}
  MaxSize = 2
  Limit = 3
  MaxPieces = 2
  MaxLines = 1
  MaxText = 4
  MaxTree = 4
  MaxBytes = 4
  MaxPayload = 1
  MaxCount = 2
INVARIANTS GuestTypeOK ExecutorConserved NoSessionWedged RecentNeverReruns EndsWhole ExecSettles
  AlgorithmsAgree
PROPERTIES ShutdownHolds ExecutorComesHome ReturnsUnlessDetached SizeAccounted
