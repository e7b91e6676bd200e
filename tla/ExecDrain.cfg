SPECIFICATION WxFairSpec
CONSTANTS
  MaxChunk = 1
  CaptureLimit = 1
PROPERTY ExecReturns
CHECK_DEADLOCK FALSE
