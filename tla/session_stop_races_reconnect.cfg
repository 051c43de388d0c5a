\* stop() while a reconnect thread is past its wait.
CONSTANTS
  c1 = c1
  c2 = c2
  l1 = l1
  l2 = l2
  refdata = refdata
  mktdata = mktdata
  Callers <- OneCaller
  Loops <- TwoLoops
  Services <- TwoServices
  PreOpened <- Boot
  NoOne = NoOne
  MaxAttempts = 2
  MaxStarts = 1
  MaxStops = 1
  MaxLost = 1
SPECIFICATION Spec
INVARIANT
  StopLeavesNoSession
CHECK_DEADLOCK FALSE
