\* Two starts and a stop by two callers that also open services lazily, two
\* losses and failing attempts in between.
CONSTANTS
  c1 = c1
  c2 = c2
  l1 = l1
  l2 = l2
  refdata = refdata
  mktdata = mktdata
  Callers <- TwoCallers
  Loops <- TwoLoops
  Services <- TwoServices
  PreOpened <- Boot
  NoOne = NoOne
  MaxAttempts = 2
  MaxStarts = 2
  MaxStops = 1
  MaxLost = 2
SPECIFICATION Spec
SYMMETRY ThreadSymmetry
INVARIANTS
  SettledInv
  HandlesOfCurrentSession
  OwnsSingleSession
PROPERTY
  StoppedIsFinalAtRest
CHECK_DEADLOCK FALSE
