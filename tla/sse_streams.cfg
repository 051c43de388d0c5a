\* Two streams share one worker; the session is lost once; under fairness.
CONSTANTS
  s1 = s1
  s2 = s2
  Streams <- TwoStreams
  Workers = 1
  MaxEvents = 2
  MaxLosses = 1
SPECIFICATION FairSpec
INVARIANTS
  ClosedIsCleanedUp
  StreamInv
PROPERTY
  WaitersHearSomething
CHECK_DEADLOCK FALSE
