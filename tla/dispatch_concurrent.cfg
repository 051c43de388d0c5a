\* Two concurrent calls on cids of their own, one of them with a last op that
\* fails; a lost and replaced session or a stopped manager; under fairness.
CONSTANTS
  a = a
  b = b
  Calls <- TwoCalls
  Cids = {"cid1", "cid2"}
  Ids = {"req1", "req2"}
  Plan <- MixedPlans
  Serial = FALSE
  NoQueue = NoQueue
  Bodies = {{"data"}, {"error"}, {}}
  MaxParts = 1
  MaxLosses = 1
SPECIFICATION FairSpec
INVARIANTS
  Isolation
  NoQueueLeft
PROPERTIES
  KeepsContract
  CallsReturn
CHECK_DEADLOCK FALSE
