\* Calls one at a time, with the one cid the client library uses.
CONSTANTS
  a = a
  b = b
  Calls <- TwoCalls
  Cids = {"cid1"}
  Ids = {"req1"}
  Plan <- SamePlans
  Serial = TRUE
  NoQueue = NoQueue
  Bodies = {{"data"}}
  MaxParts = 1
  MaxLosses = 0
SPECIFICATION Spec
INVARIANT
  OwnAnswersOnly
CHECK_DEADLOCK FALSE
