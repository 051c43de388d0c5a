\* An answer arrives between the send and the collect.
CONSTANTS
  a = a
  b = b
  Calls <- OneCall
  Cids = {"cid1"}
  Ids = {"req1"}
  Plan <- OnePlan
  Serial = TRUE
  NoQueue = NoQueue
  Bodies = {{"data"}}
  MaxParts = 1
  MaxLosses = 0
SPECIFICATION Spec
INVARIANT
  OkIsComplete
CHECK_DEADLOCK FALSE
