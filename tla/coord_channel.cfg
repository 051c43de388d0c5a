\* Two users with a watcher each, a third reader that peeks; three messages for
\* inboxes of two; one failed request, lost connection, unreadable reply or restart.
CONSTANTS
  mac = mac
  win = win
  r1 = r1
  r2 = r2
  r3 = r3
  w1 = w1
  w2 = w2
  Users <- TwoUsers
  Msgs <- ThreeMsgs
  Readers = {r1, r2, r3}
  UserOf <- EachOwn
  Mode <- BothWatch
  Workers <- TwoWorkers
  NoReader = NoReader
  InboxMax = 2
  MaxFaults = 1
  MaxRestarts = 1
SPECIFICATION MCSpec
INVARIANTS
  NoLostWakeup
  MailInv
PROPERTY
  WatchedInboxIsRead
CHECK_DEADLOCK FALSE
