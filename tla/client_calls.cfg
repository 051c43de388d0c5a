\* Two requests, sends and collects, with services opened twice; two processes
\* and two servers of which one boots again, a token that lives for three ticks.
CONSTANTS
  refdata = refdata
  news = news
  Services <- TwoServices
  Types <- OneType
  Paths <- OnePath
  Required <- NeedsOnePath
  AllowedServices <- TwoServices
  AllowedTypes <- OneType
  Arrays <- OnePath
  MaxSecurities = 2
  MaxFields = 2
  MaxTimeout = 30
  Timeout = 10
  MaxRequests = 2
  MaxSends = 2
  MaxOpens = 2
  MaxCollects = 2
  a = a
  b = b
  u = u
  w1 = w1
  w2 = w2
  h1 = h1
  h2 = h2
  None = None
  Torn = Torn
  Processes = {a, b}
  Hosts = {h1, h2}
  Users = {u}
  Passwords = {w1, w2}
  Credentials <- OnlyAHasLogin
  Lifetime = 3
  Buffer = 2
  LoginDelay = 1
  CallDelay = 1
  RotateSecret = TRUE
  MaxTime = 3
  MaxBoots <- FirstReboots
  MaxStarts = 3
SPECIFICATION MCSpec
INVARIANTS
  DocumentedUseWorks
  AnswersTheRequest
  TokenInv
  OneRejectionPerBoot
  AcknowledgedUserKept
PROPERTIES
  QueueLeftOnlyByLoneCollect
  SaveKeepsOthers
CHECK_DEADLOCK FALSE
