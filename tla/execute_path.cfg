\* A burst of three and 50 calls a minute, so that a token takes more than a
\* second, for three threads on one bucket; three plans that pass validation
\* and one that does not, on a cache of two; two threads of a client that ask
\* two servers for one schema.
CONSTANTS
  alice = alice
  t1 = t1
  t2 = t2
  t3 = t3
  Users <- OneUser
  Threads <- ThreeThreads
  Capacity = 3
  PerMinute = 50
  NoUser = NoUser
  MaxTime = 5
  p1 = p1
  p2 = p2
  p3 = p3
  bad = bad
  Plans <- AllPlans
  Invalid <- BadPlan
  NoPlan = NoPlan
  MaxEntries = 2
  Ttl = 2
  MaxClock = 4
  MaxRequests = 4
  SchemaThreads = {f1, f2}
  SchemaHosts = {h1, h2}
  NoSchema = NoSchema
  Broken = Broken
  MaxVersion = 2
  MaxRestarts = 1
  MaxCalls = 3
SPECIFICATION MCSpec
SYMMETRY Symmetry
INVARIANTS
  TypeOK
  WindowBound
  CacheInv
  AuditIsComplete
  BodyIsTheServers
PROPERTY
  ThrottledOnlyWhenSpent
CHECK_DEADLOCK FALSE
