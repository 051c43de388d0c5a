\* Two securities, a price and a table field, two requests with two messages;
\* every function of the client with up to three securities and fields; four
\* frames; three tickers in two sectors and two runs for each strategy.
CONSTANTS
  Securities = {s1, s2}
  Fields = {"PX", "TBL"}
  Bulk = {"TBL"}
  MaxCollects = 2
  MaxMessages = 2
  MaxRows = 2
  MaxRecords = 2
  None = None
  MaxSecurities = 2
  MaxFields = 2
  MaxTimeout = 30
  MaxArgs = 3
  Timeouts = {5, 31}
  Overrides = {"overrides.FUND", "overrides.PERIOD"}
  RefusedOverrides = {"overrides.FUND"}
  Heartbeat = 5
  ReadTimeout = 6
  WithPings = FALSE
  WithStatus = TRUE
  MaxFrames = 4
  Tickers <- ThreeTickers
  SectorOf <- TickerSectors
  RawSizes = {48, 480, 1200}
  HighBeta = {"b"}
  MinUniverse = 2
  MaxPositions = 2
  MinPosition = 72
  MaxPosition = 960
  MaxSector = 1200
  Available = 1440
  Composites <- SomeComposites
  VixLevels = {20, 25, 30, 35}
  MaxStrategyRuns = 2
  Stocks = {1, 2, 3}
  TopoSectorOf <- StockSectors
  Thresholds = {0, 1}
  Residuals <- SomeResiduals
  MinSecurities = 2
  Unit = 2
  MinStake = 3
  MaxStake = 15
  MaxNet = 20
  MaxTopologyRuns = 2
SPECIFICATION MCSpec
SYMMETRY AlikeSecurities
INVARIANTS
  DataIsWhole
  BuiltPlansAreServed
  CallerSeesTheStream
  EnforcedLimits
  BettiIsComponents
  StakesAreOfThisMarket
CHECK_DEADLOCK FALSE
