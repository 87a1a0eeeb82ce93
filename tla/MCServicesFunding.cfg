SPECIFICATION ServicesSpec
CONSTANTS
  SCALE = 10
  BPS = 10000
  Perps <- MCPerps
  Polls = {1, 2}
  Lookback = 2
  ZeroRateEpochs = {2}
  NoEpoch = NoEpoch
  MaxEpoch = 3
  MaxPollFailures = 1
  MaxBoots = 1
  TwapTotals = {5, 6}
  TwapSlices = {2, 3}
  TwapLot = 2
  TwapInterval = 2
  Retain = 1
  MaxTwaps = 1
  MaxTickLag = 2
  Tabs = {"a1", "a2", "b"}
  AddressOf <- MCAddressOf
  NonceTtl = 1
  NonceCap = 1
  MaxNonces = 2
  MaxCopies = 2
  Callers = {"x", "y", "z"}
  Limits = {1, 2}
  CandleTtl = 2
  MaxFetchTime = 2
  Coins = {"M"}
  Mirrorable = {"M"}
  AlwaysOn = {}
  VenueBooks <- MCBooks
  MirrorTick = 2
  MirrorLot = 10
  MirrorMinNotional = 2
  Depth = 2
  StaleAfter = 1
  MaxMirrorQueue = 2
  BackoffCap = 1
  MaxWireFrames = 1
  HonestPrices = {5, 6}
  OtherPrices = {9}
  Alpha = 3
  SampleLife = 1
  OraclePolls = {1}
  MaxTickerTs = 2
  PnlOwners = {"u"}
  PnlAmounts = {2, 3}
  HouseOwner = "mm"
  OrderOwners = {"mm", "u"}
  TradesKeep = 1
  EventsKeep = 1
  MaxProjected = 3
  MaxOrderRows = 1
  MaxBookChanges = 1
  MaxStreamEvents = 3
INVARIANT NeverChargedTwice
CHECK_DEADLOCK FALSE
