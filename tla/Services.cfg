SPECIFICATION Spec
CONSTANTS
  RegionNames = {"alsace", "berlin"}
  RegionsAt <- MCRegionsAt
  MaxPubFails = 1
  MaxPubRestarts = 1
  Callbacks = {"subscriber", "liar"}
  Configured <- MCConfigured
  Answering = {"subscriber"}
  Attempts = 3
  MaxContents = 2
  MaxRegistrations = 2
  MaxRefusals = 1
  MaxPushes = 2
  PassesPerFull = 3
  Passes = {"prices", "statuses"}
  StaticTTL = 2
  MaxFetch = 2
  MaxNow = 6
  StatKeys = {"k1", "k2", "k3"}
  MaxStatsEntries = 2
  MaxColds = 2
  MaxRefreshes = 2
  MaxStatFails = 1
  RefreshEvery = 5
  RetryAfter = 1
  MaxFxNow = 12
  Rotations = 5
  Malformed = {3}
  UserOnly = {2}
  PasswordOnly = {4}
  MaxTariffs = 2
  MaxArrivals = 4
  MaxIngestFails = 1
  MaxHandshakes = 2
  Feeds = {"monta", "afir"}
  Crawled = {"monta"}
  MaxLoadFails = 1
  MaxRegistry = 2
INVARIANTS
  TagNeverAhead
  PublishedSet
  OnlyProven
  FreshAsAsked
  FlagMeansRunning
  RetriesSoon
  PairMatches
  LinkedEitherOrder
  OnePassPerKind
PROPERTIES
  EnabledMeansWhole
  ReadersCatchUp
  SubscribersCatchUp
  KeepsPolling
CHECK_DEADLOCK FALSE
