SPECIFICATION FairSpec
CONSTANTS
  w1 = w1
  w2 = w2
  mob = mob
  NoGuard = NoGuard
  day = day
  night = night
  other = other
  eliso = eliso
  zloty = zloty
  rate1 = rate1
  rate2 = rate2
  rateE = rateE
  rateZ = rateZ
  NoTariff = NoTariff
  NoPrice = NoPrice
  Writers = {w1, w2}
  GuardOf <- Unguarded
  Feed <- PairFeed
  Does <- PairJobs
  Tariffs <- AllTariffs
  RateOf <- MCRateOf
  OverlayRates = {rateE}
  HeadlineOf <- MCHeadlineOf
  Foreign = {zloty}
  MaxClock = 5
INVARIANTS
  OneOpen
  IInv
  NeverAllWait
PROPERTIES
  Refines
  JobsFinish
