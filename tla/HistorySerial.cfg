SPECIFICATION Spec
CONSTANTS
  w1 = w1
  w2 = w2
  mob = mob
  NoGuard = NoGuard
  day = day
  night = night
  other = other
  eliso = eliso
  zloty = zloty
  rate1 = rate1
  rate2 = rate2
  rateE = rateE
  rateZ = rateZ
  NoTariff = NoTariff
  NoPrice = NoPrice
  Writers = {w1, w2}
  GuardOf <- OneGuard
  Feed <- BrokerFeed
  Does <- PushJobs
  Tariffs <- AllTariffs
  RateOf <- MCRateOf
  OverlayRates = {rateE}
  HeadlineOf <- MCHeadlineOf
  Foreign = {zloty, other}
  MaxClock = 4
INVARIANTS
  HistoryOrdered
  ChangesOnly
  FillMatches
PROPERTIES
  SuccessConfirmsSeen
  StatusNeverFlaps
