SPECIFICATION FairSpec
CONSTANTS
  c1 = c1
  c2 = c2
  e1 = e1
  e2 = e2
  avail = avail
  prices = prices
  admin = admin
  ingest = ingest
  api = api
  up = up
  down = down
  cheap = cheap
  dear = dear
  NoStatus = NoStatus
  NoTariff = NoTariff
  Passes = {avail, prices}
  Connectors = {c1, c2}
  EvseOf <- OwnEvse
  Statuses = {up, down}
  Tariffs = {cheap}
  Offers <- FewOffers
  KindOf <- MCKindOf
  EngineOf <- MCEngineOf
  Disturbances = {}
  MaxEdits = 2
PROPERTY
  Converges
