SPECIFICATION Spec
CONSTANTS
  c1 = c1
  c2 = c2
  e1 = e1
  e2 = e2
  avail = avail
  prices = prices
  admin = admin
  ingest = ingest
  api = api
  up = up
  down = down
  cheap = cheap
  dear = dear
  NoStatus = NoStatus
  NoTariff = NoTariff
  Passes = {prices}
  Connectors = {c1, c2}
  EvseOf <- OwnEvse
  Statuses = {up}
  Tariffs = {cheap}
  Offers <- PricedOffers
  KindOf <- MCKindOf
  EngineOf <- MCEngineOf
  Disturbances = {"outage"}
  MaxEdits = 2
PROPERTY
  WithdrawnClosed
