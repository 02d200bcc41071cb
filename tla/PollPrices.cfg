SPECIFICATION Spec
CONSTANTS
  c1 = c1
  c2 = c2
  e1 = e1
  e2 = e2
  avail = avail
  prices = prices
  admin = admin
  ingest = ingest
  api = api
  up = up
  down = down
  cheap = cheap
  dear = dear
  NoStatus = NoStatus
  NoTariff = NoTariff
  Passes = {prices}
  Connectors = {c1, c2}
  EvseOf <- SharedEvse
  Statuses = {up, down}
  Tariffs = {cheap, dear}
  Offers <- PricedOffers
  KindOf <- MCKindOf
  EngineOf <- MCEngineOf
  Disturbances = {"rowerror", "crash"}
  MaxEdits = 2
INVARIANTS
  PricesRemembered
PROPERTIES
  WithdrawnClosed
  ConfirmsSeen
