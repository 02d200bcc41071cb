SPECIFICATION Spec
CONSTANTS
  a = a
  b = b
  w1 = w1
  w2 = w2
  up = up
  down = down
  blank = blank
  cheap = cheap
  dear = dear
  silent = silent
  withdrawn = withdrawn
  Cpos = {a}
  Stream <- DeltaStream
  Static = {}
  Seeded = {a}
  Statuses = {up, down}
  Blank = blank
  Prices = {cheap, dear}
  Silent = silent
  Withdrawn = withdrawn
  NoPrice = NoPrice
  NoWorker = NoWorker
  NoCpo = NoCpo
  Workers = {w1, w2}
  SpoolBatch = 2
  MaxDepth = 3
  MayFail = {}
  MaxFiles = 2
  MaxCrashes = 0
INVARIANT
  StatusLatest
