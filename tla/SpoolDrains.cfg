SPECIFICATION FairSpec
CONSTANTS
  a = a
  b = b
  w1 = w1
  w2 = w2
  up = up
  down = down
  blank = blank
  cheap = cheap
  dear = dear
  silent = silent
  withdrawn = withdrawn
  Cpos = {a}
  Stream <- ContendedStream
  Static <- StaticTable
  Seeded = {}
  Statuses = {up, down}
  Blank = blank
  Prices = {cheap, dear}
  Silent = silent
  Withdrawn = withdrawn
  NoPrice = NoPrice
  NoWorker = NoWorker
  NoCpo = NoCpo
  Workers = {w1, w2}
  SpoolBatch = 2
  MaxDepth = 2
  MayFail = {a}
  MaxFiles = 3
  MaxCrashes = 1
INVARIANTS
  OneOwner
PROPERTY
  Drains
