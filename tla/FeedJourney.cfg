SPECIFICATION Spec
CONSTANTS
  Unavailable = Unavailable
  TolerablePercent = 50
  ChunkRows = 2
  Sources = {"op", "reg"}
  Forms <- MCForms
  Registers <- MCRegisters
  CompleteLists <- MCCompleteLists
  Country <- MCCountry
  Near <- MCNear
  Rates <- MCRates
  Worlds <- MCWorlds
  Listing <- MCListing
  Opening = "opening"
  Document <- MCDocument
  MaxEdits = 1
INVARIANTS
  ChargedAsOffered
  MirrorAgrees
  StatusesJoin
  DumpWhole
PROPERTIES
  RestatedQuietly
  NeverFalselyFree
