SPECIFICATION Spec
CONSTANTS
  Unavailable = Unavailable
  TolerablePercent = 50
  ChunkRows = 2
  Sources = {"op", "reg"}
  Forms <- SpotForms
  Registers <- MCRegisters
  CompleteLists <- MCCompleteLists
  Country <- MCCountry
  Near <- MCNear
  Rates <- MCRates
  Worlds <- SpotWorlds
  Listing <- MCListing
  Opening = "opening"
  Document <- MCDocument
  MaxEdits = 1
INVARIANT SpotKept
