\* The backend does not come back when a table was emptied.
SPECIFICATION FairSpec
CONSTANTS
  c1 = c1  c2 = c2  c3 = c3
  Keys <- MCKeys
  KindOf <- MCKindOf
  Codes = {c1, c2, c3}
  Data = {d1}
  SeedKeys <- MCSeedKeys
  SeedCode <- MCSeedCode
  SeedData = d1
  NoCode = NoCode  NoData = NoData  NoStatus = NoStatus
  Attempts = 1
  MaxVersion = 1
  MaxTrouble = 1
PROPERTIES
  ServesAgain
