\* Two calls on sites and a mitigation action under fair scheduling; nothing fails.
SPECIFICATION FairSpec
CONSTANTS
  r1 = r1  r2 = r2  r3 = r3  d1 = d1  d2 = d2  c1 = c1  c2 = c2
  Requests <- TwoRequests
  Keys <- PlantKeys
  KindOf <- PlantKindOf
  Kinds = {"SolarSite"}
  Codes <- MCCodes
  Data <- MCData
  SeedKeys = {"SS1", "MA1"}
  SeedCode <- PlantSeed
  SeedData = d1
  NoCode = NoCode  NoData = NoData  NoStatus = NoStatus  NoKey = NoKey  Blank = Blank
  GuessAhead = 0
  Faulty = FALSE
PROPERTIES
  EveryCallAnswered
  EveryWriteAudited
