\* Three overlapping calls on one fault event; statements fail, acknowledgements are lost, the process crashes.
SPECIFICATION Spec
CONSTANTS
  r1 = r1  r2 = r2  r3 = r3  d1 = d1  d2 = d2  c1 = c1  c2 = c2
  Requests <- MCRequests
  Keys <- LoneKeys
  KindOf <- LoneKindOf
  Kinds = {}
  Codes <- MCCodes
  Data <- OneDatum
  SeedKeys = {"FE1"}
  SeedCode <- LoneSeed
  SeedData = d1
  NoCode = NoCode  NoData = NoData  NoStatus = NoStatus  NoKey = NoKey  Blank = Blank
  GuessAhead = 0
  Faulty = TRUE
SYMMETRY Symmetry
INVARIANTS
  VersionHistory
  AuditTruthful
  OkIsAudited
PROPERTIES
  RecordsImplemented
