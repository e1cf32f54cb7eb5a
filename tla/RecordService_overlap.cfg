\* Three overlapping calls on the fault events; nothing fails.
SPECIFICATION Spec
CONSTANTS
  r1 = r1  r2 = r2  r3 = r3  d1 = d1  d2 = d2  c1 = c1  c2 = c2
  Requests <- MCRequests
  Keys <- FaultKeys
  KindOf <- FaultKindOf
  Kinds = {"FaultEvent"}
  Codes <- MCCodes
  Data <- MCData
  SeedKeys = {"FE1"}
  SeedCode <- FaultSeed
  SeedData = d1
  NoCode = NoCode  NoData = NoData  NoStatus = NoStatus  NoKey = NoKey  Blank = Blank
  GuessAhead = 0
  Faulty = FALSE
SYMMETRY Symmetry
INVARIANTS
  TypeOK
  RefusedLeavesNoTrace
  ConflictMeansProgress
  ReadsOwnWrite
  ChangesAudited
PROPERTIES
  RecordsImplemented
