\* Crashes, outages and restarts between edits and removals; docker restarts
\* the process and outages end.
SPECIFICATION FairSpec
CONSTANTS
  c1 = c1  c2 = c2  c3 = c3
  Keys <- MCKeys
  KindOf <- MCKindOf
  Codes = {c1, c2, c3}
  Data = {d1}
  SeedKeys <- MCSeedKeys
  SeedCode <- MCSeedCode
  SeedData = d1
  NoCode = NoCode  NoData = NoData  NoStatus = NoStatus
  Attempts = 2
  MaxVersion = 2
  MaxTrouble = 1
INVARIANTS
  TypeOK
  ServesSeeded
  SeededTogether
PROPERTIES
  StartsPreserveRecords
  ServesAgainIfStartable
