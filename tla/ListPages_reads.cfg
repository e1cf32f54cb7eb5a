\* A reader pages through three or four rows while two users change them.
SPECIFICATION Spec
CONSTANTS
  w1 = w1  w2 = w2
  Ids <- MCIds
  Seeded <- MCSeeded
  Writers = {w1, w2}
  AskedSizes = {0, 1, 2, 3}
  DefaultSize = 1
  LargestSize = 2
  LastTime = 2
SYMMETRY Symmetry
INVARIANTS
  TypeOK
  MissedOnlyByRemovals
  RepeatsOnlyByWrites
