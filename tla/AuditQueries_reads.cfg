\* Three entries while one reader sums and another pages.
SPECIFICATION Spec
CONSTANTS
  Writers <- MCWriters
  Told <- MCTold
  Window = 1
  PageSize = 1
  LastTime = 2
INVARIANTS
  TypeOK
  SummaryFits
  PagingMissesNothing
