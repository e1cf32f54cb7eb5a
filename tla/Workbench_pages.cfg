\* Pages of inverters and of fault events; requests fail.
\* A user may stop clicking at any time.
SPECIFICATION Spec
CHECK_DEADLOCK FALSE
CONSTANTS
  t1 = t1  t2 = t2  l1 = l1  l2 = l2  l3 = l3  c1 = c1  c2 = c2  d1 = d1  i1 = i1  i2 = i2  f1 = f1
  Keys <- MCKeys
  KindOf <- MCKindOf
  Codes = {c1, c2}
  Data = {d1}
  SeedKeys <- MCSeedKeys
  SeedCode <- MCSeedCode
  SeedData = d1
  NoCode = NoCode  NoData = NoData  NoStatus = NoStatus
  DemoCode = c1
  Posts = {t1, t2}
  Loads = {l1, l2, l3}
  None = None
  PageSize = 1
  Leave <- MCLeave
  MaxMounts = 2
SYMMETRY Symmetry
INVARIANTS
  TypeOK
  MovesAsSeen
  RemoteReviewed
  DrawerShowsMove
  RefusedOnlyWhenStale
PROPERTIES
  SuccessShown
