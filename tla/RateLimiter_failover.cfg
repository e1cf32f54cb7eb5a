\* Two processes share a Redis server that may fail; they may restart.
SPECIFICATION Spec
CONSTANTS
  q1 = q1  q2 = q2  q3 = q3  a = a  b = b  p1 = p1  p2 = p2
  Requests <- ThreeRequests
  Clients <- TwoClients
  Instances <- TwoProcesses
  Shared = Shared
  Limit = 1
  CleanupAt = 1
  LastMinute = 2
  MaxRestarts = 1
SYMMETRY Symmetry
INVARIANTS
  TypeOK
  SharedLimit
  RefusedOnlyWhenFull
  GrantedOnce
  TableBounded
