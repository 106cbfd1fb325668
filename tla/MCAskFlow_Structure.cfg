CONSTANTS
  c1 = c1
  c2 = c2
  k1 = k1
  k2 = k2
  n1 = n1
  n2 = n2
  None = None
  Cookies = {c1}
  Tuples = {k1, k2}
  Nft = {n1}
  Workers = {"neigh", "flush"}
  Overlap = FALSE
  TuplesAt <- OneTuple
  HwOutcomes = {"hw", "sw", "again", "fail"}
  GenLimit = 16
  MaxFlows = 2
  MaxPending = 2
  MaxHwId = 3
  MaxFake = 1
  MaxGen = 1
  MaxBorn = 1
  MaxMac = 2
  MaxRoute = 1
SPECIFICATION Spec
INVARIANT TypeOK
INVARIANT HwCookieOwned
INVARIANT HwCookieNotLeaked
INVARIANT CountersExact
CHECK_DEADLOCK FALSE
